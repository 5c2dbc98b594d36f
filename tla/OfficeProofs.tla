---------------------------- MODULE OfficeProofs ----------------------------
(***************************************************************************)
(* Theorems about the analytics rollups and the repairs of a user's        *)
(* devices from the dashboard, for every set of facts, alarms, tables,     *)
(* runs, devices and operators, every length of a day, an hour and a       *)
(* window, and every number of runs, repairs and deaths.                   *)
(*                                                                         *)
(* A run of the rollups carries figures that others may have replaced; it  *)
(* is enough that what lies behind its window was in the rows before it    *)
(* began, that it has read what lies in it but what came with the tick,    *)
(* and that the days it has read and not written are still to do (DayInv,  *)
(* HourInv).  A repair carries the rows it has read; it is enough that     *)
(* each says where the device still is, or has lost its link (Abroad,      *)
(* ReadRight, Reissued), and that the user keeps the mark meanwhile        *)
(* (Marked, RoutesMarked).                                                 *)
(***************************************************************************)
EXTENDS AnalyticsRollups, AccessRepair, WellFoundedInduction, TLAPS

(* A set of naturals has a least element. *)
LEMMA LeastExists ==
    ASSUME NEW S, S \subseteq Nat, S # {}
    PROVE  \E x \in S : \A y \in S : x <= y
<1>1. \E x \in S : \A y \in S : ~(<<y, x>> \in OpToRel(<, Nat))
  BY NatLessThanWellFounded, WFMin
<1>2. PICK x \in S : \A y \in S : ~(y < x)
  BY <1>1 DEF OpToRel
<1>3. \A y \in S : x <= y
  BY <1>2
<1> QED BY <1>3

LEMMA MinIsLeast == ASSUME NEW S, S \subseteq Nat, S # {} PROVE Min(S) \in S
  BY LeastExists DEF Min

LEMMA MaxIsThere ==
    ASSUME NEW n \in Nat, NEW S, S \subseteq 0..n, S # {}
    PROVE  Max(S) \in S
<1> DEFINE T == {n - x : x \in S}
<1>1. T \subseteq Nat /\ T # {}
  <2>1. \A x \in S : n - x \in Nat
    OBVIOUS
  <2> QED BY <2>1
<1>2. PICK m \in T : \A y \in T : m <= y
  BY <1>1, LeastExists
<1>3. PICK x \in S : m = n - x
  BY <1>2
<1>4. \A y \in S : x >= y
  <2> TAKE y \in S
  <2>1. n - y \in T
    OBVIOUS
  <2>2. n - x <= n - y
    BY <1>2, <1>3, <2>1
  <2> QED BY <2>2
<1> QED BY <1>3, <1>4 DEF Max

(* The bucket of a time grows with it.                                      *)
LEMMA BucketsGrow ==
    ASSUME NEW n \in Nat \ {0}, NEW a \in Nat \ {0}, NEW b \in Nat, a <= b
    PROVE  (a + n - 1) \div n \in 1..((b + n - 1) \div n)
<1>1. PICK p \in Nat : p = a + n - 1
  OBVIOUS
<1>2. PICK q \in Nat : q = b + n - 1
  OBVIOUS
<1>3. p \div n \in Int /\ n * (p \div n) <= p /\ p < n * (p \div n) + n
  OBVIOUS
<1>4. q \div n \in Int /\ n * (q \div n) <= q /\ q < n * (q \div n) + n
  OBVIOUS
<1>5. PICK x \in Int : x = p \div n
  BY <1>3
<1>6. PICK y \in Int : y = q \div n
  BY <1>4
<1>7. n * x <= p /\ p < n * x + n /\ n * y <= q /\ q < n * y + n
  BY <1>3, <1>4, <1>5, <1>6
<1>8. x >= 1
  <2> SUFFICES ASSUME x <= 0 PROVE FALSE
    OBVIOUS
  <2>1. n * x <= 0
    OBVIOUS
  <2> QED BY <1>1, <1>7, <2>1
<1>9. x <= y
  <2> SUFFICES ASSUME x >= y + 1 PROVE FALSE
    OBVIOUS
  <2>1. n * x >= n * (y + 1)
    OBVIOUS
  <2>2. n * (y + 1) = n * y + n
    OBVIOUS
  <2> QED BY <1>1, <1>2, <1>7, <2>1, <2>2
<1> QED BY <1>1, <1>2, <1>5, <1>6, <1>8, <1>9

-----------------------------------------------------------------------------
(* The rollups.  What a run has in memory.                                  *)
Steps == {"idle", "backfill", "load", "rows", "prune", "ops", "hours"}
Past == {"rows", "prune", "ops", "hours"}
Reading == [all : SUBSET Alarms, over : SUBSET Alarms, open : SUBSET Alarms]
Memory ==
    [step : Steps, full : BOOLEAN, from : Nat, old : Nat,
     seen : (SUBSET Facts) \union Reading, days : SUBSET Nat, table : Nat,
     starts : SUBSET Facts, cohorts : SUBSET Nat, alone : BOOLEAN, known : SUBSET (Facts \union Alarms)]
Daily == DailyRows \union {"cohorts"}
Fit(r) ==
    /\ r.old <= now
    /\ r.step \in {"backfill", "load"} => r.table = 1
    /\ r.step = "rows" => r.seen \subseteq Facts /\ r.table \in 1..Len(Tables)
    /\ r.step = "hours" => r.seen \in Reading
RollupTypeOK ==
    /\ now \in 1..LastTick
    /\ at \in [Facts -> Nat] /\ raised \in [Alarms -> Nat] /\ cleared \in [Alarms -> Nat]
    /\ \A e \in Facts : at[e] <= now
    /\ \A a \in Alarms : raised[a] <= now /\ cleared[a] <= now
    /\ rolled \in [Daily -> [1..Day(LastTick) -> SUBSET Facts]]
    /\ hourly \in [1..Hour(LastTick) -> [created : SUBSET Alarms, resolved : SUBSET Alarms]]
    /\ cursor \in 0..now /\ opsCursor \in 0..now
    /\ run \in [Runs -> Memory]
    /\ \A r \in Runs : Fit(run[r])
    /\ calm \in BOOLEAN

(* A run that is alone is alone; after one that was, none has begun.        *)
ByItself == \A r \in Runs : run[r].step # "idle" /\ run[r].alone = TRUE =>
                \A s \in Runs : s # r => run[s].step = "idle"
Calm == calm = TRUE => \A s \in Runs : run[s].step = "idle"
Base == RollupTypeOK /\ ByItself /\ Calm

LEMMA DayFits ==
    ASSUME RollupTypeOK, NEW t \in Nat \ {0}, t <= now
    PROVE  Day(t) \in 1..Day(LastTick) /\ Day(t) \in Nat
<1>1. t <= LastTick /\ LastTick \in Nat /\ DayLength \in Nat \ {0}
  BY RollupAssumption DEF RollupTypeOK
<1>2. Day(t) \in 1..Day(LastTick)
  BY <1>1, BucketsGrow DEF Day
<1> QED BY <1>2

LEMMA HourFits ==
    ASSUME RollupTypeOK, NEW t \in Nat \ {0}, t <= now
    PROVE  Hour(t) \in 1..Hour(LastTick) /\ Hour(t) \in Nat
<1>1. t <= LastTick /\ LastTick \in Nat /\ HourLength \in Nat \ {0}
  BY RollupAssumption DEF RollupTypeOK
<1>2. Hour(t) \in 1..Hour(LastTick)
  BY <1>1, BucketsGrow DEF Hour
<1> QED BY <1>2

LEMMA IdleFits ==
    /\ NoRun \in Memory /\ NoRun.step = "idle" /\ NoRun.table = 1 /\ NoRun.old = 0
    /\ NoRun.alone = FALSE /\ NoRun.known = {}
  BY DEF NoRun, Memory, Steps

LEMMA RollupStarts == RollupInit => Base
<1> SUFFICES ASSUME RollupInit PROVE Base
  OBVIOUS
<1>1. run = [r \in Runs |-> NoRun]
  BY DEF RollupInit
<1>2. run \in [Runs -> Memory] /\ \A r \in Runs : run[r] = NoRun
  BY <1>1, IdleFits
<1>3. \A r \in Runs : Fit(run[r])
  BY <1>2, IdleFits DEF Fit, RollupInit
<1>4. /\ now \in 1..LastTick
      /\ at \in [Facts -> Nat] /\ raised \in [Alarms -> Nat] /\ cleared \in [Alarms -> Nat]
      /\ \A e \in Facts : at[e] <= now
      /\ \A a \in Alarms : raised[a] <= now /\ cleared[a] <= now
      /\ cursor \in 0..now /\ opsCursor \in 0..now /\ calm \in BOOLEAN
  <2>1. now = 1 /\ 1 \in 1..LastTick
    BY RollupAssumption DEF RollupInit
  <2>2. cursor = 0 /\ opsCursor = 0 /\ calm = FALSE
    BY DEF RollupInit
  <2>3. /\ at = [e \in Facts |-> 0] /\ raised = [a \in Alarms |-> 0]
        /\ cleared = [a \in Alarms |-> 0]
    BY DEF RollupInit
  <2>4. /\ at \in [Facts -> Nat] /\ raised \in [Alarms -> Nat] /\ cleared \in [Alarms -> Nat]
        /\ \A e \in Facts : at[e] <= now
        /\ \A a \in Alarms : raised[a] <= now /\ cleared[a] <= now
    BY <2>1, <2>3
  <2>5. cursor \in 0..now /\ opsCursor \in 0..now
    BY <2>1, <2>2
  <2>6. calm \in BOOLEAN
    BY <2>2
  <2> QED BY <2>1, <2>4, <2>5, <2>6
<1>5. rolled \in [Daily -> [1..Day(LastTick) -> SUBSET Facts]]
  BY DEF RollupInit, Daily
<1>6. hourly \in [1..Hour(LastTick) -> [created : SUBSET Alarms, resolved : SUBSET Alarms]]
  BY DEF RollupInit
<1>7. ByItself /\ Calm
  BY <1>2, IdleFits DEF ByItself, Calm
<1> QED BY <1>2, <1>3, <1>4, <1>5, <1>6, <1>7 DEF Base, RollupTypeOK

-----------------------------------------------------------------------------
(* What the actions do to the runs.                                         *)
Others(r) == \A s \in Runs : s # r => run'[s] = run[s]

LEMMA StartsRun ==
    ASSUME Base, NEW r \in Runs, NEW full \in BOOLEAN, NEW step \in {"backfill", "load"},
           run' = Started(r, full, step)
    PROVE  /\ run' \in [Runs -> Memory]
           /\ run'[r].step = step /\ run'[r].table = 1 /\ run'[r].old = 0
           /\ run'[r].alone = TRUE => Active = {}
           /\ \A s \in Runs : s # r =>
                 /\ run'[s].step = run[s].step /\ run'[s].from = run[s].from
                 /\ run'[s].old = run[s].old /\ run'[s].seen = run[s].seen
                 /\ run'[s].days = run[s].days /\ run'[s].table = run[s].table
                 /\ run'[s].starts = run[s].starts /\ run'[s].cohorts = run[s].cohorts
                 /\ run'[s].alone = FALSE
<1>1. PICK alone \in BOOLEAN : alone = (Active = {})
  OBVIOUS
<1> DEFINE g == [NoRun EXCEPT !.step = step, !.full = full, !.alone = alone]
<1>2. /\ g \in Memory /\ g.step = step /\ g.table = 1 /\ g.old = 0 /\ g.alone = alone
  BY IdleFits DEF Memory, Steps
<1>3. run'[r] = g
  BY <1>1 DEF Started
<1> HIDE DEF g
<1>4. ASSUME NEW s \in Runs, s # r
      PROVE  /\ run'[s] \in Memory
             /\ run'[s].step = run[s].step /\ run'[s].from = run[s].from
             /\ run'[s].old = run[s].old /\ run'[s].seen = run[s].seen
             /\ run'[s].days = run[s].days /\ run'[s].table = run[s].table
             /\ run'[s].starts = run[s].starts /\ run'[s].cohorts = run[s].cohorts
             /\ run'[s].alone = FALSE
  <2>1. PICK h \in Memory : h = run[s]
    BY DEF Base, RollupTypeOK
  <2>2. run'[s] = [h EXCEPT !.alone = FALSE, !.known = {}]
    BY <1>4, <2>1 DEF Started
  <2> DEFINE k == [h EXCEPT !.alone = FALSE, !.known = {}]
  <2>3. /\ k \in Memory /\ k.step = h.step /\ k.from = h.from /\ k.old = h.old /\ k.seen = h.seen
        /\ k.days = h.days /\ k.table = h.table /\ k.starts = h.starts /\ k.cohorts = h.cohorts
        /\ k.alone = FALSE
    BY <2>1 DEF Memory
  <2> HIDE DEF k
  <2>4. run'[s] = k
    BY <2>2 DEF k
  <2> QED BY <2>1, <2>3, <2>4
<1>5. run' = [s \in Runs |-> run'[s]]
  BY DEF Started
<1>6. run' \in [Runs -> Memory]
  <2>1. \A s \in Runs : run'[s] \in Memory
    BY <1>2, <1>3, <1>4
  <2>2. PICK f : f = run'
    OBVIOUS
  <2> QED BY <1>5, <2>1, <2>2
<1> QED BY <1>1, <1>2, <1>3, <1>4, <1>6

LEMMA LoadsEvents ==
    ASSUME Base, NEW r \in Runs, LoadEvents(r)
    PROVE  \E from \in Nat :
           /\ from = IF run[r].full THEN 0 ELSE Earlier(cursor, DayLength)
           /\ run[r].step = "load" /\ Others(r) /\ run' \in [Runs -> Memory]
           /\ run'[r].alone = run[r].alone
           /\ run'[r].old <= now
           /\ run'[r].from = from /\ run'[r].table = 1
           /\ run'[r].seen = {e \in Ledger : at[e] >= from}
           /\ run'[r].starts = Ledger \intersect Starts
           /\ run'[r].days = {Day(at[e]) : e \in run'[r].seen}
           /\ run[r].alone = TRUE => run'[r].known = Ledger \union
                 {a \in Alarms : raised[a] # 0 /\ raised[a] + Lookback >= now}
           /\ \/ /\ run'[r].step = "rows"
                 /\ run'[r].cohorts = {Day(at[e]) : e \in run'[r].starts}
              \/ run'[r].step = "ops" /\ run'[r].seen = {}
<1>1. PICK h \in Memory : h = run[r]
  BY DEF Base, RollupTypeOK
<1>2. PICK from \in Nat : from = IF run[r].full THEN 0 ELSE Earlier(cursor, DayLength)
  <2>1. cursor \in Nat /\ DayLength \in Nat
    BY RollupAssumption DEF Base, RollupTypeOK
  <2>2. Earlier(cursor, DayLength) \in Nat
    BY <2>1 DEF Earlier
  <2> QED BY <2>2
<1>3. PICK old \in Nat : old = (IF run[r].full THEN 0 ELSE cursor) /\ old <= now
  BY DEF Base, RollupTypeOK
<1>4. PICK seen : seen = {e \in Ledger : at[e] >= from}
  OBVIOUS
<1>5. PICK starts : starts = Ledger \intersect Starts
  OBVIOUS
<1>6. PICK recent : recent = {a \in Alarms : raised[a] # 0 /\ raised[a] + Lookback >= now}
  OBVIOUS
<1>7. PICK nothing \in BOOLEAN : nothing = (seen = {} /\ old # 0)
  OBVIOUS
<1>8. PICK step : step = IF nothing THEN "ops" ELSE "rows"
  OBVIOUS
<1>9. PICK days : days = {Day(at[e]) : e \in seen}
  OBVIOUS
<1>10. PICK cohorts : cohorts = IF nothing THEN {} ELSE {Day(at[e]) : e \in starts}
  OBVIOUS
<1>11. PICK heard : heard = IF h.alone THEN Ledger \union recent ELSE {}
  OBVIOUS
<1>12. run' = [run EXCEPT ![r].step = step, ![r].from = from, ![r].old = old, ![r].seen = seen,
                          ![r].days = days, ![r].starts = starts, ![r].cohorts = cohorts,
                          ![r].known = heard]
  BY <1>1, <1>2, <1>3, <1>4, <1>5, <1>6, <1>7, <1>8, <1>9, <1>10, <1>11 DEF LoadEvents, Loaded
<1>13. \A e \in Ledger : e \in Facts /\ Day(at[e]) \in Nat
  BY DayFits DEF Base, RollupTypeOK, Ledger
<1>14. /\ seen \subseteq Facts /\ starts \subseteq Facts /\ heard \subseteq Facts \union Alarms
       /\ days \subseteq Nat /\ cohorts \subseteq Nat /\ step \in {"ops", "rows"}
  BY <1>4, <1>5, <1>6, <1>8, <1>9, <1>10, <1>11, <1>13
<1> DEFINE g == [h EXCEPT !.step = step, !.from = from, !.old = old, !.seen = seen,
                          !.days = days, !.starts = starts, !.cohorts = cohorts, !.known = heard]
<1>15. /\ g.step = step /\ g.from = from /\ g.old = old /\ g.seen = seen /\ g.days = days
       /\ g.starts = starts /\ g.cohorts = cohorts /\ g.known = heard
       /\ g.table = h.table /\ g.alone = h.alone
  BY <1>1 DEF Memory
<1>16. g \in Memory
  BY <1>1, <1>14 DEF Memory, Steps
<1>17. run' = [run EXCEPT ![r] = g] /\ run \in [Runs -> Memory]
  BY <1>1, <1>12 DEF Base, RollupTypeOK
<1> HIDE DEF g
<1>18. run' \in [Runs -> Memory] /\ run'[r] = g /\ Others(r)
  BY <1>16, <1>17 DEF Others
<1>19. run[r].step = "load" /\ h.table = 1
  BY <1>1 DEF LoadEvents, Loaded, Base, RollupTypeOK, Fit
<1>20. /\ run'[r].step = step /\ run'[r].from = from /\ run'[r].old = old /\ run'[r].seen = seen
       /\ run'[r].days = days /\ run'[r].starts = starts /\ run'[r].cohorts = cohorts
       /\ run'[r].known = heard /\ run'[r].table = 1 /\ run'[r].alone = run[r].alone
  BY <1>1, <1>15, <1>18, <1>19
<1>21. run[r].alone = TRUE => heard = Ledger \union recent
  BY <1>1, <1>11
<1>22. \/ step = "rows" /\ cohorts = {Day(at[e]) : e \in starts}
       \/ step = "ops" /\ seen = {}
  BY <1>7, <1>8, <1>10
<1> QED
  <2> WITNESS from \in Nat
  <2>1. run'[r].seen = {e \in Ledger : at[e] >= from} /\ run'[r].starts = Ledger \intersect Starts
    BY <1>4, <1>5, <1>20
  <2>2. run'[r].days = {Day(at[e]) : e \in run'[r].seen}
    BY <1>9, <1>20
  <2>3. run[r].alone = TRUE => run'[r].known = Ledger \union
                 {a \in Alarms : raised[a] # 0 /\ raised[a] + Lookback >= now}
    BY <1>6, <1>20, <1>21
  <2>4. \/ run'[r].step = "rows" /\ run'[r].cohorts = {Day(at[e]) : e \in run'[r].starts}
        \/ run'[r].step = "ops" /\ run'[r].seen = {}
    BY <1>20, <1>22
  <2>5. run'[r].old <= now
    BY <1>3, <1>20
  <2> QED BY <1>2, <1>18, <1>19, <1>20, <2>1, <2>2, <2>3, <2>4, <2>5

LEMMA PutsRun ==
    ASSUME Base, NEW r \in Runs, NEW g \in Memory, run' = [run EXCEPT ![r] = g]
    PROVE  run' \in [Runs -> Memory] /\ run'[r] = g /\ Others(r)
  BY DEF Base, RollupTypeOK, Others

LEMMA ReplacesRows ==
    ASSUME Base, NEW r \in Runs, ReplaceRows(r)
    PROVE  /\ run[r].step = "rows" /\ Min(run[r].days) \in run[r].days
           /\ run[r].table \in 1..Len(Tables) /\ run[r].seen \subseteq Facts
           /\ run' \in [Runs -> Memory] /\ Others(r)
           /\ run'[r].step = "rows" /\ run'[r].from = run[r].from /\ run'[r].seen = run[r].seen
           /\ run'[r].old = run[r].old /\ run'[r].starts = run[r].starts
           /\ run'[r].cohorts = run[r].cohorts
           /\ run'[r].alone = run[r].alone /\ run'[r].known = run[r].known
           /\ \/ /\ run[r].table = Len(Tables) /\ run'[r].table = 1
                 /\ run'[r].days = run[r].days \ {Min(run[r].days)}
              \/ /\ run[r].table # Len(Tables) /\ run'[r].table = run[r].table + 1
                 /\ run'[r].days = run[r].days
<1>1. PICK h \in Memory : h = run[r]
  BY DEF Base, RollupTypeOK
<1>2. h.step = "rows" /\ h.days # {} /\ h.days \subseteq Nat /\ h.table \in 1..Len(Tables) /\ h.seen \subseteq Facts
  BY <1>1 DEF ReplaceRows, Memory, Base, RollupTypeOK, Fit
<1>3. PICK d \in h.days : d = Min(h.days)
  BY <1>2, MinIsLeast
<1>4. PICK last \in BOOLEAN : last = (h.table = Len(Tables))
  OBVIOUS
<1>5. PICK table \in Nat : table = IF last THEN 1 ELSE h.table + 1
  BY <1>1 DEF Memory
<1>6. PICK days \in SUBSET Nat : days = IF last THEN h.days \ {d} ELSE h.days
  BY <1>2
<1> DEFINE g == [h EXCEPT !.table = table, !.days = days]
<1>7. /\ g \in Memory /\ g.table = table /\ g.days = days /\ g.step = h.step /\ g.from = h.from
      /\ g.seen = h.seen /\ g.old = h.old /\ g.starts = h.starts /\ g.cohorts = h.cohorts
      /\ g.alone = h.alone /\ g.known = h.known
  BY <1>1 DEF Memory
<1>8. run' = [run EXCEPT ![r].table = table, ![r].days = days]
  BY <1>1, <1>3, <1>4, <1>5, <1>6 DEF ReplaceRows, Base, RollupTypeOK
<1>9. run' = [run EXCEPT ![r] = g]
  BY <1>1, <1>8 DEF Base, RollupTypeOK
<1> HIDE DEF g
<1>10. run' \in [Runs -> Memory] /\ run'[r] = g /\ Others(r)
  BY <1>7, <1>9, PutsRun
<1> QED BY <1>1, <1>2, <1>3, <1>4, <1>5, <1>6, <1>7, <1>10

LEMMA ReplacesCohort ==
    ASSUME Base, NEW r \in Runs, ReplaceCohort(r)
    PROVE  /\ run[r].step = "rows" /\ run[r].days = {}
           /\ Min(run[r].cohorts) \in run[r].cohorts /\ run[r].starts \subseteq Facts
           /\ run' \in [Runs -> Memory] /\ Others(r)
           /\ run'[r].step = "rows" /\ run'[r].from = run[r].from /\ run'[r].seen = run[r].seen
           /\ run'[r].old = run[r].old /\ run'[r].starts = run[r].starts
           /\ run'[r].days = run[r].days /\ run'[r].table = run[r].table
           /\ run'[r].alone = run[r].alone /\ run'[r].known = run[r].known
           /\ run'[r].cohorts = run[r].cohorts \ {Min(run[r].cohorts)}
<1>1. PICK h \in Memory : h = run[r]
  BY DEF Base, RollupTypeOK
<1>2. h.step = "rows" /\ h.days = {} /\ h.cohorts # {} /\ h.cohorts \subseteq Nat /\ h.starts \subseteq Facts
  BY <1>1 DEF ReplaceCohort, Memory
<1>3. PICK d \in h.cohorts : d = Min(h.cohorts)
  BY <1>2, MinIsLeast
<1>4. PICK cohorts \in SUBSET Nat : cohorts = h.cohorts \ {d}
  BY <1>2
<1> DEFINE g == [h EXCEPT !.cohorts = cohorts]
<1>5. /\ g \in Memory /\ g.table = h.table /\ g.days = h.days /\ g.step = h.step /\ g.from = h.from
      /\ g.seen = h.seen /\ g.old = h.old /\ g.starts = h.starts /\ g.cohorts = cohorts
      /\ g.alone = h.alone /\ g.known = h.known
  BY <1>1 DEF Memory
<1>6. run' = [run EXCEPT ![r].cohorts = cohorts]
  BY <1>1, <1>3, <1>4 DEF ReplaceCohort, Base, RollupTypeOK
<1>7. run' = [run EXCEPT ![r] = g]
  BY <1>1, <1>6 DEF Base, RollupTypeOK
<1> HIDE DEF g
<1>8. run' \in [Runs -> Memory] /\ run'[r] = g /\ Others(r)
  BY <1>5, <1>7, PutsRun
<1> QED BY <1>1, <1>2, <1>3, <1>4, <1>5, <1>8

LEMMA SavesCursor ==
    ASSUME Base, NEW r \in Runs, SaveCursor(r)
    PROVE  /\ run[r].step = "rows" /\ run[r].days = {} /\ run[r].cohorts = {}
           /\ run' \in [Runs -> Memory] /\ Others(r)
           /\ run'[r].step = "prune" /\ run'[r].old = run[r].old
           /\ run'[r].alone = run[r].alone /\ run'[r].known = run[r].known
           /\ cursor' \in 0..now
<1>1. PICK h \in Memory : h = run[r]
  BY DEF Base, RollupTypeOK
<1>2. h.step = "rows" /\ h.days = {} /\ h.cohorts = {} /\ h.seen \subseteq Facts
  BY <1>1 DEF SaveCursor, Base, RollupTypeOK, Fit
<1> DEFINE g == [h EXCEPT !.step = "prune", !.seen = {}, !.starts = {}, !.from = 0]
<1>3. g \in Memory /\ g.step = "prune" /\ g.old = h.old /\ g.alone = h.alone /\ g.known = h.known
  BY <1>1 DEF Memory, Steps
<1>4. run' = [run EXCEPT ![r] = g]
  BY <1>1 DEF SaveCursor, Base, RollupTypeOK
<1> HIDE DEF g
<1>5. run' \in [Runs -> Memory] /\ run'[r] = g /\ Others(r)
  BY <1>3, <1>4, PutsRun
<1>6. cursor' \in 0..now
  <2>1. CASE h.seen = {}
    <3>1. cursor' = h.old
      BY <1>1, <2>1 DEF SaveCursor
    <3>2. h.old \in Nat /\ h.old <= now /\ now \in Nat
      BY <1>1 DEF Memory, Base, RollupTypeOK, Fit
    <3> QED BY <3>1, <3>2
  <2>2. CASE h.seen # {}
    <3> DEFINE T == {at[e] : e \in h.seen}
    <3>1. cursor' = Max(T)
      BY <1>1, <2>2 DEF SaveCursor
    <3>2. now \in Nat /\ \A e \in h.seen : at[e] \in Nat /\ at[e] <= now
      BY <1>2 DEF Base, RollupTypeOK
    <3>3. T \subseteq 0..now
      BY <3>2
    <3>4. T # {}
      BY <2>2
    <3> HIDE DEF T
    <3>5. Max(T) \in T
      BY <3>2, <3>3, <3>4, MaxIsThere
    <3> QED BY <3>1, <3>3, <3>5
  <2> QED BY <2>1, <2>2
<1> QED BY <1>1, <1>2, <1>3, <1>5, <1>6

LEMMA MovesOn ==
    ASSUME Base, NEW r \in Runs, NEW step \in {"load", "ops"}, NEW old \in {0, run[r].old},
           run' = [run EXCEPT ![r].step = step, ![r].old = old]
    PROVE  /\ run' \in [Runs -> Memory] /\ Others(r)
           /\ run'[r].step = step /\ run'[r].old = old /\ run'[r].table = run[r].table
           /\ run'[r].alone = run[r].alone /\ run'[r].known = run[r].known
<1>1. PICK h \in Memory : h = run[r]
  BY DEF Base, RollupTypeOK
<1>2. old \in Nat
  BY <1>1 DEF Memory
<1> DEFINE g == [h EXCEPT !.step = step, !.old = old]
<1>3. /\ g \in Memory /\ g.step = step /\ g.old = old /\ g.table = h.table
      /\ g.alone = h.alone /\ g.known = h.known
  BY <1>1, <1>2 DEF Memory, Steps
<1>4. run' = [run EXCEPT ![r] = g]
  BY <1>1 DEF Base, RollupTypeOK
<1> HIDE DEF g
<1>5. run' \in [Runs -> Memory] /\ run'[r] = g /\ Others(r)
  BY <1>3, <1>4, PutsRun
<1> QED BY <1>1, <1>3, <1>5

LEMMA LoadsAlarms ==
    ASSUME Base, NEW r \in Runs, LoadAlarms(r)
    PROVE  /\ run[r].step = "ops" /\ run' \in [Runs -> Memory] /\ Others(r)
           /\ run'[r].step = "hours" /\ run'[r].from = OpsFrom(r) /\ run'[r].old = now
           /\ run'[r].seen \in Reading
           /\ \A a \in Alarms : raised[a] # 0 /\ raised[a] >= OpsFrom(r) =>
                 a \in run'[r].seen.all /\ Hour(raised[a]) \in run'[r].days
           /\ \A a \in run'[r].seen.all : raised[a] # 0 \/ cleared[a] # 0
           /\ \A a \in run'[r].seen.over : cleared[a] # 0
           /\ run'[r].alone = run[r].alone /\ run'[r].known = run[r].known
<1>1. PICK h \in Memory : h = run[r]
  BY DEF Base, RollupTypeOK
<1>2. /\ now \in Nat \ {0} /\ opsCursor \in Nat /\ Lookback \in Nat
      /\ RewindHours * HourLength \in Nat
  BY RollupAssumption DEF Base, RollupTypeOK
<1>3. OpsFrom(r) \in Nat
  <2>1. Earlier(now, Lookback) \in Nat /\ Earlier(opsCursor, RewindHours * HourLength) \in Nat
    BY <1>2 DEF Earlier
  <2> QED BY <2>1 DEF OpsFrom, Later
<1>4. PICK from \in Nat : from = OpsFrom(r)
  BY <1>3
<1>5. PICK new \in SUBSET Alarms : new = {a \in Alarms : raised[a] # 0 /\ raised[a] >= from}
  OBVIOUS
<1>6. PICK over \in SUBSET Alarms : over = {a \in Alarms : cleared[a] # 0 /\ cleared[a] >= from}
  OBVIOUS
<1>7. PICK open \in SUBSET Alarms : open = {a \in Alarms : raised[a] # 0 /\ cleared[a] = 0}
  OBVIOUS
<1>8. PICK done \in SUBSET Alarms : done = {a \in new \union over : cleared[a] # 0}
  OBVIOUS
<1>9. PICK seen \in Reading : seen = [all |-> new \union over, over |-> done, open |-> open]
  BY DEF Reading
<1>10. PICK days : days = {Hour(now)} \union {Hour(raised[a]) : a \in new}
                                     \union {Hour(cleared[a]) : a \in over}
  OBVIOUS
<1>11. days \subseteq Nat
  <2>1. Hour(now) \in Nat
    BY <1>2, HourFits DEF Base
  <2>2. \A a \in new : Hour(raised[a]) \in Nat
    BY <1>5, HourFits DEF Base, RollupTypeOK
  <2>3. \A a \in over : Hour(cleared[a]) \in Nat
    BY <1>6, HourFits DEF Base, RollupTypeOK
  <2> QED BY <1>10, <2>1, <2>2, <2>3
<1> DEFINE g == [h EXCEPT !.step = "hours", !.from = from, !.old = now, !.seen = seen, !.days = days]
<1>12. /\ g.step = "hours" /\ g.from = from /\ g.old = now /\ g.seen = seen /\ g.days = days
       /\ g.alone = h.alone /\ g.known = h.known
  BY <1>1 DEF Memory
<1>13. g \in Memory
  BY <1>1, <1>2, <1>11 DEF Memory, Steps
<1>14. run' = [run EXCEPT ![r].step = "hours", ![r].from = from, ![r].old = now,
                          ![r].seen = seen, ![r].days = days]
  BY <1>4, <1>5, <1>6, <1>7, <1>8, <1>9, <1>10 DEF LoadAlarms
<1>15. run' = [run EXCEPT ![r] = g]
  BY <1>1, <1>14 DEF Base, RollupTypeOK
<1> HIDE DEF g
<1>16. run' \in [Runs -> Memory] /\ run'[r] = g /\ Others(r)
  BY <1>13, <1>15, PutsRun
<1>17. run'[r].seen.all = new \union over /\ run'[r].seen.over = done /\ run'[r].seen \in Reading
  BY <1>9, <1>12, <1>16
<1>18. \A a \in Alarms : raised[a] # 0 /\ raised[a] >= from =>
           a \in run'[r].seen.all /\ Hour(raised[a]) \in run'[r].days
  BY <1>5, <1>10, <1>12, <1>16, <1>17
<1>19. /\ \A a \in run'[r].seen.all : raised[a] # 0 \/ cleared[a] # 0
       /\ \A a \in run'[r].seen.over : cleared[a] # 0
  BY <1>5, <1>6, <1>8, <1>17
<1>20. run[r].step = "ops"
  BY DEF LoadAlarms
<1> QED BY <1>1, <1>4, <1>12, <1>16, <1>17, <1>18, <1>19, <1>20

LEMMA ReplacesHour ==
    ASSUME Base, NEW r \in Runs, ReplaceHour(r)
    PROVE  /\ run[r].step = "hours" /\ Min(run[r].days) \in run[r].days /\ run[r].seen \in Reading
           /\ run' \in [Runs -> Memory] /\ Others(r)
           /\ run'[r].step = "hours" /\ run'[r].from = run[r].from /\ run'[r].seen = run[r].seen
           /\ run'[r].old = run[r].old /\ run'[r].days = run[r].days \ {Min(run[r].days)}
           /\ run'[r].alone = run[r].alone /\ run'[r].known = run[r].known
<1>1. PICK h \in Memory : h = run[r]
  BY DEF Base, RollupTypeOK
<1>2. h.step = "hours" /\ h.days # {} /\ h.days \subseteq Nat /\ h.seen \in Reading
  BY <1>1 DEF ReplaceHour, Memory, Base, RollupTypeOK, Fit
<1>3. PICK d \in h.days : d = Min(h.days)
  BY <1>2, MinIsLeast
<1>4. PICK days \in SUBSET Nat : days = h.days \ {d}
  BY <1>2
<1> DEFINE g == [h EXCEPT !.days = days]
<1>5. /\ g \in Memory /\ g.days = days /\ g.step = h.step /\ g.from = h.from
      /\ g.seen = h.seen /\ g.old = h.old /\ g.alone = h.alone /\ g.known = h.known
  BY <1>1 DEF Memory
<1>6. run' = [run EXCEPT ![r].days = days]
  BY <1>1, <1>3, <1>4 DEF ReplaceHour, Base, RollupTypeOK
<1>7. run' = [run EXCEPT ![r] = g]
  BY <1>1, <1>6 DEF Base, RollupTypeOK
<1> HIDE DEF g
<1>8. run' \in [Runs -> Memory] /\ run'[r] = g /\ Others(r)
  BY <1>5, <1>7, PutsRun
<1> QED BY <1>1, <1>2, <1>3, <1>4, <1>5, <1>8

LEMMA GoesIdle ==
    ASSUME Base, NEW r \in Runs, run' = [run EXCEPT ![r] = NoRun]
    PROVE  /\ run' \in [Runs -> Memory] /\ Others(r) /\ run'[r].step = "idle" /\ run'[r].old = 0
           /\ run'[r].alone = FALSE
  BY IdleFits, PutsRun

-----------------------------------------------------------------------------
(* The runs that are past their loading go on as they were, or one less.    *)
Same(s) ==
    /\ run'[s].step = run[s].step /\ run'[s].from = run[s].from /\ run'[s].seen = run[s].seen
    /\ run'[s].days = run[s].days /\ run'[s].table = run[s].table /\ run'[s].old = run[s].old
    /\ run'[s].starts = run[s].starts /\ run'[s].cohorts = run[s].cohorts
    /\ run'[s].alone = TRUE => run[s].alone = TRUE /\ run'[s].known = run[s].known
Quietly == \A s \in Runs : run'[s].step \notin Past \/ Same(s)

LEMMA StartKeeps ==
    ASSUME Base, NEW r \in Runs, NEW full \in BOOLEAN, NEW step \in {"backfill", "load"},
           run' = Started(r, full, step), now' = now, calm' = FALSE
    PROVE  run' \in [Runs -> Memory] /\ (\A s \in Runs : Fit(run[s])') /\ ByItself' /\ Calm' /\ Quietly
<1>1. /\ run' \in [Runs -> Memory]
      /\ run'[r].step = step /\ run'[r].table = 1 /\ run'[r].old = 0
      /\ run'[r].alone = TRUE => Active = {}
      /\ \A s \in Runs : s # r =>
            /\ run'[s].step = run[s].step /\ run'[s].from = run[s].from
            /\ run'[s].old = run[s].old /\ run'[s].seen = run[s].seen
            /\ run'[s].days = run[s].days /\ run'[s].table = run[s].table
            /\ run'[s].starts = run[s].starts /\ run'[s].cohorts = run[s].cohorts
            /\ run'[s].alone = FALSE
  BY StartsRun
<1>2. Fit(run[r])'
  BY <1>1 DEF Fit, Base, RollupTypeOK
<1>3. \A s \in Runs : s # r => Fit(run[s])'
  BY <1>1 DEF Fit, Base, RollupTypeOK
<1>4. ByItself'
  BY <1>1 DEF ByItself, Active
<1>5. Calm'
  BY DEF Calm
<1>6. Quietly
  BY <1>1 DEF Quietly, Past, Same
<1> QED BY <1>1, <1>2, <1>3, <1>4, <1>5, <1>6

(* One run moves, or ends.                                                  *)
LEMMA OneMoves ==
    ASSUME Base, NEW r \in Runs, run' \in [Runs -> Memory], Others(r), now' = now,
           run[r].step # "idle", run'[r].step # "idle" => run'[r].alone = run[r].alone,
           Fit(run'[r]),
           calm' = TRUE => calm = TRUE \/ (run'[r].step = "idle" /\ run[r].alone = TRUE)
    PROVE  (\A s \in Runs : Fit(run[s])') /\ ByItself' /\ Calm'
<1>1. \A s \in Runs : Fit(run[s])'
  BY DEF Fit, Base, RollupTypeOK, Others
<1>2. ByItself'
  BY DEF Base, ByItself, Others
<1>3. Calm'
  BY DEF Base, ByItself, Calm, Others
<1> QED BY <1>1, <1>2, <1>3

LEMMA RecordKeeps ==
    ASSUME Base, NEW e \in Facts, NEW t \in Nat, t # 0, t <= now, Record(e, t)
    PROVE  /\ Base' /\ Quietly
           /\ at[e] = 0 /\ at'[e] = t /\ \A f \in Facts : f # e => at'[f] = at[f]
           /\ UNCHANGED <<now, gone, raised, cleared, rows, cut, known>>
           /\ calm' = TRUE => calm = TRUE
<1>1. /\ at[e] = 0 /\ at' = [at EXCEPT ![e] = t]
      /\ UNCHANGED <<now, gone, raised, cleared, rows, cut, known>>
  BY DEF Record
<1>2. UNCHANGED <<now, rolled, cursor, hourly, snapshot, opsCursor, raised, cleared>>
  BY <1>1 DEF rows
<1>3. at' \in [Facts -> Nat] /\ at'[e] = t /\ \A f \in Facts : f # e => at'[f] = at[f]
  BY <1>1 DEF Base, RollupTypeOK
<1>4. \A f \in Facts : at'[f] <= now'
  BY <1>2, <1>3 DEF Base, RollupTypeOK
<1>5. /\ run' \in [Runs -> Memory] /\ (\A s \in Runs : Fit(run[s])') /\ ByItself' /\ Calm'
      /\ Quietly /\ calm' \in BOOLEAN /\ (calm' = TRUE => calm = TRUE)
  <2>1. CASE UNCHANGED <<run, calm>>
    BY <1>2, <2>1 DEF Base, RollupTypeOK, Fit, ByItself, Calm, Quietly, Same
  <2>2. CASE \E s \in Runs : run' = Started(s, FALSE, "load") /\ calm' = FALSE
    BY <1>2, <2>2, StartKeeps
  <2> QED BY <2>1, <2>2 DEF Record, Runs
<1>6. RollupTypeOK'
  BY <1>2, <1>3, <1>4, <1>5 DEF Base, RollupTypeOK
<1> QED BY <1>1, <1>3, <1>5, <1>6 DEF Base

LEMMA RowsInPlace ==
    ASSUME Base, NEW t \in Daily, NEW d \in Nat, NEW found \in SUBSET Facts
    PROVE  /\ [rolled EXCEPT ![t][d] = found] \in [Daily -> [1..Day(LastTick) -> SUBSET Facts]]
           /\ \A u \in Daily : \A c \in 1..Day(LastTick) :
                 [rolled EXCEPT ![t][d] = found][u][c] =
                     IF u = t /\ c = d THEN found ELSE rolled[u][c]
  BY DEF Base, RollupTypeOK

LEMMA BaseRunStep ==
    ASSUME Base, NEW r \in Runs, RunNext(r)
    PROVE  Base'
<1>1. CASE StartRun(r)
  <2>1. UNCHANGED <<now, source, rows, cut, known>> /\ calm' = FALSE
    BY <1>1 DEF StartRun
  <2>2. \E full \in BOOLEAN, step \in {"backfill", "load"} : run' = Started(r, full, step)
    BY <1>1 DEF StartRun
  <2>3. run' \in [Runs -> Memory] /\ (\A s \in Runs : Fit(run[s])') /\ ByItself' /\ Calm'
    BY <2>1, <2>2, StartKeeps
  <2> QED BY <2>1, <2>3 DEF Base, RollupTypeOK, source, rows
<1>2. CASE LoadEvents(r)
  <2>1. UNCHANGED <<now, source, rows, marks, spent>>
    BY <1>2 DEF LoadEvents, Loaded, OnlyRun
  <2>2. /\ run[r].step = "load" /\ Others(r) /\ run' \in [Runs -> Memory]
        /\ run'[r].alone = run[r].alone /\ run'[r].old <= now /\ run'[r].table = 1
        /\ run'[r].step \in {"rows", "ops"} /\ run'[r].seen \subseteq Facts
    BY <1>2, LoadsEvents DEF Ledger
  <2>3. Fit(run'[r])
    BY <2>2, RollupAssumption DEF Fit
  <2>4. (\A s \in Runs : Fit(run[s])') /\ ByItself' /\ Calm'
    BY <2>1, <2>2, <2>3, OneMoves DEF marks
  <2> QED BY <2>1, <2>2, <2>4 DEF Base, RollupTypeOK, source, rows, marks
<1>3. CASE ReplaceRows(r)
  <2>1. UNCHANGED <<now, source, cursor, hourly, opsCursor, calm>>
    BY <1>3 DEF ReplaceRows
  <2>2. /\ run[r].step = "rows" /\ Others(r) /\ run' \in [Runs -> Memory]
        /\ Min(run[r].days) \in run[r].days
        /\ run[r].table \in 1..Len(Tables) /\ run[r].seen \subseteq Facts
        /\ run'[r].alone = run[r].alone /\ run'[r].old = run[r].old /\ run'[r].step = "rows"
        /\ run'[r].seen = run[r].seen
        /\ run'[r].table = 1 \/ (run[r].table # Len(Tables) /\ run'[r].table = run[r].table + 1)
    BY <1>3, ReplacesRows
  <2>3. run'[r].table \in 1..Len(Tables)
    BY <2>2, RollupAssumption
  <2>4. Fit(run'[r])
    BY <2>2, <2>3 DEF Fit, Base, RollupTypeOK
  <2>5. (\A s \in Runs : Fit(run[s])') /\ ByItself' /\ Calm'
    BY <2>1, <2>2, <2>4, OneMoves
  <2>6. rolled' \in [Daily -> [1..Day(LastTick) -> SUBSET Facts]]
    <3>1. PICK t : t = Tables[run[r].table]
      OBVIOUS
    <3>2. PICK d \in Nat : d = Min(run[r].days)
      BY <2>2 DEF Base, RollupTypeOK, Memory
    <3>3. PICK found \in SUBSET Facts : found = {e \in run[r].seen : Day(at[e]) = d}
      BY <2>2
    <3>4. t \in Daily
      BY <2>2, <3>1 DEF Daily, DailyRows
    <3>5. rolled' = [rolled EXCEPT ![t][d] = found]
      BY <1>3, <3>1, <3>2, <3>3 DEF ReplaceRows
    <3> QED BY <3>4, <3>5, RowsInPlace
  <2> QED BY <2>1, <2>2, <2>5, <2>6 DEF Base, RollupTypeOK, source
<1>4. CASE ReplaceCohort(r)
  <2>1. UNCHANGED <<now, source, cursor, hourly, opsCursor, marks>>
    BY <1>4 DEF ReplaceCohort
  <2>2. /\ run[r].step = "rows" /\ Others(r) /\ run' \in [Runs -> Memory]
        /\ Min(run[r].cohorts) \in run[r].cohorts /\ run[r].starts \subseteq Facts
        /\ run'[r].alone = run[r].alone /\ run'[r].old = run[r].old /\ run'[r].step = "rows"
        /\ run'[r].seen = run[r].seen /\ run'[r].table = run[r].table
    BY <1>4, ReplacesCohort
  <2>3. Fit(run'[r])
    BY <2>2 DEF Fit, Base, RollupTypeOK
  <2>4. (\A s \in Runs : Fit(run[s])') /\ ByItself' /\ Calm'
    BY <2>1, <2>2, <2>3, OneMoves DEF marks
  <2>5. rolled' \in [Daily -> [1..Day(LastTick) -> SUBSET Facts]]
    <3>1. PICK d \in Nat : d = Min(run[r].cohorts)
      BY <2>2 DEF Base, RollupTypeOK, Memory
    <3>2. PICK found \in SUBSET Facts : found = {e \in run[r].starts : Day(at[e]) = d}
      BY <2>2
    <3>3. rolled' = [rolled EXCEPT !["cohorts"][d] = found]
      BY <1>4, <3>1, <3>2 DEF ReplaceCohort
    <3> QED BY <3>3, RowsInPlace DEF Daily
  <2> QED BY <2>1, <2>2, <2>4, <2>5 DEF Base, RollupTypeOK, source, marks
<1>5. CASE SaveCursor(r)
  <2>1. UNCHANGED <<now, source, rolled, hourly, opsCursor, marks>>
    BY <1>5 DEF SaveCursor
  <2>2. /\ run[r].step = "rows" /\ Others(r) /\ run' \in [Runs -> Memory]
        /\ run'[r].alone = run[r].alone /\ run'[r].old = run[r].old /\ run'[r].step = "prune"
        /\ cursor' \in 0..now
    BY <1>5, SavesCursor
  <2>3. Fit(run'[r])
    BY <2>2 DEF Fit, Base, RollupTypeOK
  <2>4. (\A s \in Runs : Fit(run[s])') /\ ByItself' /\ Calm'
    BY <2>1, <2>2, <2>3, OneMoves DEF marks
  <2> QED BY <2>1, <2>2, <2>4 DEF Base, RollupTypeOK, source, marks
<1>6. CASE PruneEvents(r)
  <2>1. UNCHANGED <<now, at, raised, cleared, rows, marks>>
    BY <1>6 DEF PruneEvents
  <2>2. run[r].step = "prune" /\ run' = [run EXCEPT ![r].step = "ops", ![r].old = 0]
    BY <1>6 DEF PruneEvents
  <2>3. /\ Others(r) /\ run' \in [Runs -> Memory]
        /\ run'[r].alone = run[r].alone /\ run'[r].old = 0 /\ run'[r].step = "ops"
    BY <2>2, MovesOn
  <2>4. Fit(run'[r])
    BY <2>3 DEF Fit, Base, RollupTypeOK
  <2>5. (\A s \in Runs : Fit(run[s])') /\ ByItself' /\ Calm'
    BY <2>1, <2>2, <2>3, <2>4, OneMoves DEF marks
  <2> QED BY <2>1, <2>3, <2>5 DEF Base, RollupTypeOK, rows, marks
<1>7. CASE LoadAlarms(r)
  <2>1. UNCHANGED <<now, source, rows, marks, spent>>
    BY <1>7 DEF LoadAlarms, OnlyRun
  <2>2. /\ run[r].step = "ops" /\ Others(r) /\ run' \in [Runs -> Memory]
        /\ run'[r].alone = run[r].alone /\ run'[r].old = now /\ run'[r].step = "hours"
        /\ run'[r].seen \in Reading
    BY <1>7, LoadsAlarms
  <2>3. Fit(run'[r])
    BY <2>2 DEF Fit, Base, RollupTypeOK
  <2>4. (\A s \in Runs : Fit(run[s])') /\ ByItself' /\ Calm'
    BY <2>1, <2>2, <2>3, OneMoves DEF marks
  <2> QED BY <2>1, <2>2, <2>4 DEF Base, RollupTypeOK, source, rows, marks
<1>8. CASE ReplaceHour(r)
  <2>1. UNCHANGED <<now, source, rolled, cursor, opsCursor, calm>>
    BY <1>8 DEF ReplaceHour
  <2>2. /\ run[r].step = "hours" /\ Others(r) /\ run' \in [Runs -> Memory]
        /\ run'[r].alone = run[r].alone /\ run'[r].old = run[r].old /\ run'[r].step = "hours"
        /\ run[r].seen \in Reading /\ run'[r].seen = run[r].seen
    BY <1>8, ReplacesHour
  <2>3. Fit(run'[r])
    BY <2>2 DEF Fit, Base, RollupTypeOK
  <2>4. (\A s \in Runs : Fit(run[s])') /\ ByItself' /\ Calm'
    BY <2>1, <2>2, <2>3, OneMoves
  <2>5. hourly' \in [1..Hour(LastTick) -> [created : SUBSET Alarms, resolved : SUBSET Alarms]]
    <3>1. PICK h : h = Min(run[r].days)
      OBVIOUS
    <3>2. run[r].seen.all \subseteq Alarms /\ run[r].seen.over \subseteq Alarms
      BY <2>2 DEF Reading
    <3>3. PICK new \in SUBSET Alarms : new = {a \in run[r].seen.all : Hour(raised[a]) = h}
      BY <3>2
    <3>4. PICK over \in SUBSET Alarms : over = {a \in run[r].seen.over : Hour(cleared[a]) = h}
      BY <3>2
    <3>5. hourly' = [hourly EXCEPT ![h] = [created |-> new, resolved |-> over]]
      BY <1>8, <3>1, <3>3, <3>4 DEF ReplaceHour
    <3> QED BY <3>5 DEF Base, RollupTypeOK
  <2> QED BY <2>1, <2>2, <2>4, <2>5 DEF Base, RollupTypeOK, source
<1>9. CASE FinishRun(r)
  <2>1. /\ UNCHANGED <<now, source, rolled, cursor, hourly>> /\ opsCursor' = run[r].old
        /\ calm' = run[r].alone /\ run' = [run EXCEPT ![r] = NoRun] /\ run[r].step = "hours"
    BY <1>9 DEF FinishRun
  <2>2. /\ Others(r) /\ run' \in [Runs -> Memory] /\ run'[r].step = "idle" /\ run'[r].old = 0
    BY <2>1, GoesIdle
  <2>3. Fit(run'[r])
    BY <2>2 DEF Fit, Base, RollupTypeOK
  <2>4. (\A s \in Runs : Fit(run[s])') /\ ByItself' /\ Calm'
    BY <2>1, <2>2, <2>3, OneMoves
  <2>5. run[r].old \in 0..now /\ run[r].alone \in BOOLEAN
    BY DEF Base, RollupTypeOK, Memory, Fit
  <2> QED BY <2>1, <2>2, <2>4, <2>5 DEF Base, RollupTypeOK, source
<1>10. CASE RunDies(r)
  <2>1. /\ UNCHANGED <<now, source, rows, marks>>
        /\ run' = [run EXCEPT ![r] = NoRun] /\ run[r].step # "idle"
    BY <1>10 DEF RunDies
  <2>2. /\ Others(r) /\ run' \in [Runs -> Memory] /\ run'[r].step = "idle" /\ run'[r].old = 0
    BY <2>1, GoesIdle
  <2>3. Fit(run'[r])
    BY <2>2 DEF Fit, Base, RollupTypeOK
  <2>4. (\A s \in Runs : Fit(run[s])') /\ ByItself' /\ Calm'
    BY <2>1, <2>2, <2>3, OneMoves DEF marks
  <2> QED BY <2>1, <2>2, <2>4 DEF Base, RollupTypeOK, source, rows, marks
<1> QED BY <1>1, <1>2, <1>3, <1>4, <1>5, <1>6, <1>7, <1>8, <1>9, <1>10 DEF RunNext

LEMMA RaisesAlarm ==
    ASSUME Base, NEW a \in Alarms, RaiseAlarm(a)
    PROVE  /\ raised[a] = 0 /\ raised' \in [Alarms -> Nat] /\ raised'[a] # 0
           /\ raised'[a] <= now /\ raised'[a] + 1 >= now
           /\ \A b \in Alarms : b # a => raised'[b] = raised[b]
<1>1. PICK t \in {now, now - 1} \ {0} : raised' = [raised EXCEPT ![a] = t]
  BY DEF RaiseAlarm
<1>2. now \in Nat /\ now # 0 /\ raised \in [Alarms -> Nat]
  BY DEF Base, RollupTypeOK
<1>3. t \in Nat /\ t # 0 /\ t <= now /\ t + 1 >= now
  BY <1>1, <1>2
<1>4. raised[a] = 0
  BY DEF RaiseAlarm
<1> QED BY <1>1, <1>2, <1>3, <1>4

LEMMA Emits ==
    ASSUME Base, NEW e \in Facts, EmitEvent(e)
    PROVE  /\ \E t \in Nat : t # 0 /\ t <= now /\ t + 1 >= now /\ Record(e, t)
           /\ backfilled' = backfilled
<1>1. PICK t \in {now, now - 1} \ {0} : Record(e, t)
  BY DEF EmitEvent
<1>2. now \in Nat /\ now # 0
  BY DEF Base, RollupTypeOK
<1>3. t \in Nat /\ t # 0 /\ t <= now /\ t + 1 >= now
  BY <1>1, <1>2
<1> QED BY <1>1, <1>3 DEF EmitEvent

LEMMA Backfills ==
    ASSUME Base, NEW e \in Facts, BackfillEvent(e)
    PROVE  /\ \E t \in Nat : t # 0 /\ t <= now /\ Record(e, t)
           /\ backfilled' = backfilled \union {e}
<1>1. PICK t \in 1..now : Record(e, t)
  BY DEF BackfillEvent
<1>2. t \in Nat /\ t # 0 /\ t <= now
  BY <1>1 DEF Base, RollupTypeOK
<1> QED BY <1>1, <1>2 DEF BackfillEvent

LEMMA BaseStep ==
    ASSUME Base, [RollupNext]_rollupVars
    PROVE  Base'
<1>1. ASSUME NEW e \in Facts, EmitEvent(e) PROVE Base'
  BY <1>1, Emits, RecordKeeps
<1>2. ASSUME NEW e \in Facts, BackfillEvent(e) PROVE Base'
  BY <1>2, Backfills, RecordKeeps
<1>3. ASSUME NEW a \in Alarms, RaiseAlarm(a) PROVE Base'
  <2>1. UNCHANGED <<now, at, cleared, rows, run, marks>>
    BY <1>3 DEF RaiseAlarm
  <2>2. raised' \in [Alarms -> Nat] /\ \A b \in Alarms : raised'[b] <= now
    BY <1>3, RaisesAlarm DEF Base, RollupTypeOK
  <2> QED BY <2>1, <2>2 DEF Base, RollupTypeOK, Fit, ByItself, Calm, rows, marks
<1>4. ASSUME NEW a \in Alarms, ClearAlarm(a) PROVE Base'
  <2>1. UNCHANGED <<now, at, raised, rows, run, marks>> /\ cleared' = [cleared EXCEPT ![a] = now]
    BY <1>4 DEF ClearAlarm
  <2>2. cleared' \in [Alarms -> Nat] /\ \A b \in Alarms : cleared'[b] <= now
    BY <2>1 DEF Base, RollupTypeOK
  <2> QED BY <2>1, <2>2 DEF Base, RollupTypeOK, Fit, ByItself, Calm, rows, marks
<1>5. ASSUME NEW r \in Runs, RunNext(r) PROVE Base'
  BY <1>5, BaseRunStep
<1>6. CASE EndBackfill
  <2>1. /\ UNCHANGED <<now, source, rows, marks>> /\ run[Operator].step = "backfill"
        /\ run' = [run EXCEPT ![Operator].step = "load"] /\ Operator \in Runs
    BY <1>6 DEF EndBackfill, Runs
  <2>2. PICK old : old = run[Operator].old
    OBVIOUS
  <2>3. run' = [run EXCEPT ![Operator].step = "load", ![Operator].old = old]
    <3>1. PICK h \in Memory : h = run[Operator]
      BY <2>1 DEF Base, RollupTypeOK
    <3>2. [h EXCEPT !.step = "load"] = [h EXCEPT !.step = "load", !.old = old]
      BY <2>2, <3>1 DEF Memory
    <3> QED BY <2>1, <3>1, <3>2 DEF Base, RollupTypeOK
  <2>4. /\ Others(Operator) /\ run' \in [Runs -> Memory] /\ run'[Operator].table = run[Operator].table
        /\ run'[Operator].alone = run[Operator].alone /\ run'[Operator].old = old
        /\ run'[Operator].step = "load"
    BY <2>1, <2>2, <2>3, MovesOn
  <2>5. Fit(run'[Operator])
    BY <2>1, <2>2, <2>4 DEF Fit, Base, RollupTypeOK
  <2>6. (\A s \in Runs : Fit(run[s])') /\ ByItself' /\ Calm'
    BY <2>1, <2>4, <2>5, OneMoves DEF marks
  <2> QED BY <2>1, <2>4, <2>6 DEF Base, RollupTypeOK, source, rows, marks
<1>7. CASE TickOver
  <2>1. now' = now + 1 /\ now < LastTick /\ UNCHANGED <<at, raised, cleared, rows, run, marks>>
    BY <1>7 DEF TickOver
  <2>2. now' \in 1..LastTick /\ now <= now' /\ now \in Nat
    BY <2>1, RollupAssumption DEF Base, RollupTypeOK
  <2>3. \A s \in Runs : Fit(run[s])'
    BY <2>1, <2>2 DEF Base, RollupTypeOK, Fit, Memory
  <2>4. /\ \A e \in Facts : at[e] <= now'
        /\ \A a \in Alarms : raised[a] <= now' /\ cleared[a] <= now'
        /\ cursor \in 0..now' /\ opsCursor \in 0..now'
    BY <2>2 DEF Base, RollupTypeOK
  <2> QED BY <2>1, <2>2, <2>3, <2>4 DEF Base, RollupTypeOK, ByItself, Calm, rows, marks
<1>8. CASE UNCHANGED rollupVars
  BY <1>8 DEF Base, RollupTypeOK, Fit, ByItself, Calm, rollupVars, source, rows, marks
<1> QED BY <1>1, <1>2, <1>3, <1>4, <1>5, <1>6, <1>7, <1>8 DEF RollupNext

-----------------------------------------------------------------------------
(* The hourly rows.  An alarm is in the row of its hour, or cut, or too old *)
(* for a window, or the next window begins before it.  A run at work on the *)
(* hours has seen what lies in its window, but what came with the tick, and *)
(* still has the hours of what it has seen and not written to do.           *)
Booked(a) == a \in hourly[Hour(raised[a])].created \/ <<a, "hours">> \in cut
TooOld(a) == raised[a] + Lookback < now
Recent(t) == t + 1 >= now
ToBook(r, a) == a \in r.seen.all /\ Hour(raised[a]) \in r.days
Rewound == Earlier(opsCursor, RewindHours * HourLength)

HoursKept == \A a \in Alarms : raised[a] # 0 => Booked(a) \/ TooOld(a) \/ raised[a] >= Rewound
HoursRun(r) ==
    /\ \A a \in Alarms : raised[a] # 0 =>
          /\ raised[a] >= r.from => a \in r.seen.all \/ Recent(raised[a])
          /\ Booked(a) \/ TooOld(a) \/ Recent(raised[a]) \/ ToBook(r, a)
    /\ \A a \in r.seen.over : cleared[a] # 0
HoursKnown(r) ==
    \A a \in r.known \intersect Alarms :
       /\ raised[a] # 0 /\ ~TooOld(a)
       /\ r.step = "hours" => /\ raised[a] >= r.from => a \in r.seen.all
                              /\ Booked(a) \/ ToBook(r, a)
HoursCalm == calm = TRUE => \A a \in known \intersect Alarms : raised[a] # 0 /\ Booked(a)
Resolved == \A h \in 1..Hour(LastTick) : \A a \in hourly[h].resolved :
                a \in Alarms /\ cleared[a] # 0 /\ Hour(cleared[a]) = h
HourInv ==
    /\ HoursKept /\ HoursCalm /\ Resolved
    /\ \A r \in Runs : run[r].step = "hours" => HoursRun(run[r])
    /\ \A r \in Runs : run[r].alone = TRUE /\ run[r].step \in Past => HoursKnown(run[r])

LEMMA AheadOfRewind ==
    ASSUME RollupTypeOK, NEW t \in Nat, Recent(t), NEW c \in 0..now
    PROVE  t >= Earlier(c, RewindHours * HourLength)
<1>1. RewindHours \in Nat \ {0} /\ HourLength \in Nat \ {0}
  BY RollupAssumption
<1>2. PICK n \in Nat \ {0} : n = RewindHours * HourLength
  BY <1>1
<1>3. now \in Nat /\ t + 1 >= now /\ c \in Nat /\ c <= now
  BY DEF RollupTypeOK, Recent
<1> QED BY <1>2, <1>3 DEF Earlier

LEMMA HourFrame ==
    ASSUME Base, Base', HourInv, UNCHANGED <<now, hourly, opsCursor>>,
           \A a \in Alarms : /\ raised[a] # 0 => raised'[a] = raised[a]
                             /\ raised[a] = 0 /\ raised'[a] # 0 => Recent(raised'[a])
                             /\ cleared[a] # 0 => cleared'[a] = cleared[a]
                             /\ <<a, "hours">> \in cut => <<a, "hours">> \in cut',
           \A s \in Runs : run'[s].step = "hours" => Same(s),
           \A s \in Runs : run'[s].alone = TRUE /\ run'[s].step \in Past /\ run'[s].step # "hours" =>
               \/ run[s].alone = TRUE /\ run[s].step \in Past /\ run'[s].known = run[s].known
               \/ \A a \in run'[s].known \intersect Alarms : raised[a] # 0 /\ ~TooOld(a),
           calm' = TRUE => calm = TRUE /\ known' = known
    PROVE  HourInv'
<1>1. \A a \in Alarms : raised[a] # 0 => (Booked(a) => Booked(a)') /\ (TooOld(a)' <=> TooOld(a))
  BY DEF Booked, TooOld
<1>2. \A a \in Alarms : raised[a] \in Nat /\ raised'[a] \in Nat /\ opsCursor \in 0..now
  BY DEF Base, RollupTypeOK
<1>3. \A t \in Nat : Recent(t)' <=> Recent(t)
  BY DEF Recent
<1>4. HoursKept'
  <2> SUFFICES ASSUME NEW a \in Alarms, raised'[a] # 0
               PROVE  Booked(a)' \/ TooOld(a)' \/ raised'[a] >= Rewound'
    BY DEF HoursKept
  <2>1. Rewound' = Rewound
    BY DEF Rewound
  <2>2. CASE raised[a] # 0
    BY <1>1, <2>1, <2>2 DEF HourInv, HoursKept
  <2>3. CASE raised[a] = 0
    BY <1>2, <2>1, <2>3, AheadOfRewind DEF Rewound, Base
  <2> QED BY <2>2, <2>3
<1>5. HoursCalm'
  BY <1>1 DEF HourInv, HoursCalm
<1>6. Resolved'
  BY DEF HourInv, Resolved
<1>7. ASSUME NEW s \in Runs, run'[s].step = "hours" PROVE HoursRun(run[s])'
  <2>1. Same(s)
    BY <1>7
  <2>2. HoursRun(run[s]) /\ run[s].seen \in Reading
    BY <1>7, <2>1 DEF HourInv, Same, Base, RollupTypeOK, Fit
  <2>3. ASSUME NEW a \in Alarms, raised'[a] # 0
        PROVE  /\ raised'[a] >= run'[s].from => a \in run'[s].seen.all \/ Recent(raised[a])'
               /\ Booked(a)' \/ TooOld(a)' \/ Recent(raised[a])' \/ ToBook(run[s], a)'
    <3>1. CASE raised[a] = 0
      BY <1>2, <1>3, <2>3, <3>1 DEF Recent
    <3>2. CASE raised[a] # 0
      <4>1. /\ raised[a] >= run[s].from => a \in run[s].seen.all \/ Recent(raised[a])
            /\ Booked(a) \/ TooOld(a) \/ Recent(raised[a]) \/ ToBook(run[s], a)
        BY <2>2, <3>2 DEF HoursRun
      <4>2. raised'[a] = raised[a]
        BY <3>2
      <4>3. Recent(raised[a])' <=> Recent(raised[a])
        BY <4>2 DEF Recent
      <4>4. ToBook(run[s], a)' <=> ToBook(run[s], a)
        BY <2>1, <4>2 DEF ToBook, Same
      <4> QED BY <1>1, <2>1, <3>2, <4>1, <4>2, <4>3, <4>4 DEF Same
    <3> QED BY <3>1, <3>2
  <2>4. \A a \in run'[s].seen.over : cleared'[a] # 0
    BY <2>1, <2>2 DEF HoursRun, Same, Reading
  <2> QED BY <2>3, <2>4 DEF HoursRun
<1>8. ASSUME NEW s \in Runs, run'[s].alone = TRUE, run'[s].step \in Past PROVE HoursKnown(run[s])'
  <2> SUFFICES ASSUME NEW a \in run'[s].known \intersect Alarms
               PROVE  /\ raised'[a] # 0 /\ ~TooOld(a)'
                      /\ run'[s].step = "hours" => /\ raised'[a] >= run'[s].from => a \in run'[s].seen.all
                                                   /\ Booked(a)' \/ ToBook(run[s], a)'
    BY DEF HoursKnown
  <2>1. CASE run'[s].step = "hours"
    <3>1. Same(s)
      BY <2>1
    <3>2. HoursKnown(run[s]) /\ a \in run[s].known \intersect Alarms /\ run[s].step = "hours"
      BY <1>8, <2>1, <3>1 DEF Same, HourInv
    <3>3. /\ raised[a] # 0 /\ ~TooOld(a)
          /\ raised[a] >= run[s].from => a \in run[s].seen.all
          /\ Booked(a) \/ ToBook(run[s], a)
      BY <3>2 DEF HoursKnown
    <3>4. raised'[a] = raised[a] /\ (ToBook(run[s], a)' <=> ToBook(run[s], a))
      BY <3>1, <3>3 DEF ToBook, Same
    <3> QED BY <1>1, <3>1, <3>3, <3>4 DEF Same
  <2>2. CASE run'[s].step # "hours"
    <3>1. raised[a] # 0 /\ ~TooOld(a)
      BY <1>8, <2>2 DEF HourInv, HoursKnown
    <3> QED BY <1>1, <2>2, <3>1
  <2> QED BY <2>1, <2>2
<1> QED BY <1>4, <1>5, <1>6, <1>7, <1>8 DEF HourInv

LEMMA HoursLoaded ==
    ASSUME Base, Base', HourInv, NEW r \in Runs, LoadAlarms(r)
    PROVE  HourInv'
<1>1. UNCHANGED <<now, source, rows, marks, spent>>
  BY DEF LoadAlarms, OnlyRun
<1>2. UNCHANGED <<now, raised, cleared, hourly, opsCursor, cut, calm, known>>
  BY <1>1 DEF source, rows, marks
<1>3. PICK from \in Nat :
         /\ from = OpsFrom(r)
         /\ run[r].step = "ops" /\ run' \in [Runs -> Memory] /\ Others(r)
         /\ run'[r].step = "hours" /\ run'[r].from = from /\ run'[r].old = now
         /\ run'[r].seen \in Reading
         /\ \A a \in Alarms : raised[a] # 0 /\ raised[a] >= from =>
               a \in run'[r].seen.all /\ Hour(raised[a]) \in run'[r].days
         /\ \A a \in run'[r].seen.over : cleared[a] # 0
         /\ run'[r].alone = run[r].alone /\ run'[r].known = run[r].known
  <2>1. run'[r].from \in Nat
    BY DEF Base, RollupTypeOK, Memory
  <2> QED BY <2>1, LoadsAlarms
(* Before the window lie the too old and those the last run has booked.     *)
<1>4. ASSUME NEW a \in Alarms, raised[a] # 0, ~(raised[a] >= from) PROVE Booked(a) \/ TooOld(a)
  <2>1. /\ raised[a] \in Nat /\ now \in Nat /\ Lookback \in Nat /\ opsCursor \in Nat
        /\ RewindHours * HourLength \in Nat
    BY RollupAssumption DEF Base, RollupTypeOK
  <2>2. PICK oldest \in Nat : oldest = Earlier(now, Lookback)
    BY <2>1 DEF Earlier
  <2>3. PICK rewound \in Nat : rewound = Rewound
    BY <2>1 DEF Earlier, Rewound
  <2>4. raised[a] < oldest => TooOld(a)
    BY <2>1, <2>2 DEF Earlier, TooOld
  <2>5. from = oldest \/ from = rewound
    BY <1>3, <2>2, <2>3 DEF OpsFrom, Later, Rewound
  <2>6. raised[a] < oldest \/ ~(raised[a] >= rewound)
    BY <1>4, <2>1, <2>5
  <2> QED BY <1>4, <2>3, <2>4, <2>6 DEF HourInv, HoursKept
<1>5. HoursRun(run[r])'
  <2>1. ASSUME NEW a \in Alarms, raised[a] # 0
        PROVE  /\ raised[a] >= from => a \in run'[r].seen.all
               /\ Booked(a) \/ TooOld(a) \/ (a \in run'[r].seen.all /\ Hour(raised[a]) \in run'[r].days)
    BY <1>3, <1>4, <2>1
  <2> QED BY <1>2, <1>3, <2>1 DEF HoursRun, Booked, TooOld, ToBook, Reading
<1>6. ASSUME run[r].alone = TRUE PROVE HoursKnown(run[r])'
  <2>1. HoursKnown(run[r])
    BY <1>3, <1>6 DEF HourInv, Past
  <2>2. ASSUME NEW a \in run[r].known \intersect Alarms
        PROVE  /\ raised[a] # 0 /\ ~TooOld(a)
               /\ raised[a] >= from => a \in run'[r].seen.all
               /\ Booked(a) \/ (a \in run'[r].seen.all /\ Hour(raised[a]) \in run'[r].days)
    <3>1. raised[a] # 0 /\ ~TooOld(a)
      BY <2>1 DEF HoursKnown
    <3> QED BY <1>3, <1>4, <3>1
  <2> QED BY <1>2, <1>3, <2>2 DEF HoursKnown, Booked, TooOld, ToBook
<1>7. HoursKept' /\ HoursCalm' /\ Resolved'
  BY <1>2 DEF HourInv, HoursKept, HoursCalm, Resolved, Booked, TooOld, Rewound
<1>8. ASSUME NEW s \in Runs, s # r, run'[s].step = "hours" PROVE HoursRun(run[s])'
  BY <1>2, <1>3, <1>8 DEF HourInv, HoursRun, Others, Booked, TooOld, ToBook, Recent
<1>9. ASSUME NEW s \in Runs, s # r, run'[s].alone = TRUE, run'[s].step \in Past PROVE HoursKnown(run[s])'
  BY <1>2, <1>3, <1>9 DEF HourInv, HoursKnown, Others, Booked, TooOld, ToBook
<1> QED BY <1>3, <1>5, <1>6, <1>7, <1>8, <1>9 DEF HourInv

LEMMA HourReplaced ==
    ASSUME Base, Base', HourInv, NEW r \in Runs, ReplaceHour(r)
    PROVE  HourInv'
<1>1. UNCHANGED <<now, raised, cleared, opsCursor, calm, known>>
  BY DEF ReplaceHour, source
<1>2. /\ run[r].step = "hours" /\ Min(run[r].days) \in run[r].days /\ run[r].seen \in Reading
      /\ run' \in [Runs -> Memory] /\ Others(r)
      /\ run'[r].step = "hours" /\ run'[r].from = run[r].from /\ run'[r].seen = run[r].seen
      /\ run'[r].days = run[r].days \ {Min(run[r].days)}
      /\ run'[r].alone = run[r].alone /\ run'[r].known = run[r].known
  BY ReplacesHour
<1>3. PICK h : h = Min(run[r].days)
  OBVIOUS
<1>4. run[r].seen.all \subseteq Alarms /\ run[r].seen.over \subseteq Alarms
  BY <1>2 DEF Reading
<1>5. PICK new \in SUBSET Alarms : new = {a \in run[r].seen.all : Hour(raised[a]) = h}
  BY <1>4
<1>6. PICK over \in SUBSET Alarms : over = {a \in run[r].seen.over : Hour(cleared[a]) = h}
  BY <1>4
<1>7. PICK behind \in SUBSET Alarms :
         behind = {a \in Alarms : raised[a] # 0 /\ Hour(raised[a]) = h /\ raised[a] < run[r].from}
  OBVIOUS
<1>8. /\ hourly' = [hourly EXCEPT ![h] = [created |-> new, resolved |-> over]]
      /\ cut' = (cut \ (new \X {"hours"})) \union ((behind \ new) \X {"hours"})
  BY <1>3, <1>5, <1>6, <1>7 DEF ReplaceHour
<1>9. hourly \in [1..Hour(LastTick) -> [created : SUBSET Alarms, resolved : SUBSET Alarms]]
  BY DEF Base, RollupTypeOK
<1>10. \A k \in 1..Hour(LastTick) :
          /\ hourly'[k].created = IF k = h THEN new ELSE hourly[k].created
          /\ hourly'[k].resolved = IF k = h THEN over ELSE hourly[k].resolved
  BY <1>8, <1>9
<1>11. \A a \in Alarms : raised[a] # 0 => /\ Hour(raised[a]) \in 1..Hour(LastTick)
                                          /\ raised[a] \in Nat /\ raised[a] <= now
  BY HourFits DEF Base, RollupTypeOK
<1>12. ASSUME NEW a \in Alarms, raised[a] # 0, Hour(raised[a]) # h, Booked(a) PROVE Booked(a)'
  <2>1. a \in hourly[Hour(raised[a])].created => a \in hourly'[Hour(raised[a])].created
    BY <1>10, <1>11, <1>12
  <2>2. <<a, "hours">> \in cut => <<a, "hours">> \in cut'
    BY <1>5, <1>8, <1>12
  <2> QED BY <1>1, <1>12, <2>1, <2>2 DEF Booked
<1>13. ASSUME NEW a \in Alarms, raised[a] # 0, Hour(raised[a]) = h,
              a \in run[r].seen.all \/ raised[a] < run[r].from
       PROVE  Booked(a)'
  <2>1. CASE a \in run[r].seen.all
    <3>1. a \in hourly'[Hour(raised[a])].created
      BY <1>5, <1>10, <1>11, <1>13, <2>1
    <3> QED BY <1>1, <3>1 DEF Booked
  <2>2. CASE raised[a] < run[r].from /\ a \notin run[r].seen.all
    <3>1. a \in behind \ new
      BY <1>5, <1>7, <1>13, <2>2
    <3>2. <<a, "hours">> \in cut'
      BY <1>8, <3>1
    <3> QED BY <3>2 DEF Booked
  <2> QED BY <1>13, <2>1, <2>2
<1>14. HoursRun(run[r]) /\ run[r].from \in Nat
  BY <1>2 DEF HourInv, Base, RollupTypeOK, Memory
(* The row keeps what it had, but what came with the tick.                  *)
<1>15. ASSUME NEW a \in Alarms, raised[a] # 0, Booked(a) PROVE Booked(a)' \/ Recent(raised[a])
  BY <1>11, <1>12, <1>13, <1>14, <1>15 DEF HoursRun
<1>16. HoursKept'
  <2> SUFFICES ASSUME NEW a \in Alarms, raised[a] # 0
               PROVE  Booked(a)' \/ TooOld(a) \/ raised[a] >= Rewound
    BY <1>1 DEF HoursKept, TooOld, Rewound
  <2>1. Recent(raised[a]) => raised[a] >= Rewound
    BY <1>11, AheadOfRewind DEF Rewound, Base, RollupTypeOK
  <2> QED BY <1>15, <2>1 DEF HourInv, HoursKept
<1>17. HoursCalm'
  BY <1>1, <1>2 DEF HoursCalm, Base, Calm
<1>18. Resolved'
  <2> SUFFICES ASSUME NEW k \in 1..Hour(LastTick), NEW a \in hourly'[k].resolved
               PROVE  a \in Alarms /\ cleared[a] # 0 /\ Hour(cleared[a]) = k
    BY <1>1 DEF Resolved
  <2>1. CASE k = h
    BY <1>6, <1>10, <1>14, <2>1 DEF HoursRun
  <2>2. CASE k # h
    BY <1>10, <2>2 DEF HourInv, Resolved
  <2> QED BY <2>1, <2>2
<1>19. ASSUME NEW s \in Runs, run'[s].step = "hours" PROVE HoursRun(run[s])'
  <2>1. /\ run[s].step = "hours" /\ run'[s].from = run[s].from /\ run'[s].seen = run[s].seen
        /\ run'[s].days = run[s].days \/ s = r
    BY <1>2, <1>19 DEF Others
  <2>2. HoursRun(run[s])
    BY <2>1 DEF HourInv
  <2>3. ASSUME NEW a \in Alarms, raised[a] # 0
        PROVE  /\ raised[a] >= run[s].from => a \in run[s].seen.all \/ Recent(raised[a])
               /\ Booked(a)' \/ TooOld(a) \/ Recent(raised[a])
                     \/ (a \in run[s].seen.all /\ Hour(raised[a]) \in run'[s].days)
    <3>1. /\ raised[a] >= run[s].from => a \in run[s].seen.all \/ Recent(raised[a])
          /\ Booked(a) \/ TooOld(a) \/ Recent(raised[a]) \/ ToBook(run[s], a)
      BY <2>2, <2>3 DEF HoursRun
    <3>2. CASE ToBook(run[s], a) /\ run'[s].days = run[s].days
      BY <3>1, <3>2 DEF ToBook
    <3>3. CASE ToBook(run[s], a) /\ s = r /\ Hour(raised[a]) # h
      BY <1>2, <1>3, <3>1, <3>3 DEF ToBook
    <3>4. CASE ToBook(run[s], a) /\ s = r /\ Hour(raised[a]) = h
      BY <1>13, <2>3, <3>1, <3>4 DEF ToBook
    <3> QED BY <1>15, <2>1, <2>3, <3>1, <3>2, <3>3, <3>4
  <2> QED BY <1>1, <2>1, <2>2, <2>3 DEF HoursRun, TooOld, Recent, ToBook
<1>20. ASSUME NEW s \in Runs, run'[s].alone = TRUE, run'[s].step \in Past PROVE HoursKnown(run[s])'
  <2>1. s = r
    BY <1>2, <1>20 DEF Base, ByItself, Others, Past
  <2>2. HoursKnown(run[r])
    BY <1>2, <1>20, <2>1 DEF HourInv, Past
  <2>3. ASSUME NEW a \in run[r].known \intersect Alarms
        PROVE  /\ raised[a] # 0 /\ ~TooOld(a)
               /\ raised[a] >= run[r].from => a \in run[r].seen.all
               /\ Booked(a)' \/ (a \in run[r].seen.all /\ Hour(raised[a]) \in run'[r].days)
    <3>1. /\ raised[a] # 0 /\ ~TooOld(a)
          /\ raised[a] >= run[r].from => a \in run[r].seen.all
          /\ Booked(a) \/ ToBook(run[r], a)
      BY <1>2, <2>2 DEF HoursKnown
    <3>2. CASE Hour(raised[a]) = h
      BY <1>11, <1>13, <1>14, <3>1, <3>2
    <3>3. CASE Hour(raised[a]) # h
      BY <1>2, <1>3, <1>12, <3>1, <3>3 DEF ToBook
    <3> QED BY <3>1, <3>2, <3>3
  <2> QED BY <1>1, <1>2, <2>1, <2>3 DEF HoursKnown, TooOld, ToBook
<1> QED BY <1>16, <1>17, <1>18, <1>19, <1>20 DEF HourInv

LEMMA HoursFinished ==
    ASSUME Base, Base', HourInv, NEW r \in Runs, FinishRun(r)
    PROVE  HourInv'
<1>1. /\ UNCHANGED <<now, raised, cleared, hourly, cut>> /\ run[r].step = "hours"
      /\ run[r].days = {} /\ opsCursor' = run[r].old /\ run' = [run EXCEPT ![r] = NoRun]
      /\ calm' = run[r].alone /\ known' = IF run[r].alone THEN run[r].known ELSE known
  BY DEF FinishRun, source
<1>2. Others(r) /\ run'[r].step = "idle"
  BY <1>1, GoesIdle
<1>3. /\ run[r].alone \in BOOLEAN /\ run[r].old \in 0..now
      /\ \A a \in Alarms : raised[a] \in Nat
  BY DEF Base, RollupTypeOK, Memory, Fit
<1>4. HoursRun(run[r])
  BY <1>1 DEF HourInv
<1>5. HoursKept'
  <2> SUFFICES ASSUME NEW a \in Alarms, raised[a] # 0
               PROVE  Booked(a) \/ TooOld(a) \/ raised[a] >= Rewound'
    BY <1>1 DEF HoursKept, Booked, TooOld
  <2>1. Booked(a) \/ TooOld(a) \/ Recent(raised[a])
    BY <1>1, <1>4 DEF HoursRun, ToBook
  <2>2. Rewound' = Earlier(run[r].old, RewindHours * HourLength)
    BY <1>1 DEF Rewound
  <2> QED BY <1>3, <2>1, <2>2, AheadOfRewind DEF Base
<1>6. HoursCalm'
  <2> SUFFICES ASSUME run[r].alone = TRUE, NEW a \in run[r].known \intersect Alarms
               PROVE  raised[a] # 0 /\ Booked(a)
    BY <1>1 DEF HoursCalm, Booked
  <2>1. HoursKnown(run[r])
    BY <1>1 DEF HourInv, Past
  <2> QED BY <1>1, <2>1 DEF HoursKnown, ToBook
<1>7. Resolved'
  BY <1>1 DEF HourInv, Resolved
<1>8. \A s \in Runs : run'[s].step # "idle" => s # r /\ run'[s] = run[s]
  BY <1>2 DEF Others
<1>9. ASSUME NEW s \in Runs, run'[s].step = "hours" PROVE HoursRun(run[s])'
  BY <1>1, <1>8, <1>9 DEF HourInv, HoursRun, Booked, TooOld, ToBook, Recent
<1>10. ASSUME NEW s \in Runs, run'[s].alone = TRUE, run'[s].step \in Past PROVE HoursKnown(run[s])'
  BY <1>1, <1>8, <1>10 DEF HourInv, HoursKnown, Booked, TooOld, ToBook, Past
<1> QED BY <1>5, <1>6, <1>7, <1>9, <1>10 DEF HourInv

LEMMA HoursTick ==
    ASSUME Base, Base', HourInv, TickOver
    PROVE  HourInv'
<1>1. /\ now' = now + 1 /\ UNCHANGED <<raised, cleared, hourly, opsCursor, run, cut, calm, known>>
      /\ Active = {}
  BY DEF TickOver, rows, marks
<1>2. now \in Nat /\ Lookback \in Nat /\ \A a \in Alarms : raised[a] \in Nat
  BY RollupAssumption DEF Base, RollupTypeOK
<1>3. \A a \in Alarms : TooOld(a) => TooOld(a)'
  BY <1>1, <1>2 DEF TooOld
<1>4. \A s \in Runs : run'[s].step = "idle"
  BY <1>1 DEF Active
<1>5. HoursKept' /\ HoursCalm' /\ Resolved'
  BY <1>1, <1>3 DEF HourInv, HoursKept, HoursCalm, Resolved, Booked, Rewound
<1> QED BY <1>4, <1>5 DEF HourInv, Past

LEMMA HoursRunStep ==
    ASSUME Base, Base', HourInv, NEW r \in Runs, RunNext(r)
    PROVE  HourInv'
<1>1. CASE StartRun(r)
  <2>1. UNCHANGED <<now, source, rows, cut, known>> /\ calm' = FALSE
    BY <1>1 DEF StartRun
  <2>2. \E full \in BOOLEAN, step \in {"backfill", "load"} : run' = Started(r, full, step)
    BY <1>1 DEF StartRun
  <2>3. Quietly
    BY <2>1, <2>2, StartKeeps
  <2> QED BY <2>1, <2>3, HourFrame DEF source, rows, Quietly, Same, Past
<1>2. CASE LoadEvents(r)
  <2>1. UNCHANGED <<now, source, rows, marks, spent>>
    BY <1>2 DEF LoadEvents, Loaded, OnlyRun
  <2>2. /\ Others(r) /\ run'[r].alone = run[r].alone /\ run'[r].step \in {"rows", "ops"}
        /\ run[r].alone = TRUE => run'[r].known = Ledger \union
              {a \in Alarms : raised[a] # 0 /\ raised[a] + Lookback >= now}
    BY <1>2, LoadsEvents
  <2>3. Ledger \intersect Alarms = {}
    BY RollupAssumption DEF Ledger
  <2>4. /\ now \in Nat /\ Lookback \in Nat /\ \A a \in Alarms : raised[a] \in Nat
    BY RollupAssumption DEF Base, RollupTypeOK
  <2>5. run'[r].alone = TRUE => \A a \in run'[r].known \intersect Alarms : raised[a] # 0 /\ ~TooOld(a)
    BY <2>2, <2>3, <2>4 DEF TooOld
  <2> QED BY <2>1, <2>2, <2>5, HourFrame DEF source, rows, marks, Others, Same
<1>3. CASE ReplaceRows(r)
  <2>1. UNCHANGED <<now, source, cursor, hourly, opsCursor, calm, known>>
    BY <1>3 DEF ReplaceRows
  <2>2. /\ run[r].step = "rows" /\ Others(r) /\ run[r].seen \subseteq Facts
        /\ run'[r].alone = run[r].alone /\ run'[r].known = run[r].known /\ run'[r].step = "rows"
    BY <1>3, ReplacesRows
  <2>3. \A a \in Alarms : <<a, "hours">> \in cut => <<a, "hours">> \in cut'
    <3>1. PICK t : t = Tables[run[r].table]
      OBVIOUS
    <3>2. PICK found \in SUBSET Facts : found = {e \in run[r].seen : Day(at[e]) = Min(run[r].days)}
      BY <2>2
    <3>3. PICK behind : behind = {e \in Facts : at[e] # 0 /\ Day(at[e]) = Min(run[r].days)
                                                /\ at[e] < run[r].from}
      OBVIOUS
    <3>4. cut' = (cut \ (found \X {t})) \union ((behind \ found) \X {t})
      BY <1>3, <3>1, <3>2, <3>3 DEF ReplaceRows
    <3> QED BY <3>2, <3>4, RollupAssumption
  <2> QED BY <2>1, <2>2, <2>3, HourFrame DEF source, Others, Same, Past
<1>4. CASE ReplaceCohort(r)
  <2>1. UNCHANGED <<now, source, cursor, hourly, opsCursor, marks>>
    BY <1>4 DEF ReplaceCohort
  <2>2. /\ run[r].step = "rows" /\ Others(r) /\ run'[r].alone = run[r].alone
        /\ run'[r].known = run[r].known /\ run'[r].step = "rows"
    BY <1>4, ReplacesCohort
  <2> QED BY <2>1, <2>2, HourFrame DEF source, marks, Others, Same, Past
<1>5. CASE SaveCursor(r)
  <2>1. UNCHANGED <<now, source, rolled, hourly, opsCursor, marks>>
    BY <1>5 DEF SaveCursor
  <2>2. /\ run[r].step = "rows" /\ Others(r) /\ run'[r].alone = run[r].alone
        /\ run'[r].known = run[r].known /\ run'[r].step = "prune"
    BY <1>5, SavesCursor
  <2> QED BY <2>1, <2>2, HourFrame DEF source, marks, Others, Same, Past
<1>6. CASE PruneEvents(r)
  <2>1. UNCHANGED <<now, at, raised, cleared, rows, marks>>
    BY <1>6 DEF PruneEvents
  <2>2. run[r].step = "prune" /\ run' = [run EXCEPT ![r].step = "ops", ![r].old = 0]
    BY <1>6 DEF PruneEvents
  <2>3. /\ Others(r) /\ run'[r].alone = run[r].alone /\ run'[r].known = run[r].known
        /\ run'[r].step = "ops"
    BY <2>2, MovesOn
  <2> QED BY <2>1, <2>2, <2>3, HourFrame DEF rows, marks, Others, Same, Past
<1>7. CASE LoadAlarms(r)
  BY <1>7, HoursLoaded
<1>8. CASE ReplaceHour(r)
  BY <1>8, HourReplaced
<1>9. CASE FinishRun(r)
  BY <1>9, HoursFinished
<1>10. CASE RunDies(r)
  <2>1. /\ UNCHANGED <<now, source, rows, marks>> /\ run' = [run EXCEPT ![r] = NoRun]
    BY <1>10 DEF RunDies
  <2>2. Others(r) /\ run'[r].step = "idle"
    BY <2>1, GoesIdle
  <2> QED BY <2>1, <2>2, HourFrame DEF source, rows, marks, Others, Same, Past
<1> QED BY <1>1, <1>2, <1>3, <1>4, <1>5, <1>6, <1>7, <1>8, <1>9, <1>10 DEF RunNext

LEMMA HourStep ==
    ASSUME Base, Base', HourInv, [RollupNext]_rollupVars
    PROVE  HourInv'
<1>1. ASSUME NEW e \in Facts, NEW t \in Nat, t # 0, t <= now, Record(e, t) PROVE HourInv'
  <2>1. Quietly /\ UNCHANGED <<now, raised, cleared, rows, cut, known>> /\ (calm' = TRUE => calm = TRUE)
    BY <1>1, RecordKeeps
  <2> QED BY <2>1, HourFrame DEF rows, Quietly, Same, Past
<1>2. ASSUME NEW e \in Facts, EmitEvent(e) PROVE HourInv'
  BY <1>1, <1>2, Emits
<1>3. ASSUME NEW e \in Facts, BackfillEvent(e) PROVE HourInv'
  BY <1>1, <1>3, Backfills
<1>4. ASSUME NEW a \in Alarms, RaiseAlarm(a) PROVE HourInv'
  <2>1. UNCHANGED <<now, at, cleared, rows, run, marks>>
    BY <1>4 DEF RaiseAlarm
  <2>2. /\ raised[a] = 0 /\ Recent(raised'[a])
        /\ \A b \in Alarms : b # a => raised'[b] = raised[b]
    BY <1>4, RaisesAlarm DEF Recent
  <2> QED BY <2>1, <2>2, HourFrame DEF rows, marks, Same
<1>5. ASSUME NEW a \in Alarms, ClearAlarm(a) PROVE HourInv'
  <2>1. UNCHANGED <<now, at, raised, rows, run, marks>> /\ cleared' = [cleared EXCEPT ![a] = now]
        /\ cleared[a] = 0
    BY <1>5 DEF ClearAlarm
  <2>2. \A b \in Alarms : cleared[b] # 0 => cleared'[b] = cleared[b]
    BY <2>1 DEF Base, RollupTypeOK
  <2> QED BY <2>1, <2>2, HourFrame DEF rows, marks, Same
<1>6. ASSUME NEW r \in Runs, RunNext(r) PROVE HourInv'
  BY <1>6, HoursRunStep
<1>7. CASE EndBackfill
  <2>1. /\ UNCHANGED <<now, source, rows, marks>>
        /\ run' = [run EXCEPT ![Operator].step = "load"] /\ Operator \in Runs
    BY <1>7 DEF EndBackfill, Runs
  <2>2. Others(Operator) /\ run'[Operator].step = "load"
    BY <2>1 DEF Others, Base, RollupTypeOK, Memory
  <2> QED BY <2>1, <2>2, HourFrame DEF source, rows, marks, Others, Same, Past
<1>8. CASE TickOver
  BY <1>8, HoursTick
<1>9. CASE UNCHANGED rollupVars
  BY <1>9, HourFrame DEF rollupVars, source, rows, marks, Same
<1> QED BY <1>2, <1>3, <1>4, <1>5, <1>6, <1>7, <1>8, <1>9 DEF RollupNext

LEMMA HoursStart == RollupInit => HourInv
<1> SUFFICES ASSUME RollupInit PROVE HourInv
  OBVIOUS
<1>1. /\ \A a \in Alarms : raised[a] = 0
      /\ \A r \in Runs : run[r].step = "idle"
      /\ calm = FALSE
      /\ \A h \in 1..Hour(LastTick) : hourly[h].resolved = {}
  BY IdleFits DEF RollupInit
<1> QED BY <1>1 DEF HourInv, HoursKept, HoursCalm, Resolved, Past

(* The rollups are well typed whatever dies or runs at once; a run that has *)
(* begun alone and still is has no other beside it.                         *)
THEOREM RollupsAreTyped == RollupSpec => []Base
<1> QED BY RollupStarts, BaseStep, PTL DEF RollupSpec

(* When the last run has gone through alone, the hourly rows count every    *)
(* alarm of the last thirty days, however earlier runs overlapped or died,  *)
(* but for those before the window in the hour it begins in.                *)
THEOREM AlarmsAreCounted == RollupSpec => []HoursAsRecorded
<1>1. Base /\ HourInv => HoursAsRecorded
  BY DEF HourInv, HoursCalm, Resolved, HoursAsRecorded, Booked, Base, RollupTypeOK
<1>2. RollupInit => Base /\ HourInv
  BY RollupStarts, HoursStart
<1>3. Base /\ HourInv /\ [RollupNext]_rollupVars => (Base /\ HourInv)'
  BY BaseStep, HourStep
<1> QED BY <1>1, <1>2, <1>3, PTL DEF RollupSpec

-----------------------------------------------------------------------------
(* The daily rows.  A fact is in the rows of its day, or cut, or the next   *)
(* window begins before it.  A run at work on the rows has read what lies   *)
(* in its window, but what came with the tick, and still has the days of    *)
(* what it has read and not written to do, table after table.               *)
Told == Ledger \ backfilled
Kept(e, t) == e \in rolled[t][Day(at[e])] \/ <<e, t>> \in cut
Listed(e) == e \in Starts => e \in rolled["cohorts"][Day(at[e])]
ToReplace(r, e, t) ==
    /\ e \in r.seen /\ Day(at[e]) \in r.days
    /\ Day(at[e]) = Min(r.days) => \E j \in r.table..Len(Tables) : t = Tables[j]
ToList(r, e) == e \in r.starts /\ Day(at[e]) \in r.cohorts
Window == Earlier(cursor, DayLength)

DaysKept == \A e \in Told : at[e] >= Window \/ (Listed(e) /\ \A t \in DailyRows : Kept(e, t))
DaysRun(r) == \A e \in Told :
    /\ at[e] >= r.from => e \in r.seen \/ Recent(at[e])
    /\ e \in Starts => e \in r.starts \/ Recent(at[e])
    /\ Listed(e) \/ Recent(at[e]) \/ ToList(r, e)
    /\ \A t \in DailyRows : Kept(e, t) \/ Recent(at[e]) \/ ToReplace(r, e, t)
DaysKnown(r) == \A e \in (r.known \intersect Facts) \ backfilled :
    /\ at[e] # 0
    /\ r.step = "rows" => /\ at[e] >= r.from => e \in r.seen
                          /\ e \in Starts => e \in r.starts
    /\ Listed(e) \/ (r.step = "rows" /\ ToList(r, e))
    /\ \A t \in DailyRows : Kept(e, t) \/ (r.step = "rows" /\ ToReplace(r, e, t))
DaysCalm == calm = TRUE => \A e \in (known \intersect Facts) \ backfilled :
    at[e] # 0 /\ Listed(e) /\ \A t \in DailyRows : Kept(e, t)
DayInv ==
    /\ DaysKept /\ DaysCalm
    /\ \A r \in Runs : run[r].step = "rows" => DaysRun(run[r])
    /\ \A r \in Runs : run[r].alone = TRUE /\ run[r].step \in Past => DaysKnown(run[r])

LEMMA AheadOfWindow ==
    ASSUME RollupTypeOK, NEW t \in Nat, Recent(t), NEW c \in 0..now
    PROVE  t >= Earlier(c, DayLength)
<1>1. DayLength \in Nat \ {0}
  BY RollupAssumption
<1>2. now \in Nat /\ t + 1 >= now /\ c \in Nat /\ c <= now
  BY DEF RollupTypeOK, Recent
<1> QED BY <1>1, <1>2 DEF Earlier

LEMMA ToldDays ==
    ASSUME Base
    PROVE  \A e \in Facts : at[e] # 0 => /\ at[e] \in Nat /\ at[e] <= now
                                         /\ Day(at[e]) \in 1..Day(LastTick) /\ Day(at[e]) \in Nat
  BY DayFits DEF Base, RollupTypeOK

LEMMA DayFrame ==
    ASSUME Base, Base', DayInv, UNCHANGED <<now, rolled, cursor>>,
           \A e \in Facts : /\ at[e] # 0 => at'[e] = at[e]
                            /\ at[e] = 0 /\ at'[e] # 0 => e \in backfilled' \/ Recent(at'[e])
                            /\ \A t \in DailyRows : <<e, t>> \in cut => <<e, t>> \in cut',
           gone \subseteq gone', backfilled \subseteq backfilled',
           \A s \in Runs : run'[s].step = "rows" => Same(s),
           \A s \in Runs : run'[s].alone = TRUE /\ run'[s].step \in Past /\ run'[s].step # "rows" =>
               /\ run[s].alone = TRUE /\ run[s].step \in Past /\ run[s].step # "rows"
               /\ run'[s].known = run[s].known,
           calm' = TRUE => calm = TRUE /\ known' = known
    PROVE  DayInv'
<1>1. \A e \in Facts : at[e] # 0 => /\ Listed(e) => Listed(e)'
                                    /\ \A t \in DailyRows : Kept(e, t) => Kept(e, t)'
  BY DEF Listed, Kept
<1>2. \A t \in Nat : Recent(t)' <=> Recent(t)
  BY DEF Recent
<1>3. \A e \in Facts : at[e] \in Nat /\ at'[e] \in Nat
  BY DEF Base, RollupTypeOK
<1>4. ASSUME NEW e \in Told' PROVE e \in Facts /\ at'[e] # 0 /\ (e \in Told \/ Recent(at'[e]))
  BY <1>4 DEF Told, Ledger
<1>5. \A e \in Told : e \in Facts /\ at[e] # 0 /\ at'[e] = at[e]
  BY DEF Told, Ledger
<1>6. Window' = Window
  BY DEF Window
<1>7. DaysKept'
  <2> SUFFICES ASSUME NEW e \in Told'
               PROVE  at'[e] >= Window' \/ (Listed(e)' /\ \A t \in DailyRows : Kept(e, t)')
    BY DEF DaysKept
  <2>1. CASE Recent(at'[e])
    <3>1. at'[e] >= Window
      BY <1>3, <1>4, <2>1, AheadOfWindow DEF Window, Base, RollupTypeOK
    <3> QED BY <1>6, <3>1
  <2>2. CASE e \in Told
    BY <1>1, <1>5, <1>6, <2>2 DEF DayInv, DaysKept
  <2> QED BY <1>4, <2>1, <2>2
<1>8. DaysCalm'
  BY <1>1 DEF DayInv, DaysCalm
<1>9. ASSUME NEW s \in Runs, run'[s].step = "rows" PROVE DaysRun(run[s])'
  <2>1. Same(s) /\ run[s].step = "rows" /\ DaysRun(run[s])
    BY <1>9 DEF Same, DayInv
  <2>2. ASSUME NEW e \in Told'
        PROVE  /\ at'[e] >= run'[s].from => e \in run'[s].seen \/ Recent(at[e])'
               /\ e \in Starts => e \in run'[s].starts \/ Recent(at[e])'
               /\ Listed(e)' \/ Recent(at[e])' \/ ToList(run[s], e)'
               /\ \A t \in DailyRows : Kept(e, t)' \/ Recent(at[e])' \/ ToReplace(run[s], e, t)'
    <3>1. CASE Recent(at'[e])
      BY <1>2, <1>3, <1>4, <2>2, <3>1 DEF Recent
    <3>2. CASE e \in Told
      <4>1. /\ at[e] >= run[s].from => e \in run[s].seen \/ Recent(at[e])
            /\ e \in Starts => e \in run[s].starts \/ Recent(at[e])
            /\ Listed(e) \/ Recent(at[e]) \/ ToList(run[s], e)
            /\ \A t \in DailyRows : Kept(e, t) \/ Recent(at[e]) \/ ToReplace(run[s], e, t)
        BY <2>1, <3>2 DEF DaysRun
      <4>2. at'[e] = at[e] /\ e \in Facts /\ at[e] # 0
        BY <1>5, <3>2
      <4>3. Recent(at[e])' <=> Recent(at[e])
        BY <4>2 DEF Recent
      <4>4. /\ ToList(run[s], e)' <=> ToList(run[s], e)
            /\ \A t \in DailyRows : ToReplace(run[s], e, t)' <=> ToReplace(run[s], e, t)
        BY <2>1, <4>2 DEF ToList, ToReplace, Same
      <4> QED BY <1>1, <2>1, <4>1, <4>2, <4>3, <4>4 DEF Same
    <3> QED BY <1>4, <2>2, <3>1, <3>2
  <2> QED BY <2>2 DEF DaysRun
<1>10. ASSUME NEW s \in Runs, run'[s].alone = TRUE, run'[s].step \in Past PROVE DaysKnown(run[s])'
  <2>1. /\ run[s].alone = TRUE /\ run[s].step \in Past /\ run'[s].known = run[s].known
        /\ (run'[s].step = "rows" => Same(s) /\ run[s].step = "rows")
        /\ (run[s].step = "rows" => run'[s].step = "rows")
    BY <1>10 DEF Same
  <2>2. DaysKnown(run[s])
    BY <2>1 DEF DayInv
  <2> SUFFICES ASSUME NEW e \in (run[s].known \intersect Facts) \ backfilled
               PROVE  /\ at'[e] # 0
                      /\ run'[s].step = "rows" => /\ at'[e] >= run'[s].from => e \in run'[s].seen
                                                  /\ e \in Starts => e \in run'[s].starts
                      /\ Listed(e)' \/ (run'[s].step = "rows" /\ ToList(run[s], e)')
                      /\ \A t \in DailyRows : Kept(e, t)' \/
                             (run'[s].step = "rows" /\ ToReplace(run[s], e, t)')
    BY <2>1 DEF DaysKnown
  <2>3. /\ at[e] # 0
        /\ run[s].step = "rows" => /\ at[e] >= run[s].from => e \in run[s].seen
                                   /\ e \in Starts => e \in run[s].starts
        /\ Listed(e) \/ (run[s].step = "rows" /\ ToList(run[s], e))
        /\ \A t \in DailyRows : Kept(e, t) \/ (run[s].step = "rows" /\ ToReplace(run[s], e, t))
    BY <2>2 DEF DaysKnown
  <2>4. at'[e] = at[e]
    BY <2>3
  <2>5. CASE run'[s].step = "rows"
    <3>1. Same(s) /\ run[s].step = "rows"
      BY <2>1, <2>5
    <3>2. /\ ToList(run[s], e)' <=> ToList(run[s], e)
          /\ \A t \in DailyRows : ToReplace(run[s], e, t)' <=> ToReplace(run[s], e, t)
      BY <2>4, <3>1 DEF ToList, ToReplace, Same
    <3> QED BY <1>1, <2>3, <2>4, <2>5, <3>1, <3>2 DEF Same
  <2>6. CASE run'[s].step # "rows"
    BY <1>1, <2>1, <2>3, <2>4, <2>6
  <2> QED BY <2>5, <2>6
<1> QED BY <1>7, <1>8, <1>9, <1>10 DEF DayInv

LEMMA DaysLoaded ==
    ASSUME Base, Base', DayInv, NEW r \in Runs, LoadEvents(r)
    PROVE  DayInv'
<1>1. UNCHANGED <<now, source, rows, marks, spent>>
  BY DEF LoadEvents, Loaded, OnlyRun
<1>2. UNCHANGED <<now, at, gone, backfilled, rolled, cursor, cut, calm, known>>
  BY <1>1 DEF source, rows, marks
<1>3. PICK from \in Nat :
         /\ from = IF run[r].full THEN 0 ELSE Earlier(cursor, DayLength)
         /\ run[r].step = "load" /\ Others(r) /\ run' \in [Runs -> Memory]
         /\ run'[r].alone = run[r].alone
         /\ run'[r].from = from /\ run'[r].table = 1
         /\ run'[r].seen = {e \in Ledger : at[e] >= from}
         /\ run'[r].starts = Ledger \intersect Starts
         /\ run'[r].days = {Day(at[e]) : e \in run'[r].seen}
         /\ run[r].alone = TRUE => run'[r].known = Ledger \union
               {a \in Alarms : raised[a] # 0 /\ raised[a] + Lookback >= now}
         /\ \/ /\ run'[r].step = "rows"
               /\ run'[r].cohorts = {Day(at[e]) : e \in run'[r].starts}
            \/ run'[r].step = "ops" /\ run'[r].seen = {}
  BY LoadsEvents
<1>4. \A e \in Told : e \in Ledger /\ e \in Facts /\ e \notin backfilled /\ at[e] # 0 /\ at[e] \in Nat
  BY DEF Told, Ledger, Base, RollupTypeOK
(* Before the window lie those the last runs have kept.                     *)
<1>5. ASSUME NEW e \in Told, ~(at[e] >= from)
      PROVE  Listed(e) /\ \A t \in DailyRows : Kept(e, t)
  <2>1. ~(at[e] >= Window)
    BY <1>3, <1>4, <1>5 DEF Window
  <2> QED BY <2>1 DEF DayInv, DaysKept
<1>6. ASSUME NEW e \in Told
      PROVE  /\ at[e] >= from => e \in run'[r].seen
             /\ e \in Starts => e \in run'[r].starts
             /\ Listed(e) \/ (run'[r].step = "rows" /\ e \in run'[r].starts
                                                    /\ Day(at[e]) \in run'[r].cohorts)
  <2>1. at[e] >= from => e \in run'[r].seen
    BY <1>3, <1>4
  <2>2. e \in Starts => e \in run'[r].starts
    BY <1>3, <1>4
  <2>3. CASE run'[r].step = "rows"
    <3>1. e \in Starts => Day(at[e]) \in run'[r].cohorts
      BY <1>3, <2>2, <2>3
    <3> QED BY <2>1, <2>2, <2>3, <3>1 DEF Listed
  <2>4. CASE run'[r].step # "rows"
    <3>1. ~(at[e] >= from)
      BY <1>3, <2>1, <2>4
    <3> QED BY <1>5, <2>1, <2>2, <3>1
  <2> QED BY <2>3, <2>4
<1>7. ASSUME NEW e \in Told, NEW t \in DailyRows
      PROVE  \/ Kept(e, t)
             \/ /\ run'[r].step = "rows" /\ e \in run'[r].seen /\ Day(at[e]) \in run'[r].days
                /\ \E j \in run'[r].table..Len(Tables) : t = Tables[j]
  <2>1. CASE ~(at[e] >= from)
    BY <1>5, <2>1
  <2>2. CASE at[e] >= from
    <3>1. e \in run'[r].seen
      BY <1>6, <2>2
    <3>2. run'[r].step = "rows" /\ Day(at[e]) \in run'[r].days
      BY <1>3, <3>1
    <3>3. \E j \in run'[r].table..Len(Tables) : t = Tables[j]
      BY <1>3 DEF DailyRows
    <3> QED BY <3>1, <3>2, <3>3
  <2> QED BY <2>1, <2>2
<1>8. ASSUME run'[r].step = "rows" PROVE DaysRun(run[r])'
  BY <1>2, <1>3, <1>6, <1>7 DEF DaysRun, Told, Ledger, Listed, Kept, ToList, ToReplace
<1>9. ASSUME run[r].alone = TRUE PROVE DaysKnown(run[r])'
  <2>1. (run'[r].known \intersect Facts) \ backfilled = Told
    BY <1>3, <1>9, RollupAssumption DEF Told, Ledger
  <2> QED BY <1>2, <1>3, <1>4, <1>6, <1>7, <2>1 DEF DaysKnown, Listed, Kept, ToList, ToReplace
<1>10. DaysKept' /\ DaysCalm'
  BY <1>2 DEF DayInv, DaysKept, DaysCalm, Told, Ledger, Window, Listed, Kept
<1>11. ASSUME NEW s \in Runs, s # r, run'[s].step = "rows" PROVE DaysRun(run[s])'
  BY <1>2, <1>3, <1>11 DEF DayInv, DaysRun, Others, Told, Ledger, Listed, Kept, ToList, ToReplace, Recent
<1>12. ASSUME NEW s \in Runs, s # r, run'[s].alone = TRUE, run'[s].step \in Past PROVE DaysKnown(run[s])'
  BY <1>2, <1>3, <1>12 DEF DayInv, DaysKnown, Others, Listed, Kept, ToList, ToReplace
<1> QED BY <1>3, <1>8, <1>9, <1>10, <1>11, <1>12 DEF DayInv

(* One table's rows of a day.                                               *)
LEMMA RowsReplaced ==
    ASSUME Base, Base', DayInv, NEW r \in Runs, ReplaceRows(r)
    PROVE  DayInv'
<1>1. UNCHANGED <<now, at, gone, backfilled, cursor, calm, known>>
  BY DEF ReplaceRows, source
<1>2. /\ run[r].step = "rows" /\ Min(run[r].days) \in run[r].days
      /\ run[r].table \in 1..Len(Tables) /\ run[r].seen \subseteq Facts
      /\ run' \in [Runs -> Memory] /\ Others(r)
      /\ run'[r].step = "rows" /\ run'[r].from = run[r].from /\ run'[r].seen = run[r].seen
      /\ run'[r].starts = run[r].starts /\ run'[r].cohorts = run[r].cohorts
      /\ run'[r].alone = run[r].alone /\ run'[r].known = run[r].known
      /\ \/ /\ run[r].table = Len(Tables) /\ run'[r].table = 1
            /\ run'[r].days = run[r].days \ {Min(run[r].days)}
         \/ /\ run[r].table # Len(Tables) /\ run'[r].table = run[r].table + 1
            /\ run'[r].days = run[r].days
  BY ReplacesRows
<1>3. PICK u : u = Tables[run[r].table]
  OBVIOUS
<1>4. PICK d \in Nat : d = Min(run[r].days)
  BY <1>2 DEF Base, RollupTypeOK, Memory
<1>5. PICK found \in SUBSET Facts : found = {e \in run[r].seen : Day(at[e]) = d}
  BY <1>2
<1>6. PICK behind \in SUBSET Facts :
         behind = {e \in Facts : at[e] # 0 /\ Day(at[e]) = d /\ at[e] < run[r].from}
  OBVIOUS
<1>7. /\ rolled' = [rolled EXCEPT ![u][d] = found]
      /\ cut' = (cut \ (found \X {u})) \union ((behind \ found) \X {u})
  BY <1>3, <1>4, <1>5, <1>6 DEF ReplaceRows
<1>8. u \in DailyRows /\ u \in Daily /\ u # "cohorts"
  BY <1>2, <1>3, RollupAssumption DEF DailyRows, Daily
<1>9. \A t \in Daily : \A c \in 1..Day(LastTick) :
         rolled'[t][c] = IF t = u /\ c = d THEN found ELSE rolled[t][c]
  BY <1>7, <1>8, RowsInPlace
<1>10. \A e \in Facts : at[e] # 0 => /\ Day(at[e]) \in 1..Day(LastTick)
                                     /\ at[e] \in Nat /\ at[e] <= now
  BY ToldDays
<1>11. ASSUME NEW e \in Facts, at[e] # 0, NEW t \in DailyRows, Kept(e, t),
              Day(at[e]) # d \/ t # u
       PROVE  Kept(e, t)'
  <2>1. e \in rolled[t][Day(at[e])] => e \in rolled'[t][Day(at[e])]
    BY <1>9, <1>10, <1>11 DEF Daily
  <2>2. <<e, t>> \in cut => <<e, t>> \in cut'
    BY <1>5, <1>7, <1>11
  <2> QED BY <1>1, <1>11, <2>1, <2>2 DEF Kept
<1>12. ASSUME NEW e \in Facts, at[e] # 0, Day(at[e]) = d, e \in run[r].seen \/ at[e] < run[r].from
       PROVE  Kept(e, u)'
  <2>1. CASE e \in run[r].seen
    <3>1. e \in rolled'[u][Day(at[e])]
      BY <1>5, <1>8, <1>9, <1>10, <1>12, <2>1
    <3> QED BY <1>1, <3>1 DEF Kept
  <2>2. CASE at[e] < run[r].from /\ e \notin run[r].seen
    <3>1. e \in behind \ found
      BY <1>5, <1>6, <1>12, <2>2
    <3>2. <<e, u>> \in cut'
      BY <1>7, <3>1
    <3> QED BY <3>2 DEF Kept
  <2> QED BY <1>12, <2>1, <2>2
<1>13. \A e \in Facts : at[e] # 0 => (Listed(e)' <=> Listed(e))
  BY <1>1, <1>8, <1>9, <1>10 DEF Listed, Daily
<1>14. DaysRun(run[r]) /\ run[r].from \in Nat
  BY <1>2 DEF DayInv, Base, RollupTypeOK, Memory
<1>15. \A e \in Told : e \in Facts /\ at[e] # 0
  BY DEF Told, Ledger
<1>16. Told' = Told
  BY <1>1 DEF Told, Ledger
(* The rows keep what they had, but what came with the tick.                *)
<1>17. ASSUME NEW e \in Told, NEW t \in DailyRows, Kept(e, t) PROVE Kept(e, t)' \/ Recent(at[e])
  <2>1. CASE Day(at[e]) # d \/ t # u
    BY <1>11, <1>15, <1>17, <2>1
  <2>2. CASE Day(at[e]) = d /\ t = u
    BY <1>10, <1>12, <1>14, <1>15, <2>2 DEF DaysRun
  <2> QED BY <2>1, <2>2
<1>18. DaysKept'
  <2> SUFFICES ASSUME NEW e \in Told
               PROVE  at[e] >= Window \/ (Listed(e)' /\ \A t \in DailyRows : Kept(e, t)')
    BY <1>1, <1>16 DEF DaysKept, Window
  <2>1. Recent(at[e]) => at[e] >= Window
    BY <1>10, <1>15, AheadOfWindow DEF Window, Base, RollupTypeOK
  <2> QED BY <1>13, <1>15, <1>17, <2>1 DEF DayInv, DaysKept
<1>19. DaysCalm'
  BY <1>1, <1>2 DEF DaysCalm, Base, Calm
(* What a run has still to do it does, or another has done it.              *)
<1>20. ASSUME NEW e \in Facts, at[e] # 0, NEW t \in DailyRows, ToReplace(run[r], e, t)
       PROVE  Kept(e, t)' \/ (e \in run'[r].seen /\ ToReplace(run'[r], e, t))
  <2>1. e \in Facts /\ at[e] # 0 /\ e \in run[r].seen /\ e \in run'[r].seen
    BY <1>2, <1>20 DEF ToReplace
  <2>2. CASE Day(at[e]) # d
    <3>1. Day(at[e]) \in run'[r].days
      BY <1>2, <1>4, <1>20, <2>2 DEF ToReplace
    <3>2. CASE run[r].table = Len(Tables)
      <4>1. \E j \in run'[r].table..Len(Tables) : t = Tables[j]
        BY <1>2, <3>2 DEF DailyRows
      <4> QED BY <2>1, <3>1, <4>1 DEF ToReplace
    <3>3. CASE run[r].table # Len(Tables)
      BY <1>2, <1>4, <2>1, <2>2, <3>1, <3>3 DEF ToReplace
    <3> QED BY <3>2, <3>3
  <2>3. CASE Day(at[e]) = d
    <3>1. PICK j \in run[r].table..Len(Tables) : t = Tables[j]
      BY <1>4, <1>20, <2>3 DEF ToReplace
    <3>2. CASE j = run[r].table
      BY <1>3, <1>12, <2>1, <2>3, <3>1, <3>2
    <3>3. CASE j # run[r].table
      <4>1. run[r].table # Len(Tables) /\ run'[r].table = run[r].table + 1 /\ run'[r].days = run[r].days
        BY <1>2, <3>1, <3>3
      <4>2. j \in run'[r].table..Len(Tables)
        BY <1>2, <3>1, <3>3, <4>1
      <4>3. Day(at[e]) \in run'[r].days
        BY <1>20, <4>1 DEF ToReplace
      <4> QED BY <2>1, <3>1, <4>2, <4>3 DEF ToReplace
    <3> QED BY <3>2, <3>3
  <2> QED BY <2>2, <2>3
<1>21. ASSUME NEW s \in Runs, run'[s].step = "rows" PROVE DaysRun(run[s])'
  <2>1. /\ run[s].step = "rows" /\ run'[s].from = run[s].from /\ run'[s].seen = run[s].seen
        /\ run'[s].starts = run[s].starts /\ run'[s].cohorts = run[s].cohorts
        /\ (s # r => run'[s] = run[s])
    BY <1>2, <1>21 DEF Others
  <2>2. DaysRun(run[s])
    BY <2>1 DEF DayInv
  <2>3. ASSUME NEW e \in Told, NEW t \in DailyRows
        PROVE  Kept(e, t)' \/ Recent(at[e]) \/ ToReplace(run'[s], e, t)
    BY <1>15, <1>17, <1>20, <2>1, <2>2 DEF DaysRun
  <2>4. ASSUME NEW e \in Told
        PROVE  /\ at[e] >= run[s].from => e \in run[s].seen \/ Recent(at[e])
               /\ e \in Starts => e \in run[s].starts \/ Recent(at[e])
               /\ Listed(e)' \/ Recent(at[e]) \/ ToList(run[s], e)
    BY <1>13, <1>15, <2>2 DEF DaysRun
  <2> QED BY <1>1, <1>16, <2>1, <2>3, <2>4 DEF DaysRun, Recent, ToReplace, ToList
<1>22. ASSUME NEW s \in Runs, run'[s].alone = TRUE, run'[s].step \in Past PROVE DaysKnown(run[s])'
  <2>1. s = r
    BY <1>2, <1>22 DEF Base, ByItself, Others, Past
  <2>2. DaysKnown(run[r])
    BY <1>2, <1>22, <2>1 DEF DayInv, Past
  <2>3. ASSUME NEW e \in (run[r].known \intersect Facts) \ backfilled
        PROVE  /\ at[e] # 0 /\ e \in Facts
               /\ at[e] >= run[r].from => e \in run[r].seen
               /\ e \in Starts => e \in run[r].starts
               /\ Listed(e) \/ ToList(run[r], e)
               /\ \A t \in DailyRows : Kept(e, t) \/ ToReplace(run[r], e, t)
    BY <1>2, <2>2 DEF DaysKnown
  <2>4. ASSUME NEW e \in (run[r].known \intersect Facts) \ backfilled, NEW t \in DailyRows
        PROVE  Kept(e, t)' \/ ToReplace(run'[r], e, t)
    <3>1. CASE Day(at[e]) = d /\ t = u
      BY <1>10, <1>12, <1>14, <2>3, <3>1
    <3>2. CASE Kept(e, t) /\ (Day(at[e]) # d \/ t # u)
      BY <1>11, <2>3, <3>2
    <3>3. CASE ToReplace(run[r], e, t)
      BY <1>20, <2>3, <3>3
    <3> QED BY <2>3, <3>1, <3>2, <3>3
  <2> QED BY <1>1, <1>2, <1>13, <2>1, <2>3, <2>4 DEF DaysKnown, ToReplace, ToList
<1> QED BY <1>18, <1>19, <1>21, <1>22 DEF DayInv

(* The cohorts of a day.                                                    *)
LEMMA CohortReplaced ==
    ASSUME Base, Base', DayInv, NEW r \in Runs, ReplaceCohort(r)
    PROVE  DayInv'
<1>1. UNCHANGED <<now, at, gone, backfilled, cursor, cut, calm, known>>
  BY DEF ReplaceCohort, source, marks
<1>2. /\ run[r].step = "rows" /\ Min(run[r].cohorts) \in run[r].cohorts /\ run[r].starts \subseteq Facts
      /\ run' \in [Runs -> Memory] /\ Others(r)
      /\ run'[r].step = "rows" /\ run'[r].from = run[r].from /\ run'[r].seen = run[r].seen
      /\ run'[r].starts = run[r].starts /\ run'[r].days = run[r].days
      /\ run'[r].table = run[r].table
      /\ run'[r].alone = run[r].alone /\ run'[r].known = run[r].known
      /\ run'[r].cohorts = run[r].cohorts \ {Min(run[r].cohorts)}
  BY ReplacesCohort
<1>3. PICK d \in Nat : d = Min(run[r].cohorts)
  BY <1>2 DEF Base, RollupTypeOK, Memory
<1>4. PICK found \in SUBSET Facts : found = {e \in run[r].starts : Day(at[e]) = d}
  BY <1>2
<1>5. rolled' = [rolled EXCEPT !["cohorts"][d] = found]
  BY <1>3, <1>4 DEF ReplaceCohort
<1>6. \A t \in Daily : \A c \in 1..Day(LastTick) :
         rolled'[t][c] = IF t = "cohorts" /\ c = d THEN found ELSE rolled[t][c]
  <2>1. "cohorts" \in Daily
    BY DEF Daily
  <2>2. PICK u \in Daily : u = "cohorts"
    BY <2>1
  <2>3. rolled' = [rolled EXCEPT ![u][d] = found]
    BY <1>5, <2>2
  <2>4. \A t \in Daily : \A c \in 1..Day(LastTick) :
           rolled'[t][c] = IF t = u /\ c = d THEN found ELSE rolled[t][c]
    BY <2>3, RowsInPlace
  <2> QED BY <2>2, <2>4
<1>7. \A e \in Facts : at[e] # 0 => /\ Day(at[e]) \in 1..Day(LastTick)
                                    /\ at[e] \in Nat /\ at[e] <= now
  BY ToldDays
<1>8. \A e \in Facts, t \in DailyRows : at[e] # 0 => (Kept(e, t)' <=> Kept(e, t))
  BY <1>1, <1>6, <1>7, RollupAssumption DEF Kept, Daily
<1>9. \A e \in Facts : at[e] # 0 =>
         /\ Listed(e) => Listed(e)' \/ (e \in Starts /\ e \notin run[r].starts)
         /\ ToList(run[r], e) => Listed(e)' \/ ToList(run'[r], e)
  BY <1>1, <1>2, <1>3, <1>4, <1>6, <1>7 DEF Listed, ToList, Daily
<1>10. DaysRun(run[r])
  BY <1>2 DEF DayInv
<1>11. \A e \in Told : e \in Facts /\ at[e] # 0
  BY DEF Told, Ledger
<1>12. Told' = Told
  BY <1>1 DEF Told, Ledger
<1>13. \A e \in Told : Listed(e) => Listed(e)' \/ Recent(at[e])
  BY <1>9, <1>10, <1>11 DEF DaysRun
<1>14. DaysKept'
  <2> SUFFICES ASSUME NEW e \in Told
               PROVE  at[e] >= Window \/ (Listed(e)' /\ \A t \in DailyRows : Kept(e, t)')
    BY <1>1, <1>12 DEF DaysKept, Window
  <2>1. Recent(at[e]) => at[e] >= Window
    BY <1>7, <1>11, AheadOfWindow DEF Window, Base, RollupTypeOK
  <2> QED BY <1>8, <1>11, <1>13, <2>1 DEF DayInv, DaysKept
<1>15. DaysCalm'
  BY <1>1, <1>2 DEF DaysCalm, Base, Calm
<1>16. ASSUME NEW s \in Runs, run'[s].step = "rows" PROVE DaysRun(run[s])'
  <2>1. /\ run[s].step = "rows" /\ run'[s].from = run[s].from /\ run'[s].seen = run[s].seen
        /\ run'[s].starts = run[s].starts /\ run'[s].days = run[s].days
        /\ run'[s].table = run[s].table /\ (s # r => run'[s] = run[s])
    BY <1>2, <1>16 DEF Others
  <2>2. DaysRun(run[s])
    BY <2>1 DEF DayInv
  <2>3. ASSUME NEW e \in Told PROVE Listed(e)' \/ Recent(at[e]) \/ ToList(run'[s], e)
    BY <1>9, <1>11, <1>13, <2>1, <2>2 DEF DaysRun
  <2>4. ASSUME NEW e \in Told
        PROVE  /\ at[e] >= run[s].from => e \in run[s].seen \/ Recent(at[e])
               /\ e \in Starts => e \in run[s].starts \/ Recent(at[e])
               /\ \A t \in DailyRows : Kept(e, t)' \/ Recent(at[e]) \/ ToReplace(run[s], e, t)
    BY <1>8, <1>11, <2>2 DEF DaysRun
  <2> QED BY <1>1, <1>12, <2>1, <2>3, <2>4 DEF DaysRun, Recent, ToReplace, ToList
<1>17. ASSUME NEW s \in Runs, run'[s].alone = TRUE, run'[s].step \in Past PROVE DaysKnown(run[s])'
  <2>1. s = r
    BY <1>2, <1>17 DEF Base, ByItself, Others, Past
  <2>2. DaysKnown(run[r])
    BY <1>2, <1>17, <2>1 DEF DayInv, Past
  <2>3. ASSUME NEW e \in (run[r].known \intersect Facts) \ backfilled
        PROVE  /\ at[e] # 0 /\ e \in Facts
               /\ at[e] >= run[r].from => e \in run[r].seen
               /\ e \in Starts => e \in run[r].starts
               /\ Listed(e) \/ ToList(run[r], e)
               /\ \A t \in DailyRows : Kept(e, t) \/ ToReplace(run[r], e, t)
    BY <1>2, <2>2 DEF DaysKnown
  <2>4. ASSUME NEW e \in (run[r].known \intersect Facts) \ backfilled
        PROVE  /\ Listed(e)' \/ ToList(run'[r], e)
               /\ \A t \in DailyRows : Kept(e, t)' \/ ToReplace(run[r], e, t)
    BY <1>8, <1>9, <2>3
  <2> QED BY <1>1, <1>2, <2>1, <2>3, <2>4 DEF DaysKnown, ToReplace, ToList
<1> QED BY <1>14, <1>15, <1>16, <1>17 DEF DayInv

(* With all its days done a run moves the cursor, behind nothing it left.   *)
LEMMA CursorSaved ==
    ASSUME Base, Base', DayInv, NEW r \in Runs, SaveCursor(r)
    PROVE  DayInv'
<1>1. UNCHANGED <<now, at, gone, backfilled, rolled, cut, calm, known>>
  BY DEF SaveCursor, source, marks
<1>2. /\ run[r].step = "rows" /\ run[r].days = {} /\ run[r].cohorts = {}
      /\ run' \in [Runs -> Memory] /\ Others(r)
      /\ run'[r].step = "prune" /\ run'[r].alone = run[r].alone /\ run'[r].known = run[r].known
      /\ cursor' \in 0..now
  BY SavesCursor
<1>3. \A e \in Told : e \in Facts /\ at[e] # 0 /\ at[e] \in Nat
  BY DEF Told, Ledger, Base, RollupTypeOK
<1>4. ASSUME NEW e \in Told PROVE Recent(at[e]) \/ (Listed(e) /\ \A t \in DailyRows : Kept(e, t))
  BY <1>2 DEF DayInv, DaysRun, ToReplace, ToList
<1>5. DaysKept'
  <2> SUFFICES ASSUME NEW e \in Told
               PROVE  at[e] >= Window' \/ (Listed(e) /\ \A t \in DailyRows : Kept(e, t))
    BY <1>1 DEF DaysKept, Told, Ledger, Listed, Kept
  <2>1. Window' = Earlier(cursor', DayLength)
    BY DEF Window, Earlier
  <2>2. Recent(at[e]) => at[e] >= Window'
    BY <1>2, <1>3, <2>1, AheadOfWindow DEF Base
  <2> QED BY <1>4, <2>2
<1>6. DaysCalm'
  BY <1>1 DEF DayInv, DaysCalm, Listed, Kept
<1>7. ASSUME NEW s \in Runs, run'[s].step = "rows" PROVE DaysRun(run[s])'
  <2>1. s # r /\ run'[s] = run[s]
    BY <1>2, <1>7 DEF Others
  <2> QED BY <1>1, <1>7, <2>1 DEF DayInv, DaysRun, Told, Ledger, Listed, Kept, ToList, ToReplace, Recent
<1>8. ASSUME NEW s \in Runs, run'[s].alone = TRUE, run'[s].step \in Past PROVE DaysKnown(run[s])'
  <2>1. s = r
    BY <1>2, <1>8 DEF Base, ByItself, Others, Past
  <2>2. DaysKnown(run[r])
    BY <1>2, <1>8, <2>1 DEF DayInv, Past
  <2> QED BY <1>1, <1>2, <2>1, <2>2 DEF DaysKnown, Listed, Kept, ToList, ToReplace
<1> QED BY <1>5, <1>6, <1>7, <1>8 DEF DayInv

LEMMA DaysFinished ==
    ASSUME Base, Base', DayInv, NEW r \in Runs, FinishRun(r)
    PROVE  DayInv'
<1>1. /\ UNCHANGED <<now, at, gone, backfilled, rolled, cursor, cut>> /\ run[r].step = "hours"
      /\ run' = [run EXCEPT ![r] = NoRun]
      /\ calm' = run[r].alone /\ known' = IF run[r].alone THEN run[r].known ELSE known
  BY DEF FinishRun, source
<1>2. Others(r) /\ run'[r].step = "idle"
  BY <1>1, GoesIdle
<1>3. \A s \in Runs : run'[s].step # "idle" => s # r /\ run'[s] = run[s]
  BY <1>2 DEF Others
<1>4. DaysKept'
  BY <1>1 DEF DayInv, DaysKept, Told, Ledger, Window, Listed, Kept
<1>5. DaysCalm'
  <2> SUFFICES ASSUME run[r].alone = TRUE
               PROVE  \A e \in (run[r].known \intersect Facts) \ backfilled :
                         at[e] # 0 /\ Listed(e) /\ \A t \in DailyRows : Kept(e, t)
    BY <1>1 DEF DaysCalm, Listed, Kept
  <2>1. DaysKnown(run[r])
    BY <1>1 DEF DayInv, Past
  <2> QED BY <1>1, <2>1 DEF DaysKnown
<1>6. ASSUME NEW s \in Runs, run'[s].step = "rows" PROVE DaysRun(run[s])'
  BY <1>1, <1>3, <1>6 DEF DayInv, DaysRun, Told, Ledger, Listed, Kept, ToList, ToReplace, Recent
<1>7. ASSUME NEW s \in Runs, run'[s].alone = TRUE, run'[s].step \in Past PROVE DaysKnown(run[s])'
  BY <1>1, <1>3, <1>7 DEF DayInv, DaysKnown, Listed, Kept, ToList, ToReplace, Past
<1> QED BY <1>4, <1>5, <1>6, <1>7 DEF DayInv

LEMMA DaysTick ==
    ASSUME Base, Base', DayInv, TickOver
    PROVE  DayInv'
<1>1. /\ UNCHANGED <<at, gone, backfilled, rolled, cursor, run, cut, calm, known>> /\ Active = {}
  BY DEF TickOver, rows, marks
<1>2. \A s \in Runs : run'[s].step = "idle"
  BY <1>1 DEF Active
<1>3. DaysKept' /\ DaysCalm'
  BY <1>1 DEF DayInv, DaysKept, DaysCalm, Told, Ledger, Window, Listed, Kept
<1> QED BY <1>2, <1>3 DEF DayInv, Past

LEMMA DaysRunStep ==
    ASSUME Base, Base', DayInv, NEW r \in Runs, RunNext(r)
    PROVE  DayInv'
<1>1. CASE StartRun(r)
  <2>1. UNCHANGED <<now, source, rows, cut, known>> /\ calm' = FALSE
    BY <1>1 DEF StartRun
  <2>2. \E full \in BOOLEAN, step \in {"backfill", "load"} : run' = Started(r, full, step)
    BY <1>1 DEF StartRun
  <2>3. Quietly
    BY <2>1, <2>2, StartKeeps
  <2> QED BY <2>1, <2>3, DayFrame DEF source, rows, Quietly, Same, Past
<1>2. CASE LoadEvents(r)
  BY <1>2, DaysLoaded
<1>3. CASE ReplaceRows(r)
  BY <1>3, RowsReplaced
<1>4. CASE ReplaceCohort(r)
  BY <1>4, CohortReplaced
<1>5. CASE SaveCursor(r)
  BY <1>5, CursorSaved
<1>6. CASE PruneEvents(r)
  <2>1. UNCHANGED <<now, at, backfilled, rows, marks>> /\ gone \subseteq gone'
    BY <1>6 DEF PruneEvents
  <2>2. run[r].step = "prune" /\ run' = [run EXCEPT ![r].step = "ops", ![r].old = 0]
    BY <1>6 DEF PruneEvents
  <2>3. /\ Others(r) /\ run'[r].alone = run[r].alone /\ run'[r].known = run[r].known
        /\ run'[r].step = "ops"
    BY <2>2, MovesOn
  <2> QED BY <2>1, <2>2, <2>3, DayFrame DEF rows, marks, Others, Same, Past
<1>7. CASE LoadAlarms(r)
  <2>1. UNCHANGED <<now, source, rows, marks, spent>>
    BY <1>7 DEF LoadAlarms, OnlyRun
  <2>2. /\ run[r].step = "ops" /\ Others(r) /\ run'[r].step = "hours"
        /\ run'[r].alone = run[r].alone /\ run'[r].known = run[r].known
    BY <1>7, LoadsAlarms
  <2>3. run[r].alone = TRUE => run[r].step \in Past
    BY <2>2 DEF Past
  <2> QED BY <2>1, <2>2, <2>3, DayFrame DEF source, rows, marks, Others, Same
<1>8. CASE ReplaceHour(r)
  <2>1. UNCHANGED <<now, source, rolled, cursor, calm, known>>
    BY <1>8 DEF ReplaceHour
  <2>2. /\ run[r].step = "hours" /\ run[r].seen \in Reading /\ Others(r)
        /\ run'[r].step = "hours"
        /\ run'[r].alone = run[r].alone /\ run'[r].known = run[r].known
    BY <1>8, ReplacesHour
  <2>3. \A e \in Facts : \A t \in DailyRows : <<e, t>> \in cut => <<e, t>> \in cut'
    <3>1. PICK new \in SUBSET Alarms :
             new = {a \in run[r].seen.all : Hour(raised[a]) = Min(run[r].days)}
      BY <2>2 DEF Reading
    <3>2. PICK behind : behind = {a \in Alarms : raised[a] # 0 /\ Hour(raised[a]) = Min(run[r].days)
                                                 /\ raised[a] < run[r].from}
      OBVIOUS
    <3>3. cut' = (cut \ (new \X {"hours"})) \union ((behind \ new) \X {"hours"})
      BY <1>8, <3>1, <3>2 DEF ReplaceHour
    <3> QED BY <3>1, <3>3, RollupAssumption
  <2> QED BY <2>1, <2>2, <2>3, DayFrame DEF source, Others, Same, Past
<1>9. CASE FinishRun(r)
  BY <1>9, DaysFinished
<1>10. CASE RunDies(r)
  <2>1. /\ UNCHANGED <<now, source, rows, marks>> /\ run' = [run EXCEPT ![r] = NoRun]
    BY <1>10 DEF RunDies
  <2>2. Others(r) /\ run'[r].step = "idle"
    BY <2>1, GoesIdle
  <2> QED BY <2>1, <2>2, DayFrame DEF source, rows, marks, Others, Same, Past
<1> QED BY <1>1, <1>2, <1>3, <1>4, <1>5, <1>6, <1>7, <1>8, <1>9, <1>10 DEF RunNext

LEMMA DayStep ==
    ASSUME Base, Base', DayInv, [RollupNext]_rollupVars
    PROVE  DayInv'
<1>1. ASSUME NEW e \in Facts, NEW t \in Nat, t # 0, t <= now, Record(e, t),
             backfilled \subseteq backfilled', e \in backfilled' \/ t + 1 >= now
      PROVE  DayInv'
  <2>1. /\ Quietly /\ UNCHANGED <<now, gone, rows, cut, known>> /\ (calm' = TRUE => calm = TRUE)
        /\ at[e] = 0 /\ at'[e] = t /\ \A f \in Facts : f # e => at'[f] = at[f]
    BY <1>1, RecordKeeps
  <2>2. \A f \in Facts : /\ at[f] # 0 => at'[f] = at[f]
                         /\ at[f] = 0 /\ at'[f] # 0 => f \in backfilled' \/ Recent(at'[f])
    BY <1>1, <2>1 DEF Recent
  <2> QED BY <1>1, <2>1, <2>2, DayFrame DEF rows, Quietly, Same, Past
<1>2. ASSUME NEW e \in Facts, EmitEvent(e) PROVE DayInv'
  BY <1>1, <1>2, Emits
<1>3. ASSUME NEW e \in Facts, BackfillEvent(e) PROVE DayInv'
  BY <1>1, <1>3, Backfills
<1>4. ASSUME NEW a \in Alarms, RaiseAlarm(a) PROVE DayInv'
  <2>1. UNCHANGED <<now, at, gone, backfilled, rows, run, marks>>
    BY <1>4 DEF RaiseAlarm
  <2> QED BY <2>1, DayFrame DEF rows, marks, Same
<1>5. ASSUME NEW a \in Alarms, ClearAlarm(a) PROVE DayInv'
  <2>1. UNCHANGED <<now, at, gone, backfilled, rows, run, marks>>
    BY <1>5 DEF ClearAlarm
  <2> QED BY <2>1, DayFrame DEF rows, marks, Same
<1>6. ASSUME NEW r \in Runs, RunNext(r) PROVE DayInv'
  BY <1>6, DaysRunStep
<1>7. CASE EndBackfill
  <2>1. /\ UNCHANGED <<now, source, rows, marks>>
        /\ run' = [run EXCEPT ![Operator].step = "load"] /\ Operator \in Runs
    BY <1>7 DEF EndBackfill, Runs
  <2>2. Others(Operator) /\ run'[Operator].step = "load"
    BY <2>1 DEF Others, Base, RollupTypeOK, Memory
  <2> QED BY <2>1, <2>2, DayFrame DEF source, rows, marks, Others, Same, Past
<1>8. CASE TickOver
  BY <1>8, DaysTick
<1>9. CASE UNCHANGED rollupVars
  BY <1>9, DayFrame DEF rollupVars, source, rows, marks, Same
<1> QED BY <1>2, <1>3, <1>4, <1>5, <1>6, <1>7, <1>8, <1>9 DEF RollupNext

LEMMA DaysStart == RollupInit => DayInv
<1> SUFFICES ASSUME RollupInit PROVE DayInv
  OBVIOUS
<1>1. /\ \A e \in Facts : at[e] = 0
      /\ \A r \in Runs : run[r].step = "idle"
      /\ calm = FALSE
  BY IdleFits DEF RollupInit
<1> QED BY <1>1 DEF DayInv, DaysKept, DaysCalm, Told, Ledger, Past

(* When the last run has gone through alone, every daily table and the      *)
(* cohorts count every fact that was on record when it read, however        *)
(* earlier runs overlapped or died, but for facts a backfill has recorded   *)
(* behind the window and those before it in the day it begins in.           *)
THEOREM FactsAreCounted == RollupSpec => []DaysAsRecorded
<1>1. Base /\ DayInv => DaysAsRecorded
  BY DEF DayInv, DaysCalm, DaysAsRecorded, Listed, Kept, Base, RollupTypeOK
<1>2. RollupInit => Base /\ DayInv
  BY RollupStarts, DaysStart
<1>3. Base /\ DayInv /\ [RollupNext]_rollupVars => (Base /\ DayInv)'
  BY BaseStep, DayStep
<1> QED BY <1>1, <1>2, <1>3, PTL DEF RollupSpec

-----------------------------------------------------------------------------
(* The repairs.  What an operation carries. *)
Recs == [uuid : Nat \ {0}, place : Places, link : Nat]
Mid == {"delete", "add", "save", "describe", "write", "cleanup", "revert", "restore"}
Reissuing == Mid \union {"judge"}
Errands ==
    [step : {"idle", "routes", "sync"} \union Reissuing, kind : Kinds,
     held : [Devices -> Recs] \union {<<>>}, left : SUBSET Devices, new : Nat,
     failed : BOOLEAN, again : BOOLEAN, alone : BOOLEAN]
Sound(r) ==
    /\ r.step # "idle" => r.held \in [Devices -> Recs] /\ r.left \subseteq owned
    /\ r.step \in Mid => r.left # {}
    /\ r.step = "judge" => r.left = {} /\ owned # {}
    /\ r.step = "routes" => owned = {}
    /\ r.step \in {"save", "describe", "write"} => r.new # 0
RepairTypeOK ==
    /\ owned \subseteq Devices /\ flag \in BOOLEAN /\ issued \in Nat
    /\ record \in [Devices -> Recs] /\ panel \in [Places -> [Devices -> Nat]]
    /\ repair \in [Staff -> Errands]
    /\ \A o \in Staff : Sound(repair[o])
    /\ routes \in {"none", "stale", "synced"}
    /\ bound \in BOOLEAN /\ (bound = TRUE => routes # "none")
    /\ owned # {} => routes = "none"

(* One operation is alone, or all the user's devices are forgiven. *)
Alone(o) == repair[o].step # "idle" /\ repair[o].alone = TRUE
OneAlone == \A o \in Staff : Alone(o) => \A s \in Staff : s # o => repair[s].step = "idle"
Crowded ==
    (\E o \in Staff : repair[o].step # "idle" /\ repair[o].alone = FALSE) => owned \subseteq forgiven

(* A device of Germany never leaves it; one of another node is seen there   *)
(* only by an operation that has read its row without a link.               *)
AtHome ==
    \A d \in owned : Home[d] = "de" =>
        /\ record[d].place = "de" /\ panel["dk"][d] = 0
        /\ \A o \in Staff : repair[o].step # "idle" => repair[o].held[d].place = "de"
Quiet == \A o \in Staff : repair[o].step \notin Reissuing
Astray(r, d) == ~(r.place = "dk" /\ record[d].place = "dk" /\ panel["de"][d] = 0)
Abroad ==
    \A d \in owned : Home[d] = "dk" /\ d \notin forgiven =>
       /\ Quiet /\ Astray(record[d], d) => record[d].link = 0
       /\ \A o \in Staff :
             repair[o].step \in Reissuing /\ Astray(repair[o].held[d], d) => repair[o].held[d].link = 0

(* What the one that is alone knows: a sync reads each row as it is, a      *)
(* reissue that has not failed has done all devices but those left, and     *)
(* with the next it is as far as its step says.                             *)
ReadRight ==
    \A o \in Staff : Alone(o) /\ repair[o].step = "sync" =>
        \A d \in repair[o].left : repair[o].held[d] = record[d]
Anew(r, d) ==
    /\ record[d].link = record[d].uuid /\ record[d].place = View(r.held[d]).place
    /\ panel[record[d].place][d] = record[d].uuid
Halfway(r, d) ==
    /\ r.step \in {"save", "describe", "write"} => panel[View(r.held[d]).place][d] = r.new
    /\ r.step \in {"describe", "write"} =>
          record[d].uuid = r.new /\ record[d].place = View(r.held[d]).place
Reissued ==
    \A o \in Staff : Alone(o) /\ repair[o].step \in Reissuing /\ repair[o].failed = FALSE =>
        /\ \A d \in owned \ repair[o].left : Anew(repair[o], d)
        /\ repair[o].step \in Mid => Halfway(repair[o], Current(o))

Marked == flag = FALSE /\ Quiet => \A d \in owned : Whole(d) \/ d \in forgiven
RoutesMarked == flag = FALSE /\ routes = "stale" => "routes" \in forgiven

RepairInv ==
    /\ RepairTypeOK /\ OneAlone /\ Crowded /\ AtHome /\ Abroad /\ ReadRight /\ Reissued
    /\ Marked /\ RoutesMarked

LEMMA RepairStarts == RepairInit => RepairInv
<1> SUFFICES ASSUME RepairInit PROVE RepairInv
  OBVIOUS
<1>1. Max(Devices) \in Nat
  <2>1. PICK last \in Devices : \A d \in Devices : d <= last
    BY RepairAssumption
  <2>2. Max(Devices) \in Devices
    BY <2>1 DEF Max
  <2> QED BY <2>2, RepairAssumption
<1>2. record = [d \in Devices |-> [uuid |-> d, place |-> Home[d], link |-> d]]
  BY DEF RepairInit
<1>3. /\ record \in [Devices -> Recs]
      /\ \A d \in Devices : record[d].uuid = d /\ record[d].place = Home[d] /\ record[d].link = d
  BY <1>2, RepairAssumption DEF Recs
<1>4. PICK off \in SUBSET owned :
         panel = [p \in Places |-> [d \in Devices |-> IF p = Home[d] /\ d \notin off THEN d ELSE 0]]
  BY DEF RepairInit
<1>5. /\ panel \in [Places -> [Devices -> Nat]]
      /\ \A d \in Devices : \A p \in Places :
            panel[p][d] = IF p = Home[d] /\ d \notin off THEN d ELSE 0
  BY <1>4, RepairAssumption
<1>6. None \in Errands /\ None.step = "idle"
  BY DEF None, Errands, Kinds
<1>7. /\ owned \subseteq Devices /\ repair = [o \in Staff |-> None] /\ issued = Max(Devices)
      /\ bound \in BOOLEAN /\ access \in BOOLEAN
      /\ flag = (routes = "stale" \/ \E d \in owned : panel[Home[d]][d] = 0)
      /\ routes \in {"none", "stale"} /\ (owned # {} \/ ~access => routes = "none")
      /\ bound => routes # "none"
  BY DEF RepairInit
<1>8. flag \in BOOLEAN
  BY <1>7
<1>9. RepairTypeOK
  <2>1. repair \in [Staff -> Errands] /\ \A o \in Staff : repair[o].step = "idle"
    BY <1>6, <1>7
  <2>2. \A o \in Staff : Sound(repair[o])
    BY <2>1 DEF Sound, Mid
  <2>3. bound = TRUE => routes # "none"
    BY <1>7
  <2>4. routes \in {"none", "stale", "synced"} /\ (owned # {} => routes = "none")
    BY <1>7
  <2> QED BY <1>1, <1>3, <1>5, <1>7, <1>8, <2>1, <2>2, <2>3, <2>4 DEF RepairTypeOK
<1>10. \A o \in Staff : repair[o].step = "idle"
  BY <1>6, <1>7
<1>11. OneAlone /\ Crowded /\ ReadRight /\ Reissued
  BY <1>10 DEF OneAlone, Crowded, ReadRight, Reissued, Alone
<1>12. AtHome
  BY <1>3, <1>5, <1>7, <1>10 DEF AtHome, Places
<1>13. Abroad
  BY <1>3, <1>5, <1>7, <1>10 DEF Abroad, Astray, Places, Reissuing, Mid
<1>14. Marked
  <2> SUFFICES ASSUME flag = FALSE, NEW d \in owned PROVE Whole(d)
    BY DEF Marked
  <2>1. panel[Home[d]][d] # 0
    BY <1>7
  <2>2. Home[d] \in Places /\ d \in Devices
    BY <1>7, RepairAssumption
  <2>3. d \notin off
    BY <1>5, <2>1, <2>2
  <2> QED BY <1>3, <1>5, <2>2, <2>3 DEF Whole
<1>15. RoutesMarked
  BY <1>7 DEF RoutesMarked
<1> QED BY <1>9, <1>11, <1>12, <1>13, <1>14, <1>15 DEF RepairInv

-----------------------------------------------------------------------------
LEMMA GoesToSync ==
    ASSUME RepairTypeOK, NEW o \in Staff, NEW again \in BOOLEAN, GoSync(o, again)
    PROVE  /\ repair' \in [Staff -> Errands]
           /\ repair'[o].step = "sync" /\ repair'[o].held = record /\ repair'[o].left = owned
           /\ repair'[o].failed = FALSE /\ repair'[o].again = again
           /\ repair'[o].kind = repair[o].kind /\ repair'[o].alone = repair[o].alone
           /\ \A s \in Staff : s # o => repair'[s] = repair[s]
<1>1. PICK h \in Errands : h = repair[o]
  BY DEF RepairTypeOK
<1>2. record \in [Devices -> Recs] /\ owned \in SUBSET Devices /\ repair \in [Staff -> Errands]
  BY DEF RepairTypeOK
<1> DEFINE g == [h EXCEPT !.step = "sync", !.held = record, !.left = owned,
                          !.failed = FALSE, !.again = again]
<1>3. g.step = "sync" /\ g.held = record /\ g.left = owned /\ g.failed = FALSE /\ g.again = again
      /\ g.kind = h.kind /\ g.alone = h.alone
  BY <1>1, <1>2 DEF Errands
<1>4. g \in Errands
  BY <1>1, <1>2 DEF Errands
<1>5. repair' = [repair EXCEPT ![o] = g]
  BY <1>1, <1>2 DEF GoSync
<1> HIDE DEF g
<1> QED BY <1>1, <1>2, <1>3, <1>4, <1>5

LEMMA Ends ==
    ASSUME RepairTypeOK, NEW o \in Staff, Quit(o)
    PROVE  /\ repair' \in [Staff -> Errands] /\ repair'[o].step = "idle"
           /\ \A s \in Staff : s # o => repair'[s] = repair[s]
<1>1. None \in Errands /\ None.step = "idle"
  BY DEF None, Errands, Kinds
<1> QED BY <1>1 DEF RepairTypeOK, Quit

LEMMA GoesTo ==
    ASSUME RepairTypeOK, NEW o \in Staff, NEW step \in Reissuing, Goto(o, step)
    PROVE  /\ repair' \in [Staff -> Errands]
           /\ repair'[o].step = step /\ repair'[o].held = repair[o].held
           /\ repair'[o].left = repair[o].left /\ repair'[o].failed = repair[o].failed
           /\ repair'[o].new = repair[o].new /\ repair'[o].alone = repair[o].alone
           /\ \A s \in Staff : s # o => repair'[s] = repair[s]
  BY DEF RepairTypeOK, Goto, Errands

LEMMA IssuedOne ==
    ASSUME RepairTypeOK, NEW o \in Staff, NEW failed \in BOOLEAN, Issued(o, failed)
    PROVE  /\ repair' \in [Staff -> Errands]
           /\ repair'[o].left = repair[o].left \ {Current(o)}
           /\ repair'[o].step = IF repair'[o].left = {} THEN "judge" ELSE "delete"
           /\ repair'[o].held = repair[o].held /\ repair'[o].alone = repair[o].alone
           /\ repair'[o].failed = FALSE => repair[o].failed = FALSE /\ failed = FALSE
           /\ \A s \in Staff : s # o => repair'[s] = repair[s]
<1>1. PICK h \in Errands : h = repair[o]
  BY DEF RepairTypeOK
<1>2. repair \in [Staff -> Errands]
  BY DEF RepairTypeOK
<1>3. PICK left : left = h.left \ {Current(o)}
  OBVIOUS
<1>4. PICK step : step = IF left = {} THEN "judge" ELSE "delete"
  OBVIOUS
<1>5. PICK worse \in BOOLEAN : worse = (h.failed \/ failed)
  OBVIOUS
<1> DEFINE g == [h EXCEPT !.left = left, !.new = 0, !.failed = worse, !.step = step]
<1>6. g.left = left /\ g.step = step /\ g.held = h.held /\ g.alone = h.alone /\ g.failed = worse
  BY <1>1 DEF Errands
<1>7. left \in SUBSET Devices /\ step \in {"judge", "delete"}
  BY <1>1, <1>3, <1>4 DEF Errands
<1>8. g \in Errands
  BY <1>1, <1>5, <1>7 DEF Errands, Reissuing, Mid
<1>9. repair' = [repair EXCEPT ![o] = g]
  BY <1>1, <1>2, <1>3, <1>4, <1>5 DEF Issued
<1>10. worse = FALSE => h.failed = FALSE /\ failed = FALSE
  <2>1. h.failed \in BOOLEAN
    BY <1>1 DEF Errands
  <2> QED BY <1>5, <2>1
<1> HIDE DEF g
<1> QED BY <1>1, <1>2, <1>3, <1>4, <1>6, <1>8, <1>9, <1>10

-----------------------------------------------------------------------------
LEMMA Solo ==
    ASSUME RepairInv, NEW o \in Staff, repair[o].step # "idle"
    PROVE  /\ \A s \in Staff : s # o => ~Alone(s)
           /\ Alone(o) => \A s \in Staff : s # o => repair[s].step = "idle"
           /\ ~Alone(o) => owned \subseteq forgiven
<1>1. \A s \in Staff : s # o => ~Alone(s)
  BY DEF RepairInv, OneAlone
<1>2. Alone(o) => \A s \in Staff : s # o => repair[s].step = "idle"
  BY DEF RepairInv, OneAlone
<1>3. ~Alone(o) => owned \subseteq forgiven
  <2>1. repair[o].alone \in BOOLEAN
    BY DEF RepairInv, RepairTypeOK, Errands
  <2> QED BY <2>1 DEF RepairInv, Crowded, Alone
<1> QED BY <1>1, <1>2, <1>3

LEMMA InHand ==
    ASSUME RepairInv, NEW o \in Staff, repair[o].step # "idle", repair[o].left # {}
    PROVE  /\ Current(o) \in repair[o].left /\ Current(o) \in owned /\ Current(o) \in Devices
           /\ repair[o].held[Current(o)] \in Recs
           /\ View(repair[o].held[Current(o)]) \in Recs
           /\ NodeOf(o) = View(repair[o].held[Current(o)]).place /\ NodeOf(o) \in Places
           /\ repair[o].held[Current(o)].link # 0 =>
                 View(repair[o].held[Current(o)]) = repair[o].held[Current(o)]
           /\ repair[o].held[Current(o)].link = 0 => View(repair[o].held[Current(o)]).place = "de"
<1>1. /\ repair[o].held \in [Devices -> Recs] /\ repair[o].left \subseteq owned
      /\ owned \subseteq Devices
  BY DEF RepairInv, RepairTypeOK, Sound
<1>2. repair[o].left \subseteq Nat
  BY <1>1, RepairAssumption
<1>3. Current(o) \in repair[o].left
  BY <1>2, MinIsLeast DEF Current
<1>4. Current(o) \in Devices /\ Current(o) \in owned
  BY <1>1, <1>3
<1>5. PICK r \in Recs : r = repair[o].held[Current(o)]
  BY <1>1, <1>4
<1>6. /\ View(r) \in Recs /\ View(r).place \in Places
      /\ r.link # 0 => View(r) = r
      /\ r.link = 0 => View(r).place = "de"
  BY <1>5 DEF View, Recs, Places
<1> QED BY <1>3, <1>4, <1>5, <1>6 DEF NodeOf

(* What a step of a reissue may touch: the device in hand, the node it is   *)
(* made on, and the operation itself.                                       *)
Touches(o, d) ==
    /\ UNCHANGED <<owned, bound, routes, flag, forgiven>>
    /\ repair' \in [Staff -> Errands]
    /\ \A s \in Staff : s # o => repair'[s] = repair[s]
    /\ repair'[o].step \in Reissuing
    /\ repair'[o].held = repair[o].held /\ repair'[o].alone = repair[o].alone
    /\ record' \in [Devices -> Recs] /\ panel' \in [Places -> [Devices -> Nat]]
    /\ issued' \in Nat
    /\ \A e \in Devices : e # d =>
          record'[e] = record[e] /\ \A q \in Places : panel'[q][e] = panel[q][e]
    /\ \A q \in Places : q # NodeOf(o) => panel'[q][d] = panel[q][d]
    /\ record'[d].place \in {record[d].place, NodeOf(o), repair[o].held[d].place}
Fine(o) == repair[o].alone = TRUE /\ repair'[o].failed = FALSE
Goes(o, d) ==
    /\ repair'[o].failed = FALSE => repair[o].failed = FALSE
    /\ \/ /\ repair'[o].left = repair[o].left /\ repair'[o].step \in Mid
          /\ repair'[o].step \in {"save", "describe", "write"} => repair'[o].new # 0
          /\ Fine(o) /\ repair'[o].step \in {"save", "describe", "write"} =>
                panel'[NodeOf(o)][d] = repair'[o].new
          /\ Fine(o) /\ repair'[o].step \in {"describe", "write"} =>
                record'[d].uuid = repair'[o].new /\ record'[d].place = NodeOf(o)
       \/ /\ repair'[o].left = repair[o].left \ {d}
          /\ repair'[o].step = IF repair'[o].left = {} THEN "judge" ELSE "delete"
          /\ Fine(o) => /\ record'[d].link = record'[d].uuid /\ record'[d].place = NodeOf(o)
                        /\ panel'[NodeOf(o)][d] = record'[d].uuid

LEMMA ReissueKeeps ==
    ASSUME RepairInv, NEW o \in Staff, repair[o].step \in Mid,
           Touches(o, Current(o)), Goes(o, Current(o))
    PROVE  RepairInv'
<1>0. PICK d : d = Current(o)
  OBVIOUS
<1>1. repair[o].step # "idle" /\ repair[o].left # {} /\ repair[o].step \in Reissuing
  BY DEF RepairInv, RepairTypeOK, Sound, Mid, Reissuing
<1>2. /\ d \in repair[o].left /\ d \in owned /\ d \in Devices
      /\ repair[o].held[d] \in Recs
      /\ NodeOf(o) = View(repair[o].held[d]).place /\ NodeOf(o) \in Places
      /\ repair[o].held[d].link # 0 => View(repair[o].held[d]) = repair[o].held[d]
      /\ repair[o].held[d].link = 0 => View(repair[o].held[d]).place = "de"
  BY <1>0, <1>1, InHand
<1> USE <1>0
<1>3. repair'[o].step # "idle" /\ repair'[o].step # "sync" /\ repair'[o].step # "routes"
  BY DEF Touches, Reissuing, Mid
<1>4. /\ \A s \in Staff : Alone(s)' <=> Alone(s)
      /\ \A s \in Staff : repair'[s].step = "idle" <=> repair[s].step = "idle"
      /\ \A s \in Staff : repair'[s].alone = repair[s].alone
      /\ \A s \in Staff : repair'[s].held = repair[s].held
  BY <1>1, <1>3 DEF Alone, Touches
<1>5. RepairTypeOK'
  <2>1. Sound(repair[o])
    BY DEF RepairInv, RepairTypeOK
  <2>2. repair'[o].step # "idle" => repair'[o].held \in [Devices -> Recs] /\ repair'[o].left \subseteq owned
    BY <1>1, <2>1 DEF Touches, Goes, Sound
  <2>3. /\ repair'[o].step \in Mid => repair'[o].left # {}
        /\ repair'[o].step = "judge" => repair'[o].left = {} /\ owned # {}
        /\ repair'[o].step \in {"save", "describe", "write"} => repair'[o].new # 0
    BY <1>1, <1>2 DEF Goes, Mid
  <2>4. Sound(repair[o])'
    BY <1>3, <2>2, <2>3 DEF Sound, Touches
  <2>5. \A s \in Staff : s # o => Sound(repair[s])'
    BY DEF RepairInv, RepairTypeOK, Sound, Touches
  <2> QED BY <2>4, <2>5 DEF RepairTypeOK, RepairInv, Touches
<1>6. OneAlone'
  BY <1>4 DEF OneAlone, RepairInv
<1>7. Crowded'
  BY <1>4 DEF Crowded, RepairInv, Touches
<1>8. AtHome'
  <2> SUFFICES ASSUME NEW e \in owned, Home[e] = "de"
               PROVE  record'[e].place = "de" /\ panel'["dk"][e] = 0
    BY <1>4 DEF AtHome, RepairInv, Touches
  <2>1. e \in Devices /\ record[e].place = "de" /\ panel["dk"][e] = 0 /\ repair[o].held[e].place = "de"
    BY <1>1 DEF RepairInv, AtHome, RepairTypeOK
  <2>2. CASE e # d
    BY <2>1, <2>2 DEF Touches, Places
  <2>3. CASE e = d
    <3>1. NodeOf(o) = "de"
      BY <1>2, <2>1, <2>3
    <3> QED BY <2>1, <2>3, <3>1 DEF Touches, Places
  <2> QED BY <2>2, <2>3
<1>9. Abroad'
  <2> SUFFICES ASSUME NEW e \in owned, Home[e] = "dk", e \notin forgiven,
                      NEW s \in Staff, repair'[s].step \in Reissuing, repair[s].held[e].link # 0
               PROVE  ~Astray(repair[s].held[e], e)'
    BY <1>4 DEF Abroad, Quiet, Touches
  <2>1. s = o
    BY <1>1, Solo DEF Touches, Reissuing, Mid
  <2>2. ~Astray(repair[o].held[e], e)
    BY <1>1, <2>1 DEF RepairInv, Abroad
  <2>3. e \in Devices
    BY DEF RepairInv, RepairTypeOK
  <2>4. CASE e # d
    BY <2>1, <2>2, <2>3, <2>4 DEF Touches, Astray, Places
  <2>5. CASE e = d
    <3>1. NodeOf(o) = "dk"
      BY <1>2, <2>1, <2>2, <2>5 DEF Astray
    <3> QED BY <2>1, <2>2, <2>5, <3>1 DEF Touches, Astray, Places
  <2> QED BY <2>4, <2>5
<1>10. ReadRight'
  <2>1. \A s \in Staff : Alone(s)' => s = o
    BY <1>1, <1>4, Solo
  <2> QED BY <1>3, <2>1 DEF ReadRight
<1>11. Reissued'
  <2>1. \A s \in Staff : Alone(s)' => s = o
    BY <1>1, <1>4, Solo
  <2> SUFFICES ASSUME Alone(o), repair'[o].failed = FALSE
               PROVE  /\ \A e \in owned \ repair'[o].left : Anew(repair[o], e)'
                      /\ repair'[o].step \in Mid => Halfway(repair[o], Current(o))'
    BY <1>4, <2>1 DEF Reissued, Touches
  <2>2. repair[o].failed = FALSE /\ Fine(o)
    BY DEF Goes, Fine, Alone
  <2>3. \A e \in owned \ repair[o].left : Anew(repair[o], e)
    BY <1>1, <2>2 DEF RepairInv, Reissued
  <2>4. ASSUME NEW e \in owned \ repair[o].left PROVE Anew(repair[o], e)'
    <3>1. e # d /\ e \in Devices /\ record[e].place \in Places
      BY <1>2 DEF RepairInv, RepairTypeOK, Recs
    <3> QED BY <2>3, <2>4, <3>1 DEF Anew, Touches, View
  <2>5. CASE repair'[o].left = repair[o].left /\ repair'[o].step \in Mid
    <3>1. Current(o)' = d
      BY <2>5 DEF Current
    <3>2. Halfway(repair[o], d)'
      <4>1. repair'[o].step \in {"save", "describe", "write"} => panel'[NodeOf(o)][d] = repair'[o].new
        BY <1>2, <2>5, <2>2 DEF Goes
      <4>2. repair'[o].step \in {"describe", "write"} =>
               record'[d].uuid = repair'[o].new /\ record'[d].place = NodeOf(o)
        BY <1>2, <2>5, <2>2 DEF Goes, Mid
      <4>3. View(repair'[o].held[d]).place = NodeOf(o)
        BY <1>2, <1>4
      <4> QED BY <4>1, <4>2, <4>3 DEF Halfway
    <3> QED BY <2>4, <2>5, <3>1, <3>2
  <2>6. CASE repair'[o].left = repair[o].left \ {d}
    <3>1. /\ record'[d].link = record'[d].uuid /\ record'[d].place = NodeOf(o)
          /\ panel'[NodeOf(o)][d] = record'[d].uuid
      BY <1>2, <2>6, <2>2 DEF Goes
    <3>2. View(repair'[o].held[d]).place = NodeOf(o)
      BY <1>2, <1>4
    <3>3. Anew(repair[o], d)'
      BY <3>1, <3>2 DEF Anew
    <3>4. repair'[o].step \notin {"save", "describe", "write"}
      BY <1>2, <2>6, <2>2 DEF Goes
    <3>5. Halfway(repair[o], Current(o))'
      BY <3>4 DEF Halfway
    <3> QED BY <2>4, <2>6, <3>3, <3>5
  <2> QED BY <2>5, <2>6 DEF Goes
<1>12. Marked' /\ RoutesMarked'
  BY DEF Marked, RoutesMarked, Quiet, RepairInv, Touches
<1> QED BY <1>5, <1>6, <1>7, <1>8, <1>9, <1>10, <1>11, <1>12 DEF RepairInv

LEMMA Puts ==
    ASSUME RepairInv, NEW p \in Places, NEW d \in Devices, NEW u \in Nat
    PROVE  /\ Put(p, d, u) \in [Places -> [Devices -> Nat]] /\ Put(p, d, u)[p][d] = u
           /\ \A q \in Places : \A e \in Devices :
                 q # p \/ e # d => Put(p, d, u)[q][e] = panel[q][e]
<1>1. panel \in [Places -> [Devices -> Nat]]
  BY DEF RepairInv, RepairTypeOK
<1> QED BY <1>1 DEF Put

(* All but what the nodes, the rows and the operation become.               *)
LEMMA MayTouch ==
    ASSUME RepairInv, NEW o \in Staff, repair[o].step \in Mid,
           UNCHANGED <<owned, bound, routes, flag, forgiven>>,
           repair' \in [Staff -> Errands], \A s \in Staff : s # o => repair'[s] = repair[s],
           repair'[o].step \in Reissuing,
           repair'[o].held = repair[o].held, repair'[o].alone = repair[o].alone,
           issued' \in Nat,
           panel' = panel \/ \E u \in Nat : panel' = Put(NodeOf(o), Current(o), u),
           record' = record \/ \E r \in Recs :
              /\ record' = [record EXCEPT ![Current(o)] = r]
              /\ r.place \in {record[Current(o)].place, NodeOf(o), repair[o].held[Current(o)].place}
    PROVE  Touches(o, Current(o))
<1>0. PICK d : d = Current(o)
  OBVIOUS
<1>1. repair[o].step # "idle" /\ repair[o].left # {}
  BY DEF RepairInv, RepairTypeOK, Sound, Mid
<1>2. d \in Devices /\ NodeOf(o) \in Places
  BY <1>0, <1>1, InHand
<1>3. record \in [Devices -> Recs] /\ panel \in [Places -> [Devices -> Nat]]
  BY DEF RepairInv, RepairTypeOK
<1>4. /\ panel' \in [Places -> [Devices -> Nat]]
      /\ \A q \in Places : \A e \in Devices : q # NodeOf(o) \/ e # d => panel'[q][e] = panel[q][e]
  <2>1. CASE panel' = panel
    BY <1>3, <2>1
  <2>2. CASE \E u \in Nat : panel' = Put(NodeOf(o), d, u)
    <3>1. PICK u \in Nat : panel' = Put(NodeOf(o), d, u)
      BY <2>2
    <3>2. PICK p \in Places : p = NodeOf(o)
      BY <1>2
    <3>3. PICK put : put = Put(p, d, u)
      OBVIOUS
    <3>4. /\ put \in [Places -> [Devices -> Nat]]
          /\ \A q \in Places : \A e \in Devices : q # p \/ e # d => put[q][e] = panel[q][e]
      BY <1>2, <3>3, Puts
    <3> QED BY <3>1, <3>2, <3>3, <3>4
  <2> QED BY <1>0, <2>1, <2>2
<1>5. /\ record' \in [Devices -> Recs]
      /\ record'[d].place \in {record[d].place, NodeOf(o), repair[o].held[d].place}
      /\ \A e \in Devices : e # d => record'[e] = record[e]
  BY <1>0, <1>2, <1>3
<1> QED BY <1>0, <1>2, <1>4, <1>5 DEF Touches

LEMMA Known ==
    ASSUME RepairInv, NEW o \in Staff, repair[o].step \in {"save", "describe", "write"},
           repair[o].alone = TRUE, repair[o].failed = FALSE
    PROVE  /\ panel[NodeOf(o)][Current(o)] = repair[o].new
           /\ repair[o].step \in {"describe", "write"} =>
                 /\ record[Current(o)].uuid = repair[o].new
                 /\ record[Current(o)].place = NodeOf(o)
<1>1. Alone(o) /\ repair[o].step \in Reissuing /\ repair[o].step \in Mid
  BY DEF Alone, Reissuing, Mid
<1>2. Halfway(repair[o], Current(o))
  BY <1>1 DEF RepairInv, Reissued
<1> QED BY <1>2 DEF Halfway, NodeOf

LEMMA DeleteStep ==
    ASSUME RepairInv, NEW o \in Staff, DeleteRemote(o)
    PROVE  Touches(o, Current(o)) /\ Goes(o, Current(o))
<1>0. PICK d : d = Current(o)
  OBVIOUS
<1>1. /\ repair[o].step = "delete" /\ UNCHANGED <<owned, bound, routes, record, issued, flag, forgiven>>
      /\ panel' = panel \/ panel' = Put(NodeOf(o), d, 0)
      /\ Goto(o, "add") \/ Issued(o, TRUE)
  BY <1>0 DEF DeleteRemote, user
<1>2. RepairTypeOK /\ issued \in Nat
  BY DEF RepairInv, RepairTypeOK
<1>3. CASE Goto(o, "add")
  <2>1. /\ repair' \in [Staff -> Errands] /\ repair'[o].step = "add"
        /\ repair'[o].held = repair[o].held
        /\ repair'[o].left = repair[o].left /\ repair'[o].failed = repair[o].failed
        /\ repair'[o].alone = repair[o].alone
        /\ \A s \in Staff : s # o => repair'[s] = repair[s]
    BY <1>2, <1>3, GoesTo DEF Reissuing, Mid
  <2>2. Touches(o, d)
    BY <1>0, <1>1, <1>2, <2>1, MayTouch DEF Reissuing, Mid
  <2>3. Goes(o, d)
    BY <2>1 DEF Goes, Mid
  <2> QED BY <1>0, <2>2, <2>3
<1>4. CASE Issued(o, TRUE)
  <2>1. /\ repair' \in [Staff -> Errands]
        /\ repair'[o].left = repair[o].left \ {d}
        /\ repair'[o].step = IF repair'[o].left = {} THEN "judge" ELSE "delete"
        /\ repair'[o].held = repair[o].held /\ repair'[o].alone = repair[o].alone
        /\ repair'[o].failed # FALSE
        /\ \A s \in Staff : s # o => repair'[s] = repair[s]
    BY <1>0, <1>2, <1>4, IssuedOne
  <2>2. Touches(o, d)
    BY <1>0, <1>1, <1>2, <2>1, MayTouch DEF Reissuing, Mid
  <2>3. Goes(o, d)
    BY <2>1 DEF Goes, Fine
  <2> QED BY <1>0, <2>2, <2>3
<1> QED BY <1>1, <1>3, <1>4

LEMMA AddStep ==
    ASSUME RepairInv, NEW o \in Staff, AddReplacement(o)
    PROVE  Touches(o, Current(o)) /\ Goes(o, Current(o))
<1>0. PICK d : d = Current(o)
  OBVIOUS
<1>1. repair[o].step = "add" /\ repair[o].left # {} /\ repair[o].step # "idle"
  BY DEF AddReplacement, RepairInv, RepairTypeOK, Sound, Mid
<1>2. d \in Devices /\ NodeOf(o) \in Places
  BY <1>0, <1>1, InHand
<1>3. PICK u \in Nat \ {0} : u = issued + 1
  BY DEF RepairInv, RepairTypeOK
<1>4. PICK h \in Errands : h = repair[o]
  BY DEF RepairInv, RepairTypeOK
<1>5. PICK step \in {"save", "restore"} :
         /\ UNCHANGED <<owned, bound, routes, record, flag, forgiven>>
         /\ issued' = u
         /\ panel' = panel \/ panel' = Put(NodeOf(o), d, u)
         /\ step = "save" => panel' = Put(NodeOf(o), d, u)
         /\ repair' = [repair EXCEPT ![o].new = u, ![o].step = step]
  BY <1>0, <1>3 DEF AddReplacement, user, Took
<1> DEFINE g == [h EXCEPT !.new = u, !.step = step]
<1>6. /\ g.new = u /\ g.step = step /\ g.held = h.held /\ g.left = h.left
      /\ g.failed = h.failed /\ g.alone = h.alone
  BY <1>4 DEF Errands
<1>7. g \in Errands
  BY <1>4 DEF Errands, Reissuing, Mid
<1>8. repair' = [repair EXCEPT ![o] = g] /\ repair \in [Staff -> Errands]
  BY <1>4, <1>5 DEF RepairInv, RepairTypeOK
<1> HIDE DEF g
<1>9. /\ repair' \in [Staff -> Errands] /\ repair'[o] = g
      /\ \A s \in Staff : s # o => repair'[s] = repair[s]
  BY <1>7, <1>8
<1>10. Touches(o, d)
  BY <1>0, <1>1, <1>3, <1>4, <1>5, <1>6, <1>9, MayTouch DEF Reissuing, Mid
<1>11. step = "save" => panel'[NodeOf(o)][d] = u
  BY <1>2, <1>5, Puts
<1>12. Goes(o, d)
  BY <1>4, <1>6, <1>9, <1>11 DEF Goes, Mid
<1> QED BY <1>0, <1>10, <1>12

LEMMA SaveStep ==
    ASSUME RepairInv, NEW o \in Staff, SaveReplacement(o)
    PROVE  Touches(o, Current(o)) /\ Goes(o, Current(o))
<1>0. PICK d : d = Current(o)
  OBVIOUS
<1>1. /\ repair[o].step = "save" /\ repair[o].left # {} /\ repair[o].step # "idle"
      /\ repair[o].new \in Nat \ {0}
  BY DEF SaveReplacement, RepairInv, RepairTypeOK, Sound, Mid, Errands
<1>2. d \in Devices /\ NodeOf(o) \in Places /\ record \in [Devices -> Recs] /\ issued \in Nat
  BY <1>0, <1>1, InHand DEF RepairInv, RepairTypeOK
<1>3. PICK r \in Recs : r = [uuid |-> repair[o].new, place |-> NodeOf(o), link |-> 0]
  BY <1>1, <1>2 DEF Recs
<1>4. UNCHANGED <<owned, bound, routes, issued, flag, forgiven>>
  BY DEF SaveReplacement, user
<1>5. \/ panel' = panel /\ record' = [record EXCEPT ![d] = r] /\ Goto(o, "describe")
      \/ record' = record /\ (panel' = panel \/ panel' = Put(NodeOf(o), d, 0)) /\ Goto(o, "restore")
  BY <1>0, <1>3 DEF SaveReplacement, Took
<1>6. PICK step \in {"describe", "restore"} :
         /\ Goto(o, step)
         /\ step = "describe" => panel' = panel /\ record' = [record EXCEPT ![d] = r]
  BY <1>5
<1>7. /\ repair' \in [Staff -> Errands] /\ repair'[o].step = step
      /\ repair'[o].held = repair[o].held /\ repair'[o].new = repair[o].new
      /\ repair'[o].left = repair[o].left /\ repair'[o].failed = repair[o].failed
      /\ repair'[o].alone = repair[o].alone
      /\ \A s \in Staff : s # o => repair'[s] = repair[s]
  BY <1>6, GoesTo DEF Reissuing, Mid, RepairInv
<1>8. /\ r.place = NodeOf(o)
      /\ record' = record \/ record' = [record EXCEPT ![d] = r]
  BY <1>3, <1>5
<1>9. panel' = panel \/ panel' = Put(NodeOf(o), d, 0)
  BY <1>5
<1>10. Touches(o, d)
  BY <1>0, <1>1, <1>2, <1>4, <1>7, <1>8, <1>9, MayTouch DEF Reissuing, Mid
<1>11. step = "describe" => record'[d].uuid = repair[o].new /\ record'[d].place = NodeOf(o)
  BY <1>2, <1>3, <1>6
<1>12. Fine(o) => panel[NodeOf(o)][d] = repair[o].new
  BY <1>0, <1>1, <1>7, Known DEF Fine
<1>13. Goes(o, d)
  BY <1>1, <1>6, <1>7, <1>11, <1>12 DEF Goes, Mid
<1> QED BY <1>0, <1>10, <1>13

LEMMA DescribeStep ==
    ASSUME RepairInv, NEW o \in Staff, DescribeReplacement(o)
    PROVE  Touches(o, Current(o)) /\ Goes(o, Current(o))
<1>0. PICK d : d = Current(o)
  OBVIOUS
<1>1. /\ repair[o].step = "describe" /\ repair[o].step \in Mid
      /\ repair[o].new # 0
      /\ UNCHANGED <<owned, bound, routes, record, panel, issued, flag, forgiven>>
  BY DEF DescribeReplacement, user, Mid, RepairInv, RepairTypeOK, Sound
<1>2. PICK step \in {"write", "restore"} : Goto(o, step)
  BY DEF DescribeReplacement
<1>3. /\ repair' \in [Staff -> Errands] /\ repair'[o].step = step
      /\ repair'[o].held = repair[o].held /\ repair'[o].new = repair[o].new
      /\ repair'[o].left = repair[o].left /\ repair'[o].failed = repair[o].failed
      /\ repair'[o].alone = repair[o].alone
      /\ \A s \in Staff : s # o => repair'[s] = repair[s]
  BY <1>2, GoesTo DEF Reissuing, Mid, RepairInv
<1>4. issued \in Nat
  BY DEF RepairInv, RepairTypeOK
<1>5. Touches(o, d)
  BY <1>0, <1>1, <1>3, <1>4, MayTouch DEF Reissuing, Mid
<1>6. Fine(o) => /\ panel[NodeOf(o)][d] = repair[o].new
                 /\ record[d].uuid = repair[o].new /\ record[d].place = NodeOf(o)
  BY <1>0, <1>1, <1>3, Known DEF Fine
<1>7. Goes(o, d)
  BY <1>1, <1>3, <1>6 DEF Goes, Mid
<1> QED BY <1>0, <1>5, <1>7

LEMMA WriteStep ==
    ASSUME RepairInv, NEW o \in Staff, WriteMetadata(o)
    PROVE  Touches(o, Current(o)) /\ Goes(o, Current(o))
<1>0. PICK d : d = Current(o)
  OBVIOUS
<1>1. /\ repair[o].step = "write" /\ repair[o].left # {} /\ repair[o].step # "idle"
      /\ repair[o].step \in Mid /\ repair[o].new \in Nat \ {0}
      /\ UNCHANGED <<owned, bound, routes, panel, issued, flag, forgiven>>
  BY DEF WriteMetadata, user, Mid, RepairInv, RepairTypeOK, Sound, Errands
<1>2. /\ d \in Devices /\ NodeOf(o) \in Places /\ record \in [Devices -> Recs] /\ issued \in Nat
      /\ RepairTypeOK
  BY <1>0, <1>1, InHand DEF RepairInv, RepairTypeOK
<1>3. CASE record' = record /\ Goto(o, "cleanup")
  <2>1. /\ repair' \in [Staff -> Errands] /\ repair'[o].step = "cleanup"
        /\ repair'[o].held = repair[o].held
        /\ repair'[o].left = repair[o].left /\ repair'[o].failed = repair[o].failed
        /\ repair'[o].alone = repair[o].alone
        /\ \A s \in Staff : s # o => repair'[s] = repair[s]
    BY <1>2, <1>3, GoesTo DEF Reissuing, Mid
  <2>2. Touches(o, d)
    BY <1>0, <1>1, <1>2, <1>3, <2>1, MayTouch DEF Reissuing, Mid
  <2>3. Goes(o, d)
    BY <2>1 DEF Goes, Mid
  <2> QED BY <1>0, <2>2, <2>3
<1>4. CASE /\ record' = [record EXCEPT ![d].place = NodeOf(o), ![d].link = repair[o].new]
           /\ Issued(o, FALSE)
  <2>1. /\ repair' \in [Staff -> Errands]
        /\ repair'[o].left = repair[o].left \ {d}
        /\ repair'[o].step = IF repair'[o].left = {} THEN "judge" ELSE "delete"
        /\ repair'[o].held = repair[o].held /\ repair'[o].alone = repair[o].alone
        /\ repair'[o].failed = FALSE => repair[o].failed = FALSE
        /\ \A s \in Staff : s # o => repair'[s] = repair[s]
    BY <1>0, <1>2, <1>4, IssuedOne
  <2>2. PICK old \in Recs : old = record[d]
    BY <1>2
  <2> DEFINE r == [old EXCEPT !.place = NodeOf(o), !.link = repair[o].new]
  <2>3. r \in Recs /\ r.place = NodeOf(o) /\ r.link = repair[o].new /\ r.uuid = old.uuid
    BY <1>1, <1>2, <2>2 DEF Recs
  <2>4. record' = [record EXCEPT ![d] = r]
    BY <1>2, <1>4, <2>2
  <2> HIDE DEF r
  <2>5. Touches(o, d)
    BY <1>0, <1>1, <1>2, <2>1, <2>3, <2>4, MayTouch DEF Reissuing, Mid
  <2>6. Fine(o) => panel[NodeOf(o)][d] = repair[o].new /\ record[d].uuid = repair[o].new
    BY <1>0, <1>1, <2>1, Known DEF Fine
  <2>7. Fine(o) => /\ record'[d].link = record'[d].uuid /\ record'[d].place = NodeOf(o)
                   /\ panel'[NodeOf(o)][d] = record'[d].uuid
    BY <1>1, <1>2, <2>2, <2>3, <2>4, <2>6
  <2>8. Goes(o, d)
    BY <2>1, <2>7 DEF Goes
  <2> QED BY <1>0, <2>5, <2>8
<1> QED BY <1>0, <1>3, <1>4 DEF WriteMetadata

LEMMA UndoStep ==
    ASSUME RepairInv, NEW o \in Staff, CleanUp(o) \/ RevertRecord(o)
    PROVE  Touches(o, Current(o)) /\ Goes(o, Current(o))
<1>0. PICK d : d = Current(o)
  OBVIOUS
<1>1. /\ repair[o].left # {} /\ repair[o].step # "idle" /\ repair[o].step \in Mid
      /\ UNCHANGED <<owned, bound, routes, issued, flag, forgiven>>
  BY DEF CleanUp, RevertRecord, user, Mid, RepairInv, RepairTypeOK, Sound
<1>2. /\ d \in Devices /\ NodeOf(o) = View(repair[o].held[d]).place /\ View(repair[o].held[d]) \in Recs
      /\ repair[o].held[d] \in Recs /\ RepairTypeOK /\ issued \in Nat
  BY <1>0, <1>1, InHand DEF RepairInv, RepairTypeOK
<1>3. PICK step \in {"revert", "restore"} : Goto(o, step)
  BY DEF CleanUp, RevertRecord
<1>4. panel' = panel \/ panel' = Put(NodeOf(o), d, 0)
  BY <1>0 DEF CleanUp, RevertRecord
<1>5. \/ record' = record
      \/ \E r \in {View(repair[o].held[d]), repair[o].held[d]} : record' = [record EXCEPT ![d] = r]
  BY <1>0 DEF CleanUp, RevertRecord
<1>6. /\ repair' \in [Staff -> Errands] /\ repair'[o].step = step
      /\ repair'[o].held = repair[o].held
      /\ repair'[o].left = repair[o].left /\ repair'[o].failed = repair[o].failed
      /\ repair'[o].alone = repair[o].alone
      /\ \A s \in Staff : s # o => repair'[s] = repair[s]
  BY <1>2, <1>3, GoesTo DEF Reissuing, Mid
<1>7. Touches(o, d)
  BY <1>0, <1>1, <1>2, <1>4, <1>5, <1>6, MayTouch DEF Reissuing, Mid
<1>8. Goes(o, d)
  BY <1>6 DEF Goes, Mid
<1> QED BY <1>0, <1>7, <1>8

LEMMA RestoreStep ==
    ASSUME RepairInv, NEW o \in Staff, RestoreRemote(o)
    PROVE  Touches(o, Current(o)) /\ Goes(o, Current(o))
<1>0. PICK d : d = Current(o)
  OBVIOUS
<1>1. /\ repair[o].left # {} /\ repair[o].step # "idle" /\ repair[o].step \in Mid
      /\ UNCHANGED <<owned, bound, routes, issued, flag, forgiven>>
      /\ Issued(o, TRUE)
  BY DEF RestoreRemote, user, Mid, RepairInv, RepairTypeOK, Sound
<1>2. PICK old \in Recs : old = View(repair[o].held[d]) /\ NodeOf(o) = old.place
  BY <1>0, <1>1, InHand
<1>3. d \in Devices /\ RepairTypeOK /\ issued \in Nat /\ record \in [Devices -> Recs]
  BY <1>0, <1>1, InHand DEF RepairInv, RepairTypeOK
<1>4. panel' = panel \/ panel' = Put(NodeOf(o), d, old.uuid)
  BY <1>0, <1>2 DEF RestoreRemote, Pushed
<1>5. record' = record \/ \E r \in Recs : record' = [record EXCEPT ![d] = r] /\ r.place = NodeOf(o)
  <2>1. CASE old.place = "de" /\ record' = [record EXCEPT ![d].place = "de", ![d].link = old.link]
    <3>1. PICK row \in Recs : row = record[d]
      BY <1>3
    <3> DEFINE r == [row EXCEPT !.place = "de", !.link = old.link]
    <3>2. r \in Recs /\ r.place = "de"
      BY <3>1, <1>2 DEF Recs, Places
    <3>3. record' = [record EXCEPT ![d] = r]
      BY <1>3, <2>1, <3>1
    <3> HIDE DEF r
    <3> QED BY <1>2, <2>1, <3>2, <3>3
  <2> QED BY <1>0, <1>2, <2>1 DEF RestoreRemote
<1>6. old.uuid \in Nat
  BY <1>2 DEF Recs
<1>7. /\ repair' \in [Staff -> Errands]
      /\ repair'[o].left = repair[o].left \ {d}
      /\ repair'[o].step = IF repair'[o].left = {} THEN "judge" ELSE "delete"
      /\ repair'[o].held = repair[o].held /\ repair'[o].alone = repair[o].alone
      /\ repair'[o].failed # FALSE
      /\ \A s \in Staff : s # o => repair'[s] = repair[s]
  BY <1>0, <1>1, <1>3, IssuedOne
<1>8. Touches(o, d)
  BY <1>0, <1>1, <1>3, <1>4, <1>5, <1>6, <1>7, MayTouch DEF Reissuing, Mid
<1>9. Goes(o, d)
  BY <1>7 DEF Goes, Fine
<1> QED BY <1>0, <1>8, <1>9

LEMMA ReissueSteps ==
    ASSUME RepairInv, NEW o \in Staff,
           \/ DeleteRemote(o) \/ AddReplacement(o) \/ SaveReplacement(o) \/ DescribeReplacement(o)
           \/ WriteMetadata(o) \/ CleanUp(o) \/ RevertRecord(o) \/ RestoreRemote(o)
    PROVE  RepairInv'
<1>1. repair[o].step \in Mid
  BY DEF DeleteRemote, AddReplacement, SaveReplacement, DescribeReplacement, WriteMetadata,
         CleanUp, RevertRecord, RestoreRemote, Mid
<1>2. Touches(o, Current(o)) /\ Goes(o, Current(o))
  BY DeleteStep, AddStep, SaveStep, DescribeStep, WriteStep, UndoStep, RestoreStep
<1> QED BY <1>1, <1>2, ReissueKeeps

-----------------------------------------------------------------------------
(* The beginning of an operation.                                           *)
LEMMA BeginStep ==
    ASSUME RepairInv, NEW o \in Staff, NEW kind \in Kinds, Begin(o, kind)
    PROVE  RepairInv'
<1>1. /\ repair[o].step = "idle" /\ RepairTypeOK
      /\ UNCHANGED <<owned, bound, routes, record, panel, issued>>
      /\ flag' = FALSE => flag = FALSE
      /\ flag' \in BOOLEAN
  BY DEF Begin, user, RepairInv, RepairTypeOK
<1>2. CASE UNCHANGED <<repair, forgiven>>
  <2>1. RepairTypeOK'
    BY <1>1, <1>2 DEF RepairTypeOK, Sound
  <2>2. OneAlone' /\ Crowded' /\ ReadRight'
    BY <1>1, <1>2 DEF RepairInv, OneAlone, Crowded, Alone, ReadRight
  <2>3. AtHome' /\ Abroad'
    BY <1>1, <1>2 DEF RepairInv, AtHome, Abroad, Quiet, Astray
  <2>4. Reissued'
    BY <1>1, <1>2 DEF RepairInv, Reissued, Alone, Anew, Halfway, Current
  <2>5. Marked' /\ RoutesMarked'
    BY <1>1, <1>2 DEF RepairInv, Marked, RoutesMarked, Quiet, Whole
  <2> QED BY <2>1, <2>2, <2>3, <2>4, <2>5 DEF RepairInv
<1>3. ASSUME NEW step \in {"routes", "delete", "sync"}, NEW alone \in BOOLEAN, alone = AtRest,
             step = "routes" => owned = {}, step = "delete" => owned # {},
             repair' = [s \in Staff |->
                 IF s = o THEN [None EXCEPT !.step = step, !.kind = kind, !.held = record,
                                            !.left = owned, !.alone = alone]
                 ELSE [repair[s] EXCEPT !.alone = repair[s].step = "idle"]],
             forgiven' = IF alone THEN forgiven ELSE forgiven \union owned
      PROVE  RepairInv'
  <2> DEFINE g == [None EXCEPT !.step = step, !.kind = kind, !.held = record,
                               !.left = owned, !.alone = alone]
  <2>1. None \in Errands
    BY DEF None, Errands, Kinds
  <2>2. /\ g \in Errands
        /\ g.step = step /\ g.held = record /\ g.left = owned /\ g.alone = alone
    BY <1>1, <1>3, <2>1 DEF Errands, Reissuing, Mid, RepairTypeOK
  <2>3. ASSUME NEW s \in Staff, s # o
        PROVE  /\ repair'[s] \in Errands
               /\ repair'[s].step = repair[s].step /\ repair'[s].held = repair[s].held
               /\ repair'[s].left = repair[s].left /\ repair'[s].new = repair[s].new
               /\ (repair'[s].alone = TRUE) => repair[s].step = "idle"
    <3>1. PICK h \in Errands : h = repair[s]
      BY <1>1 DEF RepairTypeOK
    <3>2. PICK idle \in BOOLEAN : idle = (h.step = "idle")
      OBVIOUS
    <3> DEFINE k == [h EXCEPT !.alone = idle]
    <3>3. /\ k \in Errands /\ k.step = h.step /\ k.held = h.held /\ k.left = h.left
          /\ k.new = h.new /\ k.alone = idle
      BY <3>1 DEF Errands
    <3>4. repair'[s] = k
      BY <1>3, <2>3, <3>1, <3>2
    <3> HIDE DEF k
    <3> QED BY <3>1, <3>2, <3>3, <3>4
  <2>4. repair'[o] = g
    BY <1>3
  <2> HIDE DEF g
  <2>5. repair' \in [Staff -> Errands]
    <3>1. repair' = [s \in Staff |-> repair'[s]]
      BY <1>3
    <3> QED BY <2>2, <2>3, <2>4, <3>1
  <2>6. RepairTypeOK'
    <3>1. Sound(repair[o])'
      BY <1>1, <1>3, <2>2, <2>4 DEF Sound, Mid, RepairTypeOK
    <3>2. ASSUME NEW s \in Staff, s # o PROVE Sound(repair[s])'
      BY <1>1, <2>3, <3>2 DEF Sound, RepairTypeOK
    <3> QED BY <1>1, <2>5, <3>1, <3>2 DEF RepairTypeOK
  <2>7. \A s \in Staff : Alone(s)' => s = o /\ alone = TRUE
    BY <2>2, <2>3, <2>4 DEF Alone
  <2>8. alone = TRUE => \A s \in Staff : repair[s].step = "idle"
    BY <1>3 DEF AtRest
  <2>9. OneAlone'
    BY <2>3, <2>7, <2>8 DEF OneAlone
  <2>10. Crowded'
    BY <1>1, <1>3, <2>2, <2>3, <2>4, <2>8 DEF Crowded
  <2>11. AtHome'
    <3> SUFFICES ASSUME NEW d \in owned, Home[d] = "de"
                 PROVE  /\ record[d].place = "de" /\ panel["dk"][d] = 0
                        /\ \A s \in Staff : repair'[s].step # "idle" => repair'[s].held[d].place = "de"
      BY <1>1 DEF AtHome
    <3>1. /\ record[d].place = "de" /\ panel["dk"][d] = 0
          /\ \A s \in Staff : repair[s].step # "idle" => repair[s].held[d].place = "de"
      BY DEF RepairInv, AtHome
    <3>2. repair'[o].held[d].place = "de"
      BY <2>2, <2>4, <3>1
    <3>3. ASSUME NEW s \in Staff, s # o, repair'[s].step # "idle" PROVE repair'[s].held[d].place = "de"
      BY <2>3, <3>1, <3>3
    <3> QED BY <3>1, <3>2, <3>3
  <2>12. Abroad'
    <3>1. CASE alone = FALSE
      BY <1>1, <1>3, <3>1 DEF Abroad
    <3>2. CASE alone = TRUE
      <4>1. Quiet /\ forgiven' = forgiven
        BY <1>3, <2>8, <3>2 DEF Quiet, Reissuing, Mid
      <4>2. ASSUME NEW d \in owned, Home[d] = "dk", d \notin forgiven
            PROVE  Astray(record[d], d) => record[d].link = 0
        BY <4>1, <4>2 DEF RepairInv, Abroad
      <4>3. ASSUME NEW d \in owned PROVE Astray(record[d], d)' <=> Astray(record[d], d)
        BY <1>1 DEF Astray
      <4>4. \A s \in Staff : repair'[s].step \in Reissuing => s = o
        BY <2>3, <2>8, <3>2 DEF Reissuing, Mid
      <4>5. ASSUME NEW d \in owned, Astray(repair[o].held[d], d)' PROVE Astray(record[d], d)'
        BY <1>1, <2>2, <2>4, <4>5
      <4> QED BY <1>1, <2>2, <2>4, <4>1, <4>2, <4>3, <4>4, <4>5 DEF Abroad
    <3> QED BY <3>1, <3>2
  <2>13. ReadRight'
    BY <1>1, <2>2, <2>4, <2>7 DEF ReadRight
  <2>14. Reissued'
    <3>1. repair'[o].step \in Reissuing => repair'[o].left = owned /\ Halfway(repair[o], Current(o))'
      BY <1>3, <2>2, <2>4 DEF Halfway
    <3> QED BY <1>1, <2>7, <3>1 DEF Reissued
  <2>15. Marked'
    <3>1. Quiet' => Quiet
      BY <1>1, <2>3 DEF Quiet, Reissuing, Mid
    <3> QED BY <1>1, <1>3, <3>1 DEF RepairInv, Marked, Whole
  <2>16. RoutesMarked'
    BY <1>1, <1>3 DEF RepairInv, RoutesMarked
  <2> QED BY <2>6, <2>9, <2>10, <2>11, <2>12, <2>13, <2>14, <2>15, <2>16 DEF RepairInv
<1>4. PICK linked \in BOOLEAN : linked = (owned = {} /\ routes # "none" /\ kind # "soft")
  OBVIOUS
<1>5. PICK nothing \in BOOLEAN : nothing = (~access \/ (owned = {} /\ ~linked /\ ~bound))
  OBVIOUS
<1>6. CASE nothing
  BY <1>2, <1>4, <1>5, <1>6 DEF Begin
<1>7. CASE ~nothing
  <2>1. PICK step \in {"routes", "delete", "sync"} :
           step = IF linked THEN "routes" ELSE IF kind = "deep" THEN "delete" ELSE "sync"
    OBVIOUS
  <2>2. step = "routes" => owned = {}
    BY <1>4, <2>1
  <2>3. step = "delete" => owned # {}
    <3> SUFFICES ASSUME step = "delete", owned = {} PROVE FALSE
      OBVIOUS
    <3>1. ~linked /\ kind # "soft"
      BY <2>1
    <3>2. routes = "none"
      BY <1>4, <3>1
    <3>3. bound # TRUE
      BY <1>1, <3>2 DEF RepairTypeOK
    <3>4. bound \in BOOLEAN
      BY <1>1 DEF RepairTypeOK
    <3> QED BY <1>5, <1>7, <3>1, <3>3, <3>4
  <2>4. PICK alone \in BOOLEAN : alone = AtRest
    BY DEF AtRest
  <2>5. /\ repair' = [s \in Staff |->
              IF s = o THEN [None EXCEPT !.step = step, !.kind = kind, !.held = record,
                                         !.left = owned, !.alone = alone]
              ELSE [repair[s] EXCEPT !.alone = repair[s].step = "idle"]]
        /\ forgiven' = IF alone THEN forgiven ELSE forgiven \union owned
    BY <1>4, <1>5, <1>7, <2>1, <2>4 DEF Begin
  <2> QED BY <1>3, <2>2, <2>3, <2>4, <2>5
<1> QED BY <1>6, <1>7

-----------------------------------------------------------------------------
(* An operation ends or begins its syncs; rows and nodes stay.              *)
LEMMA Leaves ==
    ASSUME RepairInv, NEW o \in Staff, repair[o].step # "idle",
           UNCHANGED <<owned, record, panel>>,
           \A s \in Staff : s # o => repair'[s] = repair[s],
           \/ repair'[o].step = "idle"
           \/ /\ repair'[o].step = "sync" /\ repair'[o].held = record
              /\ repair'[o].alone = repair[o].alone,
           ~Alone(o) => owned \subseteq forgiven',
           \A d \in owned : Home[d] = "dk" /\ d \notin forgiven' /\ Astray(record[d], d) => record[d].link = 0
    PROVE  OneAlone' /\ Crowded' /\ AtHome' /\ Abroad' /\ ReadRight' /\ Reissued'
<1>1. /\ \A s \in Staff : s # o => ~Alone(s)
      /\ Alone(o) => \A s \in Staff : s # o => repair[s].step = "idle"
  BY Solo
<1>2. \A s \in Staff : s # o => Alone(s)' = Alone(s) /\ repair'[s].step = repair[s].step
  BY DEF Alone
<1>3. Alone(o)' => Alone(o)
  BY DEF Alone
<1>4. OneAlone'
  BY <1>1, <1>2, <1>3 DEF OneAlone
<1>5. Crowded'
  <2> SUFFICES ASSUME NEW s \in Staff, repair'[s].step # "idle", repair'[s].alone = FALSE
               PROVE  owned \subseteq forgiven'
    BY DEF Crowded
  <2>1. ~Alone(o)
    BY <1>1 DEF Alone
  <2> QED BY <2>1
<1>6. AtHome'
  <2> SUFFICES ASSUME NEW d \in owned, Home[d] = "de"
               PROVE  /\ record[d].place = "de" /\ panel["dk"][d] = 0
                      /\ \A s \in Staff : repair'[s].step # "idle" => repair'[s].held[d].place = "de"
    BY DEF AtHome
  <2> QED BY DEF RepairInv, AtHome
<1>7. Abroad'
  <2> SUFFICES ASSUME NEW d \in owned, Home[d] = "dk", d \notin forgiven'
               PROVE  /\ Astray(record[d], d) => record[d].link = 0
                      /\ \A s \in Staff : repair'[s].step \notin Reissuing
    BY DEF Abroad, Astray
  <2>1. Alone(o)
    OBVIOUS
  <2> QED BY <1>1, <2>1 DEF Reissuing, Mid
<1>8. ReadRight'
  BY <1>1, <1>2 DEF ReadRight, Alone
<1>9. Reissued'
  <2>1. \A s \in Staff : ~(Alone(s)' /\ repair'[s].step \in Reissuing)
    BY <1>1, <1>2 DEF Reissuing, Mid
  <2> QED BY <2>1 DEF Reissued
<1> QED BY <1>4, <1>5, <1>6, <1>7, <1>8, <1>9

(* While one syncs, what nobody has forgiven is as it is at rest.           *)
LEMMA RestsAbroad ==
    ASSUME RepairInv, NEW o \in Staff, repair[o].step \in {"sync", "routes"},
           NEW d \in owned, Home[d] = "dk", d \notin forgiven, Astray(record[d], d)
    PROVE  record[d].link = 0
<1>1. \A s \in Staff : s # o => repair[s].step = "idle"
  BY Solo
<1>2. Quiet
  BY <1>1 DEF Quiet, Reissuing, Mid
<1> QED BY <1>2 DEF RepairInv, Abroad

LEMMA RoutesStep ==
    ASSUME RepairInv, NEW o \in Staff, SyncRoutes(o)
    PROVE  RepairInv'
<1>1. /\ repair[o].step = "routes" /\ owned = {} /\ RepairTypeOK
      /\ UNCHANGED <<owned, bound, record, panel, issued>>
  BY DEF SyncRoutes, user, RepairInv, RepairTypeOK, Sound
<1>2. PICK x \in {"done", "fails"} :
         /\ routes' = IF Took(x) THEN "synced" ELSE routes
         /\ flag' = (~Took(x) /\ repair[o].kind # "deep")
         /\ forgiven' = IF Took(x) THEN forgiven \ {"routes"}
                        ELSE IF repair[o].kind = "deep" THEN forgiven \union {"routes"} ELSE forgiven
         /\ IF Took(x) /\ repair[o].kind = "deep" THEN GoSync(o, TRUE) ELSE Quit(o)
  BY DEF SyncRoutes
<1>3. /\ repair' \in [Staff -> Errands]
      /\ \A s \in Staff : s # o => repair'[s] = repair[s]
      /\ \/ repair'[o].step = "idle"
         \/ /\ repair'[o].step = "sync" /\ repair'[o].held = record /\ repair'[o].left = owned
            /\ repair'[o].alone = repair[o].alone
  BY <1>1, <1>2, GoesToSync, Ends
<1>4. RepairTypeOK'
  <2>1. Sound(repair[o])'
    BY <1>1, <1>3 DEF Sound, Mid, RepairTypeOK
  <2>2. \A s \in Staff : s # o => Sound(repair[s])'
    BY <1>1, <1>3 DEF RepairTypeOK, Sound
  <2>3. flag' \in BOOLEAN
    BY <1>2
  <2>4. routes' \in {"none", "stale", "synced"} /\ (bound = TRUE => routes' # "none")
    BY <1>1, <1>2 DEF RepairTypeOK
  <2> QED BY <1>1, <1>3, <2>1, <2>2, <2>3, <2>4 DEF RepairTypeOK
<1>5. OneAlone' /\ Crowded' /\ AtHome' /\ Abroad' /\ ReadRight' /\ Reissued'
  BY <1>1, <1>3, Leaves
<1>6. Marked'
  BY <1>1 DEF Marked
<1>7. RoutesMarked'
  BY <1>2 DEF RoutesMarked
<1> QED BY <1>4, <1>5, <1>6, <1>7 DEF RepairInv

LEMMA JudgeStep ==
    ASSUME RepairInv, NEW o \in Staff, JudgeReissue(o)
    PROVE  RepairInv'
<1>1. /\ repair[o].step = "judge" /\ repair[o].left = {} /\ owned # {} /\ RepairTypeOK
      /\ UNCHANGED <<owned, bound, routes, record, panel, issued>>
      /\ routes = "none" /\ repair[o].failed \in BOOLEAN /\ repair[o].alone \in BOOLEAN
  BY DEF JudgeReissue, Judged, user, RepairInv, RepairTypeOK, Sound, Errands
<1>2. PICK failed \in BOOLEAN : failed = repair[o].failed
  BY <1>1
<1>3. PICK displaced : displaced = {d \in owned : Home[d] # "de" /\ repair[o].held[d].link = 0}
  OBVIOUS
<1>4. /\ flag' = failed
      /\ IF failed THEN Quit(o) ELSE GoSync(o, TRUE)
      /\ forgiven' = (IF failed \/ ~repair[o].alone THEN forgiven
                      ELSE forgiven \ {d \in owned : Home[d] = "de"}) \union displaced
  BY <1>2, <1>3 DEF JudgeReissue, Judged
<1>5. /\ repair' \in [Staff -> Errands]
      /\ \A s \in Staff : s # o => repair'[s] = repair[s]
      /\ \/ repair'[o].step = "idle"
         \/ /\ repair'[o].step = "sync" /\ repair'[o].held = record /\ repair'[o].left = owned
            /\ repair'[o].alone = repair[o].alone
  BY <1>1, <1>4, GoesToSync, Ends
<1>6. RepairTypeOK'
  <2>1. Sound(repair[o])'
    BY <1>1, <1>5 DEF Sound, Mid, RepairTypeOK
  <2>2. \A s \in Staff : s # o => Sound(repair[s])'
    BY <1>1, <1>5 DEF RepairTypeOK, Sound
  <2> QED BY <1>1, <1>4, <1>5, <2>1, <2>2 DEF RepairTypeOK
<1>7. ~Alone(o) => owned \subseteq forgiven'
  BY <1>1, <1>4, Solo DEF Alone
(* A device made elsewhere and not displaced was read where it is.          *)
<1>8. ASSUME NEW d \in owned, Home[d] = "dk", d \notin forgiven' PROVE ~Astray(repair[o].held[d], d)
  <2>1. d \notin forgiven /\ d \notin displaced
    BY <1>4, <1>8
  <2>2. repair[o].held[d].link # 0
    BY <1>3, <1>8, <2>1
  <2> QED BY <1>1, <1>8, <2>1, <2>2 DEF RepairInv, Abroad, Reissuing
<1>9. \A d \in owned : Home[d] = "dk" /\ d \notin forgiven' => ~Astray(record[d], d)
  BY <1>8 DEF Astray
<1>10. OneAlone' /\ Crowded' /\ AtHome' /\ Abroad' /\ ReadRight' /\ Reissued'
  BY <1>1, <1>5, <1>7, <1>9, Leaves
<1>11. Marked'
  <2> SUFFICES ASSUME flag' = FALSE, NEW d \in owned, d \notin forgiven' PROVE Whole(d)
    BY <1>1 DEF Marked, Whole
  <2>1. failed = FALSE
    BY <1>4
  <2>2. Alone(o)
    BY <1>7
  <2>3. Anew(repair[o], d)
    BY <1>1, <1>2, <2>1, <2>2 DEF RepairInv, Reissued, Reissuing
  <2>4. d \in Devices /\ Home[d] \in {"de", "dk"}
    BY <1>1, RepairAssumption DEF RepairTypeOK, Places
  <2>5. CASE Home[d] = "de"
    <3>1. record[d].place = "de" /\ panel["dk"][d] = 0
      BY <2>5 DEF RepairInv, AtHome
    <3> QED BY <2>3, <3>1 DEF Anew, Whole, Places
  <2>6. CASE Home[d] = "dk"
    <3>1. record[d].place = "dk" /\ panel["de"][d] = 0
      BY <1>8, <2>6 DEF Astray
    <3> QED BY <2>3, <3>1 DEF Anew, Whole, Places
  <2> QED BY <2>4, <2>5, <2>6
<1>12. RoutesMarked'
  BY <1>1 DEF RoutesMarked
<1> QED BY <1>6, <1>10, <1>11, <1>12 DEF RepairInv

LEMMA RetryStep ==
    ASSUME RepairInv, NEW o \in Staff, RetrySync(o)
    PROVE  RepairInv'
<1>1. /\ repair[o].step = "sync" /\ RepairTypeOK /\ GoSync(o, TRUE)
      /\ UNCHANGED <<owned, bound, routes, record, panel, issued, flag, forgiven>>
  BY DEF RetrySync, user, RepairInv
<1>2. /\ repair' \in [Staff -> Errands]
      /\ \A s \in Staff : s # o => repair'[s] = repair[s]
      /\ repair'[o].step = "sync" /\ repair'[o].held = record /\ repair'[o].left = owned
      /\ repair'[o].alone = repair[o].alone
  BY <1>1, GoesToSync
<1>3. RepairTypeOK'
  BY <1>1, <1>2 DEF RepairTypeOK, Sound, Mid
<1>4. Quiet' <=> Quiet
  BY <1>1, <1>2 DEF Quiet, Reissuing, Mid
<1>5. \A d \in owned : Home[d] = "dk" /\ d \notin forgiven /\ Astray(record[d], d) => record[d].link = 0
  BY <1>1, RestsAbroad
<1>6. OneAlone' /\ Crowded' /\ AtHome' /\ Abroad' /\ ReadRight' /\ Reissued'
  BY <1>1, <1>2, <1>5, Solo, Leaves
<1>7. Marked' /\ RoutesMarked'
  BY <1>1, <1>4 DEF RepairInv, Marked, RoutesMarked, Whole
<1> QED BY <1>3, <1>6, <1>7 DEF RepairInv

LEMMA EndStep ==
    ASSUME RepairInv, NEW o \in Staff, EndSync(o)
    PROVE  RepairInv'
<1>1. /\ repair[o].step = "sync" /\ RepairTypeOK /\ Quit(o)
      /\ UNCHANGED <<owned, bound, routes, record, panel, issued>>
      /\ flag \in BOOLEAN
  BY DEF EndSync, user, RepairInv, RepairTypeOK
<1>2. PICK failed \in BOOLEAN : failed = repair[o].failed
  BY <1>1 DEF RepairTypeOK, Errands
<1>3. PICK deep \in BOOLEAN : deep = (repair[o].kind = "deep")
  OBVIOUS
<1>4. /\ flag' = (failed \/ (deep /\ flag))
      /\ forgiven' = IF failed \/ deep THEN forgiven
                     ELSE forgiven \union {d \in owned : ~Whole(d)}
                                   \union (IF routes = "stale" THEN {"routes"} ELSE {})
  BY <1>2, <1>3 DEF EndSync
<1>5. /\ repair' \in [Staff -> Errands] /\ repair'[o].step = "idle"
      /\ \A s \in Staff : s # o => repair'[s] = repair[s]
  BY <1>1, Ends
<1>6. RepairTypeOK'
  BY <1>1, <1>4, <1>5 DEF RepairTypeOK, Sound, Mid
<1>7. Quiet' <=> Quiet
  BY <1>1, <1>5 DEF Quiet, Reissuing, Mid
<1>8. forgiven \subseteq forgiven'
  BY <1>4
<1>9. \A d \in owned : Home[d] = "dk" /\ d \notin forgiven' /\ Astray(record[d], d) => record[d].link = 0
  BY <1>1, <1>8, RestsAbroad
<1>10. OneAlone' /\ Crowded' /\ AtHome' /\ Abroad' /\ ReadRight' /\ Reissued'
  BY <1>1, <1>5, <1>8, <1>9, Solo, Leaves
<1>11. Marked' /\ RoutesMarked'
  <2>1. CASE flag' = FALSE /\ deep
    <3>1. flag = FALSE /\ forgiven' = forgiven
      BY <1>1, <1>4, <2>1
    <3> QED BY <1>1, <1>7, <3>1 DEF RepairInv, Marked, RoutesMarked, Whole
  <2>2. CASE flag' = FALSE /\ ~deep
    <3>1. /\ \A d \in owned : Whole(d) \/ d \in forgiven'
          /\ routes = "stale" => "routes" \in forgiven'
      BY <1>4, <2>2
    <3> QED BY <1>1, <3>1 DEF Marked, RoutesMarked, Whole
  <2>3. CASE flag' # FALSE
    BY <2>3 DEF Marked, RoutesMarked
  <2> QED BY <2>1, <2>2, <2>3
<1> QED BY <1>6, <1>10, <1>11 DEF RepairInv

LEMMA DeathStep ==
    ASSUME RepairInv, NEW o \in Staff, RepairDies(o)
    PROVE  RepairInv'
<1>1. /\ repair[o].step # "idle" /\ RepairTypeOK /\ Quit(o)
      /\ UNCHANGED <<owned, bound, routes, record, panel, issued, flag>>
      /\ forgiven' = IF repair[o].step \in {"sync", "routes"} THEN forgiven ELSE forgiven \union owned
  BY DEF RepairDies, user, RepairInv
<1>2. /\ repair' \in [Staff -> Errands] /\ repair'[o].step = "idle"
      /\ \A s \in Staff : s # o => repair'[s] = repair[s]
  BY <1>1, Ends
<1>3. RepairTypeOK'
  BY <1>1, <1>2 DEF RepairTypeOK, Sound, Mid
<1>4. repair[o].step \in {"sync", "routes"} => (Quiet' <=> Quiet)
  BY <1>2 DEF Quiet, Reissuing, Mid
<1>5. repair[o].step \notin {"sync", "routes"} => owned \subseteq forgiven'
  BY <1>1
<1>6. forgiven \subseteq forgiven'
  BY <1>1
<1>7. \A d \in owned : Home[d] = "dk" /\ d \notin forgiven' /\ Astray(record[d], d) => record[d].link = 0
  BY <1>5, <1>6, RestsAbroad
<1>8. OneAlone' /\ Crowded' /\ AtHome' /\ Abroad' /\ ReadRight' /\ Reissued'
  BY <1>1, <1>2, <1>6, <1>7, Solo, Leaves
<1>9. Marked' /\ RoutesMarked'
  BY <1>1, <1>4, <1>5, <1>6 DEF RepairInv, Marked, RoutesMarked, Whole
<1> QED BY <1>3, <1>8, <1>9 DEF RepairInv

-----------------------------------------------------------------------------
(* A sync pushes one row.  Alone, it has read the row as it is.             *)
LEMMA SyncStep ==
    ASSUME RepairInv, NEW o \in Staff, SyncDevice(o)
    PROVE  RepairInv'
<1>0. PICK d : d = Current(o)
  OBVIOUS
<1>1. /\ repair[o].step = "sync" /\ repair[o].left # {} /\ repair[o].step # "idle" /\ RepairTypeOK
      /\ UNCHANGED <<owned, bound, routes, issued, flag, forgiven>>
  BY DEF SyncDevice, user, RepairInv
<1>2. /\ d \in repair[o].left /\ d \in owned /\ d \in Devices
      /\ repair[o].held[d] \in Recs
      /\ record \in [Devices -> Recs] /\ panel \in [Places -> [Devices -> Nat]]
  BY <1>0, <1>1, InHand DEF RepairTypeOK
<1>3. PICK r \in Recs : r = repair[o].held[d]
  BY <1>2
<1>4. PICK seen : seen = IF repair[o].kind = "manual" THEN r ELSE View(r)
  OBVIOUS
<1>5. /\ seen \in Recs /\ seen.place \in Places /\ seen.uuid = r.uuid
      /\ r.link # 0 => seen = r
      /\ seen = r \/ seen.place = "de"
  <2>1. View(r) \in Recs /\ View(r).uuid = r.uuid
    BY <1>3 DEF View, Recs, Places
  <2>2. (r.link # 0 => View(r) = r) /\ (View(r) = r \/ View(r).place = "de")
    BY <1>3 DEF View, Recs
  <2> QED BY <1>3, <1>4, <2>1, <2>2 DEF Recs
<1>6. PICK u \in Nat : u = seen.uuid
  BY <1>5 DEF Recs
<1>7. panel' = panel \/ panel' = Put(seen.place, d, u)
  BY <1>0, <1>3, <1>4, <1>6 DEF SyncDevice, Pushed
<1>8. \/ record' = record
      \/ seen # r /\ record' = [record EXCEPT ![d].place = "de", ![d].link = 0]
  BY <1>0, <1>3, <1>4 DEF SyncDevice
<1>9. /\ panel' \in [Places -> [Devices -> Nat]]
      /\ \A q \in Places : \A e \in Devices : q # seen.place \/ e # d => panel'[q][e] = panel[q][e]
      /\ panel'[seen.place][d] \in {panel[seen.place][d], u}
  <2>1. PICK p \in Places : p = seen.place
    BY <1>5
  <2>2. PICK put : put = Put(p, d, u)
    OBVIOUS
  <2>3. /\ put \in [Places -> [Devices -> Nat]] /\ put[p][d] = u
        /\ \A q \in Places : \A e \in Devices : q # p \/ e # d => put[q][e] = panel[q][e]
    BY <1>2, <2>2, Puts
  <2> QED BY <1>2, <1>7, <2>1, <2>2, <2>3
<1>10. /\ record' \in [Devices -> Recs]
       /\ \A e \in Devices : e # d => record'[e] = record[e]
       /\ record'[d] = record[d] \/ (seen # r /\ record'[d].place = "de" /\ record'[d].link = 0)
  <2>1. CASE record' = record
    BY <1>2, <2>1
  <2>2. CASE seen # r /\ record' = [record EXCEPT ![d].place = "de", ![d].link = 0]
    <3>1. PICK row \in Recs : row = record[d]
      BY <1>2
    <3> DEFINE new == [row EXCEPT !.place = "de", !.link = 0]
    <3>2. new \in Recs /\ new.place = "de" /\ new.link = 0
      BY <3>1 DEF Recs, Places
    <3>3. record' = [record EXCEPT ![d] = new]
      BY <1>2, <2>2, <3>1
    <3> HIDE DEF new
    <3> QED BY <1>2, <2>2, <3>2, <3>3
  <2> QED BY <1>8, <2>1, <2>2
<1>11. PICK h \in Errands : h = repair[o]
  BY <1>1 DEF RepairTypeOK
<1>12. PICK failed \in BOOLEAN :
          repair' = [repair EXCEPT ![o].left = h.left \ {d}, ![o].failed = failed]
  <2>1. PICK x \in {"done", "lost", "fails"} :
           repair' = [repair EXCEPT ![o].left = @ \ {d}, ![o].failed = @ \/ x # "done"]
    BY <1>0 DEF SyncDevice
  <2>2. PICK failed \in BOOLEAN : failed = (repair[o].failed \/ x # "done")
    OBVIOUS
  <2> QED BY <1>1, <1>11, <2>1, <2>2 DEF RepairTypeOK
<1>13. /\ repair' \in [Staff -> Errands] /\ repair'[o].step = "sync"
       /\ repair'[o].held = repair[o].held /\ repair'[o].left = repair[o].left \ {d}
       /\ repair'[o].alone = repair[o].alone
       /\ \A s \in Staff : s # o => repair'[s] = repair[s]
  <2> DEFINE g == [h EXCEPT !.left = h.left \ {d}, !.failed = failed]
  <2>1. /\ g \in Errands /\ g.step = h.step /\ g.held = h.held /\ g.left = h.left \ {d}
        /\ g.alone = h.alone
    BY <1>11 DEF Errands
  <2>2. repair' = [repair EXCEPT ![o] = g] /\ repair \in [Staff -> Errands]
    BY <1>1, <1>11, <1>12 DEF RepairTypeOK
  <2> HIDE DEF g
  <2> QED BY <1>1, <1>11, <2>1, <2>2
<1>14. /\ \A s \in Staff : repair'[s].step = repair[s].step /\ repair'[s].alone = repair[s].alone
                            /\ repair'[s].held = repair[s].held
       /\ \A s \in Staff : Alone(s)' = Alone(s)
       /\ Quiet' = Quiet
  <2>1. \A s \in Staff : repair'[s].step = repair[s].step /\ repair'[s].alone = repair[s].alone
                           /\ repair'[s].held = repair[s].held
    BY <1>1, <1>13
  <2> QED BY <2>1 DEF Alone, Quiet
<1>15. RepairTypeOK'
  <2>1. Sound(repair[o])'
    BY <1>1, <1>13 DEF RepairTypeOK, Sound, Mid
  <2>2. \A s \in Staff : s # o => Sound(repair[s])'
    BY <1>1, <1>13 DEF RepairTypeOK, Sound
  <2> QED BY <1>1, <1>9, <1>10, <1>13, <2>1, <2>2 DEF RepairTypeOK
<1>16. OneAlone' /\ Crowded'
  BY <1>1, <1>14 DEF RepairInv, OneAlone, Crowded
<1>17. AtHome'
  <2> SUFFICES ASSUME NEW e \in owned, Home[e] = "de"
               PROVE  record'[e].place = "de" /\ panel'["dk"][e] = 0
    BY <1>1, <1>14 DEF RepairInv, AtHome
  <2>1. e \in Devices /\ record[e].place = "de" /\ panel["dk"][e] = 0 /\ repair[o].held[e].place = "de"
    BY <1>1 DEF RepairInv, AtHome, RepairTypeOK
  <2>2. e = d => seen.place = "de"
    BY <1>3, <1>5, <2>1
  <2> QED BY <1>9, <1>10, <2>1, <2>2 DEF Places
(* What nobody has forgiven, the sync has read as it is.                    *)
<1>18. d \notin forgiven => Alone(o) /\ r = record[d] /\ \A s \in Staff : repair[s].step \notin Reissuing
  <2> HAVE d \notin forgiven
  <2>1. Alone(o) /\ \A s \in Staff : s # o => repair[s].step = "idle"
    BY <1>1, <1>2, Solo
  <2>2. r = record[d]
    BY <1>1, <1>2, <1>3, <2>1 DEF RepairInv, ReadRight
  <2> QED BY <1>1, <2>1, <2>2 DEF Reissuing, Mid
<1>19. ASSUME d \notin forgiven, record[d].link # 0
       PROVE  record'[d] = record[d] /\ seen = record[d]
  BY <1>5, <1>10, <1>18, <1>19
<1>20. Abroad'
  <2> SUFFICES ASSUME NEW e \in owned, Home[e] = "dk", e \notin forgiven
               PROVE  /\ Quiet /\ Astray(record[e], e)' => record'[e].link = 0
                      /\ \A s \in Staff : repair[s].step \in Reissuing /\ Astray(repair[s].held[e], e)'
                                            => repair[s].held[e].link = 0
    BY <1>1, <1>14 DEF Abroad
  <2>1. e \in Devices
    BY <1>1 DEF RepairTypeOK
  <2>2. CASE e # d
    <3>1. record'[e] = record[e] /\ panel'["de"][e] = panel["de"][e]
      BY <1>9, <1>10, <2>1, <2>2 DEF Places
    <3>2. /\ Quiet /\ Astray(record[e], e) => record[e].link = 0
          /\ \A s \in Staff : repair[s].step \in Reissuing /\ Astray(repair[s].held[e], e)
                               => repair[s].held[e].link = 0
      BY DEF RepairInv, Abroad
    <3>3. Astray(record[e], e)' => Astray(record[e], e)
      BY <3>1 DEF Astray
    <3>4. ASSUME NEW s \in Staff, Astray(repair[s].held[e], e)' PROVE Astray(repair'[s].held[e], e)
      BY <3>1, <3>4 DEF Astray
    <3> QED BY <1>14, <3>1, <3>2, <3>3, <3>4
  <2>3. CASE e = d
    <3> SUFFICES ASSUME Quiet, record'[d].link # 0 PROVE ~Astray(record[d], d)'
      BY <1>18, <2>3
    <3>1. record[d].link # 0
      BY <1>10
    <3>2. ~Astray(record[d], d)
      BY <2>3, <3>1 DEF RepairInv, Abroad
    <3>3. record'[d] = record[d] /\ seen.place = "dk"
      BY <1>19, <2>3, <3>1, <3>2 DEF Astray
    <3> QED BY <1>9, <2>1, <2>3, <3>2, <3>3 DEF Astray, Places
  <2> QED BY <2>2, <2>3
<1>21. ReadRight'
  <2> SUFFICES ASSUME Alone(o), NEW e \in repair[o].left \ {d} PROVE repair[o].held[e] = record'[e]
    <3>1. \A s \in Staff : s # o => ~Alone(s)
      BY <1>1, Solo
    <3> QED BY <1>13, <1>14, <3>1 DEF ReadRight
  <2>1. e \in Devices /\ repair[o].held[e] = record[e]
    BY <1>1 DEF RepairInv, ReadRight, RepairTypeOK, Sound
  <2> QED BY <1>10, <2>1
<1>22. Reissued'
  <2>1. \A s \in Staff : ~(Alone(s) /\ repair[s].step \in Reissuing)
    BY <1>1, Solo DEF Reissuing, Mid
  <2> QED BY <1>14, <2>1 DEF Reissued
<1>23. Marked'
  <2> SUFFICES ASSUME flag = FALSE, Quiet, NEW e \in owned, e \notin forgiven PROVE Whole(e)'
    BY <1>1, <1>14 DEF Marked
  <2>1. Whole(e) /\ e \in Devices
    BY <1>1 DEF RepairInv, Marked, RepairTypeOK
  <2>2. CASE e # d
    BY <1>9, <1>10, <2>1, <2>2 DEF Whole
  <2>3. CASE e = d
    <3>1. record[d].link = record[d].uuid /\ record[d].uuid # 0
      BY <1>2, <2>1, <2>3 DEF Whole, Recs
    <3>2. record'[d] = record[d] /\ seen = record[d]
      BY <1>19, <2>3, <3>1
    <3> QED BY <1>6, <1>9, <2>1, <2>3, <3>2 DEF Whole
  <2> QED BY <2>2, <2>3
<1>24. RoutesMarked'
  BY <1>1 DEF RepairInv, RoutesMarked
<1> QED BY <1>15, <1>16, <1>17, <1>20, <1>21, <1>22, <1>23, <1>24 DEF RepairInv

-----------------------------------------------------------------------------
LEMMA RepairsKeep == RepairInv /\ [RepairNext]_repairVars => RepairInv'
<1> SUFFICES ASSUME RepairInv, [RepairNext]_repairVars PROVE RepairInv'
  OBVIOUS
<1>1. CASE UNCHANGED repairVars
  <2>1. UNCHANGED <<owned, bound, routes, record, panel, issued, flag, repair, forgiven>>
    BY <1>1 DEF repairVars
  <2>2. RepairTypeOK' /\ OneAlone' /\ Crowded' /\ ReadRight'
    BY <2>1 DEF RepairInv, RepairTypeOK, Sound, OneAlone, Crowded, Alone, ReadRight
  <2>3. AtHome' /\ Abroad'
    BY <2>1 DEF RepairInv, AtHome, Abroad, Quiet, Astray
  <2>4. Reissued'
    BY <2>1 DEF RepairInv, Reissued, Alone, Anew, Halfway, Current
  <2>5. Marked' /\ RoutesMarked'
    BY <2>1 DEF RepairInv, Marked, RoutesMarked, Quiet, Whole
  <2> QED BY <2>2, <2>3, <2>4, <2>5 DEF RepairInv
<1>2. CASE RepairNext
  BY <1>2, BeginStep, RoutesStep, ReissueSteps, JudgeStep, SyncStep, RetryStep, EndStep, DeathStep
     DEF RepairNext, RepairStep
<1> QED BY <1>1, <1>2

(* Between repairs nothing is in hand: a user without the mark has every    *)
(* device whole and no route behind, but for what has been forgiven.        *)
THEOREM ClearedUsersAreWhole == RepairSpec => []ClearedIsWhole
<1>1. RepairInv => ClearedIsWhole
  <2> SUFFICES ASSUME RepairInv, AtRest, ~flag PROVE ClearedIsWhole
    BY DEF ClearedIsWhole
  <2>1. flag = FALSE
    BY DEF RepairInv, RepairTypeOK
  <2>2. Quiet
    BY DEF AtRest, Quiet, Reissuing, Mid
  <2> QED BY <2>1, <2>2 DEF RepairInv, Marked, RoutesMarked, ClearedIsWhole
<1> QED BY <1>1, RepairStarts, RepairsKeep, PTL DEF RepairSpec
=============================================================================
