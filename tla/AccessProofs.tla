---------------------------- MODULE AccessProofs ----------------------------
(***************************************************************************)
(* Proofs about a user's access: the clock and what its devices carry      *)
(* (AccessSync), and the slots of the subscription page                    *)
(* (SubscriptionSlots).                                                    *)
(***************************************************************************)
EXTENDS AccessSync, SubscriptionSlots, FiniteSetTheorems, WellFoundedInduction, TLAPS

(* A set of naturals has a least element. *)
LEMMA LeastExists ==
    ASSUME NEW S, S \subseteq Nat, S # {}
    PROVE  \E x \in S : \A y \in S : x <= y
<1>1. \E x \in S : \A y \in S : ~(<<y, x>> \in OpToRel(<, Nat))
  BY NatLessThanWellFounded, WFMin
<1>2. PICK x \in S : \A y \in S : ~(y < x)
  BY <1>1 DEF OpToRel
<1>3. \A y \in S : x <= y
  BY <1>2
<1> QED BY <1>3

LEMMA MinIsLeast == ASSUME NEW S, S \subseteq Nat, S # {} PROVE Min(S) \in S
  BY LeastExists DEF Min

-----------------------------------------------------------------------------
(* The clock.  What a task carries. *)
Kinds == {"none", "payment", "dashboard", "repair", "soft", "channel", "revoke", "purge",
          "recover", "resume", "pause"}
Causes == {"none", "unsynced", "stale", "cleared", "silent", "died", "fellBack"}
Tasking ==
    [step : {"free", "look", "push", "extend", "channel"}, kind : Kinds, exp : Nat,
     todo : SUBSET Devices, failed : BOOLEAN, again : BOOLEAN, paused : BOOLEAN]

UserTypeOK ==
    /\ now \in Nat /\ paid \in Nat /\ trial \in Nat
    /\ trialUsed \in BOOLEAN /\ paused \in BOOLEAN /\ blocked \in BOOLEAN
AccessTypeOK ==
    /\ UserTypeOK
    /\ flag \in BOOLEAN /\ pauseDone \in BOOLEAN
    /\ devices \subseteq Devices /\ node \in [Devices -> Nat] /\ blame \in [Devices -> Causes]
    /\ op \in [Workers -> Tasking]
    /\ \A t \in Workers : op[t].kind = "purge" => op[t].failed = FALSE

LEMMA ExpIsTime == ASSUME UserTypeOK PROVE Exp \in Nat /\ (Exp = 0 \/ Exp > now)
  BY DEF UserTypeOK, Exp, PaidActive, TrialWindow, TrialPaused

LEMMA OpSet ==
    ASSUME AccessTypeOK, NEW t \in Workers, NEW r \in Tasking, SetOp(t, r)
    PROVE  /\ op' \in [Workers -> Tasking] /\ op'[t] = r
           /\ \A u \in Workers : u # t => op'[u] = op[u]
  BY DEF AccessTypeOK, SetOp

LEMMA FreeTask == Free \in Tasking /\ Free.step = "free" /\ Free.failed = FALSE /\ Free.kind = "none"
  BY DEF Free, Tasking, Kinds

LEMMA SyncTask ==
    ASSUME AccessTypeOK, NEW t \in Workers, NEW kind \in Kinds, NEW exp \in Nat, Sync(t, kind, exp)
    PROVE  /\ op' \in [Workers -> Tasking]
           /\ op'[t].step = "look" /\ op'[t].kind = kind /\ op'[t].failed = FALSE
           /\ op'[t].exp = exp
           /\ \A u \in Workers : u # t => op'[u] = op[u]
<1> DEFINE r == [Free EXCEPT !.step = "look", !.kind = kind, !.exp = exp]
<1>1. r \in Tasking /\ r.step = "look" /\ r.kind = kind /\ r.failed = FALSE /\ r.exp = exp
  BY DEF Free, Tasking
<1>2. SetOp(t, r) BY DEF Sync
<1> HIDE DEF r
<1> QED BY <1>1, <1>2, OpSet

-----------------------------------------------------------------------------
(* A device off the clock, and who is to bring it back. *)
Off(d) == (node[d] > now \/ Exp > now) /\ node[d] # Exp
Covers(t, d) ==
    /\ op[t].kind # "purge"
    /\ \/ op[t].step = "look"
       \/ op[t].step = "push" /\ (d \in op[t].todo \/ op[t].failed = TRUE)
Seen(d) == flag = TRUE \/ blame[d] # "none" \/ \E t \in Workers : Covers(t, d)
Watched == \A d \in devices : Off(d) => Seen(d)

AccessInv == AccessTypeOK /\ Watched

LEMMA AccessStarts == AccessInit => AccessInv
<1> SUFFICES ASSUME AccessInit PROVE AccessInv
  OBVIOUS
<1>1. PaidDays \in Nat \ {0} /\ TrialDays \in Nat \ {0}
  BY AccessAssumption
<1>a. \/ paid = 0 /\ trial = 0 /\ trialUsed = FALSE
      \/ paid = 0 /\ trial = 1 + TrialDays /\ trialUsed = TRUE
      \/ paid = 1 + PaidDays /\ trial = 0 /\ trialUsed = FALSE
  BY DEF AccessInit
<1>b. paid \in Nat /\ trial \in Nat
  BY <1>1, <1>a
<1>c. trialUsed \in BOOLEAN
  BY <1>a, Zenon
<1>2. UserTypeOK
  BY <1>b, <1>c DEF AccessInit, UserTypeOK
<1>3. paid + trial \in Nat
  BY <1>2 DEF UserTypeOK
<1>4. AccessTypeOK
  BY <1>2, <1>3, FreeTask DEF AccessInit, AccessTypeOK, Causes
<1>5. \A d \in devices : node[d] = paid + trial /\ paid + trial > 0
  BY DEF AccessInit
<1>6. Exp = paid + trial
  BY <1>1 DEF AccessInit, Exp, PaidActive, TrialWindow, TrialPaused
<1>7. Watched
  BY <1>5, <1>6 DEF Watched, Off
<1> QED BY <1>4, <1>7 DEF AccessInv

LEMMA SyncWatches ==
    ASSUME AccessTypeOK, NEW t \in Workers, NEW kind \in Kinds \ {"purge"}, NEW exp \in Nat,
           Sync(t, kind, exp)
    PROVE  Watched'
<1>1. op'[t].step = "look" /\ op'[t].kind = kind
  BY SyncTask
<1>2. \A d : Covers(t, d)'
  BY <1>1 DEF Covers
<1> QED BY <1>2 DEF Watched, Seen

LEMMA SyncTypes ==
    ASSUME AccessTypeOK, NEW t \in Workers, NEW kind \in Kinds, NEW exp \in Nat,
           Sync(t, kind, exp)
    PROVE  op' \in [Workers -> Tasking] /\ \A u \in Workers : op'[u].kind = "purge" => op'[u].failed = FALSE
<1>1. /\ op' \in [Workers -> Tasking] /\ op'[t].failed = FALSE
      /\ \A u \in Workers : u # t => op'[u] = op[u]
  BY SyncTask
<1> QED BY <1>1 DEF AccessTypeOK

(* A worker who covered nothing may do anything that leaves the devices and *)
(* the clock alone.                                                         *)
LEMMA IdleStep ==
    ASSUME AccessInv, NEW t \in Workers, op[t].step \notin {"look", "push"},
           \A u \in Workers : u # t => op'[u] = op[u],
           UNCHANGED <<now, user, flag, devices, node, blame>>
    PROVE  Watched'
<1>1. \A d : ~Covers(t, d)
  BY DEF Covers
<1>2. \A u \in Workers : \A d : Covers(u, d) => Covers(u, d)'
  BY <1>1 DEF Covers
<1>3. \A d \in devices : Off(d)' => Off(d)
  BY DEF Off, Exp, PaidActive, TrialWindow, TrialPaused, user
<1> QED BY <1>2, <1>3 DEF AccessInv, Watched, Seen, user

-----------------------------------------------------------------------------
(* One lemma for each action. *)
LEMMA PayStep ==
    ASSUME AccessInv, NEW t \in Handlers, Pay(t) PROVE AccessInv'
<1> t \in Workers BY DEF Workers
<1>1. UserTypeOK'
  BY AccessAssumption DEF AccessInv, AccessTypeOK, UserTypeOK, Pay, Operation
<1>2. Sync(t, "payment", 0) /\ "payment" \in Kinds \ {"purge"} /\ AccessTypeOK
  BY DEF Pay, Kinds, AccessInv
<1>3. AccessTypeOK'
  BY <1>1, <1>2, SyncTypes DEF AccessTypeOK, Pay, Operation, file
<1> QED BY <1>2, <1>3, SyncWatches DEF AccessInv

LEMMA ExtendReadStep ==
    ASSUME AccessInv, NEW t \in Handlers, ExtendRead(t) PROVE AccessInv'
<1> t \in Workers BY DEF Workers
<1> DEFINE r == [Free EXCEPT !.step = "extend", !.kind = "dashboard", !.exp = paid]
<1>1. r \in Tasking /\ r.kind = "dashboard"
  BY DEF Free, Tasking, Kinds, AccessInv, AccessTypeOK, UserTypeOK
<1>2. SetOp(t, r) /\ op[t].step = "free"
  BY FreeTask DEF ExtendRead, Operation
<1> HIDE DEF r
<1>3. /\ op' \in [Workers -> Tasking] /\ op'[t] = r
      /\ \A u \in Workers : u # t => op'[u] = op[u]
  BY <1>1, <1>2, OpSet DEF AccessInv
<1>4. UNCHANGED <<now, user, flag, devices, node, blame, file>>
  BY DEF ExtendRead, Operation
<1>5. AccessTypeOK'
  BY <1>1, <1>3, <1>4 DEF AccessInv, AccessTypeOK, UserTypeOK, user, file
<1> QED BY <1>2, <1>3, <1>4, <1>5, IdleStep DEF AccessInv

LEMMA ExtendWriteStep ==
    ASSUME AccessInv, NEW t \in Handlers, ExtendWrite(t) PROVE AccessInv'
<1> t \in Workers BY DEF Workers
<1>1. UserTypeOK'
  BY AccessAssumption DEF AccessInv, AccessTypeOK, UserTypeOK, ExtendWrite, Tasking
<1>2. Sync(t, "dashboard", 0) /\ "dashboard" \in Kinds \ {"purge"} /\ AccessTypeOK
  BY DEF ExtendWrite, Kinds, AccessInv
<1>3. AccessTypeOK'
  BY <1>1, <1>2, SyncTypes DEF AccessTypeOK, ExtendWrite, file
<1> QED BY <1>2, <1>3, SyncWatches DEF AccessInv

LEMMA SetBlockStep ==
    ASSUME AccessInv, NEW t \in Handlers, SetBlock(t) PROVE AccessInv'
<1> t \in Workers BY DEF Workers
<1>1. UserTypeOK'
  BY DEF AccessInv, AccessTypeOK, UserTypeOK, SetBlock, Operation
<1>2. Sync(t, "dashboard", 0) /\ "dashboard" \in Kinds \ {"purge"} /\ AccessTypeOK
  BY DEF SetBlock, Kinds, AccessInv
<1>3. AccessTypeOK'
  BY <1>1, <1>2, SyncTypes DEF AccessTypeOK, SetBlock, Operation, file
<1> QED BY <1>2, <1>3, SyncWatches DEF AccessInv

LEMMA RemoveTariffStep ==
    ASSUME AccessInv, NEW t \in Handlers, RemoveTariff(t) PROVE AccessInv'
<1> t \in Workers BY DEF Workers
<1>1. UserTypeOK'
  BY DEF AccessInv, AccessTypeOK, UserTypeOK, RemoveTariff, Operation
<1>2. Sync(t, "dashboard", 0) /\ "dashboard" \in Kinds \ {"purge"} /\ AccessTypeOK
  BY DEF RemoveTariff, Kinds, AccessInv
<1>3. AccessTypeOK'
  BY <1>1, <1>2, SyncTypes DEF AccessTypeOK, RemoveTariff, Operation, file
<1> QED BY <1>2, <1>3, SyncWatches DEF AccessInv

LEMMA ActivateTrialStep ==
    ASSUME AccessInv, NEW t \in Handlers, ActivateTrial(t) PROVE AccessInv'
<1> t \in Workers BY DEF Workers
<1>0. trial' \in Nat
  BY AccessAssumption DEF AccessInv, AccessTypeOK, UserTypeOK, ActivateTrial
<1>1. UserTypeOK' /\ UNCHANGED <<flag, devices, node, file>>
  BY <1>0 DEF AccessInv, AccessTypeOK, UserTypeOK, ActivateTrial, Operation
<1>2. "dashboard" \in Kinds \ {"purge"} /\ AccessTypeOK
  BY DEF Kinds, AccessInv
<1>3. CASE Sync(t, "dashboard", 0) /\ UNCHANGED blame
  <2>1. AccessTypeOK'
    BY <1>1, <1>2, <1>3, SyncTypes DEF AccessTypeOK, file
  <2> QED BY <1>2, <1>3, <2>1, SyncWatches DEF AccessInv
<1>4. CASE /\ UNCHANGED op
           /\ blame' = [d \in Devices |-> IF d \in devices THEN "unsynced" ELSE blame[d]]
  <2>1. AccessTypeOK'
    BY <1>1, <1>4 DEF AccessInv, AccessTypeOK, Causes, file
  <2>2. \A d \in devices' : blame'[d] = "unsynced"
    BY <1>1, <1>4 DEF AccessInv, AccessTypeOK
  <2> QED BY <2>1, <2>2 DEF AccessInv, Watched, Seen
<1> QED BY <1>3, <1>4 DEF ActivateTrial

LEMMA RepairStep ==
    ASSUME AccessInv, NEW t \in Handlers, Repair(t) PROVE AccessInv'
<1> t \in Workers BY DEF Workers
<1>1. UserTypeOK'
  BY DEF AccessInv, AccessTypeOK, UserTypeOK, Repair, Operation, user
<1>2. PICK kind \in {"repair", "soft"} : Sync(t, kind, 0)
  BY DEF Repair
<1>3. kind \in Kinds \ {"purge"} /\ AccessTypeOK
  BY DEF Kinds, AccessInv
<1>4. AccessTypeOK'
  BY <1>1, <1>2, <1>3, SyncTypes DEF AccessTypeOK, Repair, Operation, file
<1> QED BY <1>2, <1>3, <1>4, SyncWatches DEF AccessInv

(* A stage of the worker that loads the user. *)
LEMMA LoadStep ==
    ASSUME AccessInv, NEW r \in Tasking, Pass, SetOp(Worker, r),
           r.kind = "purge" => r.failed = FALSE
    PROVE  AccessInv'
<1>1. Worker \in Workers /\ op[Worker].step = "free"
  BY FreeTask DEF Workers, Pass, Operation
<1>2. /\ op' \in [Workers -> Tasking] /\ op'[Worker] = r
      /\ \A u \in Workers : u # Worker => op'[u] = op[u]
  BY <1>1, OpSet DEF AccessInv
<1>3. UNCHANGED <<now, user, flag, devices, node, blame, file>>
  BY DEF Pass, Operation
<1>4. AccessTypeOK'
  BY <1>2, <1>3 DEF AccessInv, AccessTypeOK, UserTypeOK, user, file
<1> QED BY <1>1, <1>2, <1>3, <1>4, IdleStep DEF AccessInv

LEMMA LoadsStep ==
    ASSUME AccessInv, LoadChannel \/ LoadRevocation \/ LoadPurge \/ LoadRecovery
    PROVE  AccessInv'
<1> USE DEF Free, Tasking, Kinds
<1>0. UserTypeOK BY DEF AccessInv, AccessTypeOK
<1>1. CASE LoadChannel
  <2> DEFINE r == [Free EXCEPT !.step = "channel", !.kind = "channel", !.paused = TrialPaused]
  <2>1. r \in Tasking /\ r.kind = "channel"
    BY <1>0 DEF UserTypeOK, TrialPaused, TrialWindow, PaidActive
  <2>2. Pass /\ SetOp(Worker, r) BY <1>1 DEF LoadChannel
  <2> HIDE DEF r
  <2> QED BY <2>1, <2>2, LoadStep
<1>2. CASE LoadRevocation
  <2> DEFINE r == [Free EXCEPT !.step = "look", !.kind = "revoke", !.again = TRUE, !.exp = Marker]
  <2>1. r \in Tasking /\ r.kind = "revoke"
    BY <1>0 DEF UserTypeOK, Marker
  <2>2. Pass /\ SetOp(Worker, r) BY <1>2 DEF LoadRevocation
  <2> HIDE DEF r
  <2> QED BY <2>1, <2>2, LoadStep
<1>3. CASE LoadPurge
  <2> DEFINE r == [Free EXCEPT !.step = "look", !.kind = "purge"]
  <2>1. r \in Tasking /\ r.failed = FALSE
    OBVIOUS
  <2>2. Pass /\ SetOp(Worker, r) BY <1>3 DEF LoadPurge
  <2> HIDE DEF r
  <2> QED BY <2>1, <2>2, LoadStep
<1>4. CASE LoadRecovery
  <2> DEFINE r == [Free EXCEPT !.step = "look", !.kind = "recover", !.exp = Exp]
  <2>1. r \in Tasking /\ r.kind = "recover"
    BY <1>0, ExpIsTime
  <2>2. Pass /\ SetOp(Worker, r) BY <1>4 DEF LoadRecovery, Sync
  <2> HIDE DEF r
  <2> QED BY <2>1, <2>2, LoadStep
<1> QED BY <1>1, <1>2, <1>3, <1>4

LEMMA ResumeStep == ASSUME AccessInv, Resume PROVE AccessInv'
<1> Worker \in Workers BY DEF Workers
<1>1. UserTypeOK' /\ trial \in Nat
  BY DEF AccessInv, AccessTypeOK, UserTypeOK, Resume
<1>2. Sync(Worker, "resume", trial) /\ "resume" \in Kinds \ {"purge"} /\ AccessTypeOK
  BY DEF Resume, Kinds, AccessInv
<1>3. AccessTypeOK'
  BY <1>1, <1>2, SyncTypes DEF AccessTypeOK, Resume, file
<1> QED BY <1>1, <1>2, <1>3, SyncWatches DEF AccessInv

LEMMA BackToRest ==
    ASSUME AccessInv, NEW t \in Workers, SetOp(t, Free)
    PROVE  /\ op' \in [Workers -> Tasking] /\ op'[t] = Free
           /\ \A u \in Workers : u # t => op'[u] = op[u]
           /\ \A u \in Workers : op'[u].kind = "purge" => op'[u].failed = FALSE
<1>1. Free \in Tasking /\ Free.kind = "none" /\ AccessTypeOK
  BY FreeTask DEF AccessInv
<1>2. /\ op' \in [Workers -> Tasking] /\ op'[t] = Free
      /\ \A u \in Workers : u # t => op'[u] = op[u]
  BY <1>1, OpSet
<1> QED BY <1>1, <1>2 DEF AccessTypeOK

LEMMA StillMemberStep == ASSUME AccessInv, StillMember PROVE AccessInv'
<1> Worker \in Workers BY DEF Workers
<1>1. /\ SetOp(Worker, Free) /\ op[Worker].step = "channel"
      /\ UNCHANGED <<now, user, flag, devices, node, blame, file>>
  BY DEF StillMember
<1>2. AccessTypeOK'
  BY <1>1, BackToRest DEF AccessInv, AccessTypeOK, UserTypeOK, user, file
<1> QED BY <1>1, <1>2, BackToRest, IdleStep DEF AccessInv

LEMMA PauseStep == ASSUME AccessInv, Pause PROVE AccessInv'
<1> Worker \in Workers BY DEF Workers
<1>0. AccessTypeOK /\ op[Worker] \in Tasking /\ op[Worker].paused \in BOOLEAN
  BY DEF AccessInv, AccessTypeOK, Tasking
<1>1. UserTypeOK' /\ pauseDone' \in BOOLEAN
  BY <1>0 DEF AccessTypeOK, UserTypeOK, Pause, TrialWindow, PaidActive
<1>2. UNCHANGED <<now, paid, trial, trialUsed, blocked, flag, devices, node, blame>>
  BY DEF Pause
<1>3. CASE op[Worker].paused /\ pauseDone
  <2>1. SetOp(Worker, Free) /\ op[Worker].step = "channel" /\ paused' = paused
    BY <1>0, <1>3 DEF Pause, AccessTypeOK, UserTypeOK
  <2>2. AccessTypeOK'
    BY <1>0, <1>1, <1>2, <2>1, BackToRest DEF AccessTypeOK
  <2> QED BY <1>2, <2>1, <2>2, BackToRest, IdleStep DEF AccessInv, user
<1>4. CASE ~(op[Worker].paused /\ pauseDone)
  <2>1. Sync(Worker, "pause", 0) /\ "pause" \in Kinds \ {"purge"}
    BY <1>4 DEF Pause, Kinds
  <2>2. AccessTypeOK'
    BY <1>0, <1>1, <1>2, <2>1, SyncTypes DEF AccessTypeOK
  <2> QED BY <1>0, <2>1, <2>2, SyncWatches DEF AccessInv
<1> QED BY <1>3, <1>4

-----------------------------------------------------------------------------
LEMMA Covering ==
    ASSUME AccessInv, NEW t \in Workers,
           \A u \in Workers : u # t => op'[u] = op[u],
           UNCHANGED <<now, user, flag, devices, node>>,
           \A d \in devices : Off(d) /\ (Covers(t, d) \/ blame[d] # "none") =>
               flag' = TRUE \/ blame'[d] # "none" \/ Covers(t, d)'
    PROVE  Watched'
<1>1. \A u \in Workers : u # t => \A d : Covers(u, d) => Covers(u, d)'
  BY DEF Covers
<1>2. \A d \in devices : Off(d)' => Off(d)
  BY DEF Off, Exp, PaidActive, TrialWindow, TrialPaused, user
<1> QED BY <1>1, <1>2 DEF AccessInv, Watched, Seen, user

LEMMA LookStep == ASSUME AccessInv, NEW t \in Workers, Look(t) PROVE AccessInv'
<1> DEFINE k == op[t].kind
<1> DEFINE exp == CASE k \in Reads /\ (k = "soft" \/ ~op[t].again) -> Exp
                    [] k = "revoke" -> 0
                    [] OTHER -> op[t].exp
<1> DEFINE carried == IF k = "revoke" THEN op[t].exp ELSE exp
<1> DEFINE r == [op[t] EXCEPT !.step = "push", !.todo = devices, !.exp = carried]
<1>1. AccessTypeOK /\ op[t] \in Tasking /\ UNCHANGED <<now, user, devices, node, file, blame>>
  BY DEF AccessInv, AccessTypeOK, Look
<1>2. op[t].exp \in Nat /\ Exp \in Nat /\ devices \in SUBSET Devices
  BY <1>1, ExpIsTime DEF Tasking, AccessTypeOK
<1>3. carried \in Nat
  BY <1>2
<1>4. \/ SetOp(t, Free) /\ flag' = TRUE
      \/ SetOp(t, Free) /\ flag' \in BOOLEAN /\ devices = {}
      \/ SetOp(t, r) /\ UNCHANGED flag
  BY DEF Look
<1> HIDE DEF exp, carried
<1>5. /\ r \in Tasking /\ r.step = "push" /\ r.todo = devices
      /\ r.kind = op[t].kind /\ r.failed = op[t].failed
  BY <1>1, <1>2, <1>3 DEF Tasking
<1> HIDE DEF r, k
<1>6. CASE SetOp(t, Free) /\ flag' = TRUE
  <2>1. AccessTypeOK'
    BY <1>1, <1>6, BackToRest DEF AccessTypeOK, UserTypeOK, user, file
  <2> QED BY <1>6, <2>1 DEF AccessInv, Watched, Seen
<1>7. CASE SetOp(t, Free) /\ flag' \in BOOLEAN /\ devices = {}
  <2>1. AccessTypeOK'
    BY <1>1, <1>7, BackToRest DEF AccessTypeOK, UserTypeOK, user, file
  <2> QED BY <1>1, <1>7, <2>1 DEF AccessInv, Watched
<1>8. CASE SetOp(t, r) /\ UNCHANGED flag
  <2>1. /\ op' \in [Workers -> Tasking] /\ op'[t] = r
        /\ \A u \in Workers : u # t => op'[u] = op[u]
    BY <1>1, <1>5, <1>8, OpSet
  <2>2. AccessTypeOK'
    BY <1>1, <1>5, <1>8, <2>1 DEF AccessTypeOK, UserTypeOK, user, file
  <2>3. \A d \in devices : Covers(t, d) => Covers(t, d)'
    BY <1>5, <2>1 DEF Covers
  <2> QED BY <1>1, <1>8, <2>1, <2>2, <2>3, Covering DEF AccessInv
<1> QED BY <1>4, <1>6, <1>7, <1>8

LEMMA PushStep == ASSUME AccessInv, NEW t \in Workers, Push(t) PROVE AccessInv'
<1> DEFINE d == Min(op[t].todo)
<1> DEFINE rest == [op[t] EXCEPT !.todo = @ \ {d}]
<1> DEFINE lost == [rest EXCEPT !.failed = TRUE]
<1>1. /\ AccessTypeOK /\ op[t] \in Tasking /\ UNCHANGED <<now, user, flag, devices, file>>
      /\ op[t].step = "push" /\ op[t].kind # "purge"
  BY DEF AccessInv, AccessTypeOK, Push
<1>2. op[t].todo \subseteq Devices /\ op[t].todo # {}
  BY <1>1 DEF Tasking, Push
<1>3. d \in op[t].todo /\ d \in Devices
  BY <1>2, MinIsLeast, AccessAssumption
<1>4. \/ /\ node' = [node EXCEPT ![d] = Carried(t)]
         /\ blame' = [blame EXCEPT ![d] = IF Carried(t) = Exp THEN "none" ELSE "stale"]
         /\ SetOp(t, rest)
      \/ SetOp(t, lost) /\ UNCHANGED <<node, blame>>
  BY DEF Push
<1>5. Carried(t) \in Nat
  BY <1>1 DEF Carried, Tasking
<1> HIDE DEF d
<1>6. /\ rest \in Tasking /\ rest.step = "push" /\ rest.kind = op[t].kind
      /\ rest.todo = op[t].todo \ {d} /\ rest.failed = op[t].failed
  BY <1>1 DEF Tasking
<1> HIDE DEF rest
<1>7. /\ lost \in Tasking /\ lost.step = "push" /\ lost.kind = op[t].kind /\ lost.failed = TRUE
  BY <1>1, <1>6 DEF Tasking
<1> HIDE DEF lost
<1>8. CASE /\ node' = [node EXCEPT ![d] = Carried(t)]
           /\ blame' = [blame EXCEPT ![d] = IF Carried(t) = Exp THEN "none" ELSE "stale"]
           /\ SetOp(t, rest)
  <2>1. /\ op' \in [Workers -> Tasking] /\ op'[t] = rest
        /\ \A u \in Workers : u # t => op'[u] = op[u]
    BY <1>1, <1>6, <1>8, OpSet
  <2>2. /\ node' \in [Devices -> Nat] /\ blame' \in [Devices -> Causes]
        /\ node'[d] = Carried(t)
        /\ Carried(t) # Exp => blame'[d] = "stale"
        /\ \A e \in Devices : e # d => node'[e] = node[e] /\ blame'[e] = blame[e]
    BY <1>1, <1>3, <1>5, <1>8 DEF AccessTypeOK, Causes
  <2>3. AccessTypeOK'
    BY <1>1, <1>6, <2>1, <2>2 DEF AccessTypeOK, UserTypeOK, user, file
  <2>4. Exp' = Exp
    BY <1>1 DEF Exp, PaidActive, TrialWindow, TrialPaused, user
  <2>5. ASSUME NEW e \in devices', Off(e)' PROVE Seen(e)'
    <3>1. e \in devices /\ e \in Devices
      BY <1>1 DEF AccessTypeOK
    <3>2. CASE e = d
      <4>1. node'[e] # Exp'
        BY <2>5 DEF Off
      <4>2. blame'[e] = "stale"
        BY <2>2, <2>4, <3>2, <4>1
      <4> QED BY <4>2 DEF Seen
    <3>3. CASE e # d
      <4>1. Off(e) /\ blame'[e] = blame[e]
        BY <1>1, <2>2, <2>4, <2>5, <3>1, <3>3 DEF Off
      <4>2. \A u \in Workers : Covers(u, e) => Covers(u, e)'
        BY <1>1, <1>6, <2>1, <3>3 DEF Covers
      <4> QED BY <1>1, <3>1, <4>1, <4>2 DEF AccessInv, Watched, Seen
    <3> QED BY <3>2, <3>3
  <2> QED BY <2>3, <2>5 DEF AccessInv, Watched
<1>9. CASE SetOp(t, lost) /\ UNCHANGED <<node, blame>>
  <2>1. /\ op' \in [Workers -> Tasking] /\ op'[t] = lost
        /\ \A u \in Workers : u # t => op'[u] = op[u]
    BY <1>1, <1>7, <1>9, OpSet
  <2>2. AccessTypeOK'
    BY <1>1, <1>7, <1>9, <2>1 DEF AccessTypeOK, UserTypeOK, user, file
  <2>3. \A e : Covers(t, e)'
    BY <1>1, <1>7, <2>1 DEF Covers
  <2> QED BY <1>1, <1>9, <2>1, <2>2, <2>3, Covering DEF AccessInv
<1> QED BY <1>4, <1>8, <1>9

LEMMA PurgeStep == ASSUME AccessInv, Purge PROVE AccessInv'
<1> DEFINE d == Min(op[Worker].todo)
<1> DEFINE rest == [op[Worker] EXCEPT !.todo = @ \ {d}]
<1>1. /\ Worker \in Workers /\ AccessTypeOK /\ op[Worker] \in Tasking
      /\ UNCHANGED <<now, user, flag, file, blame>>
      /\ op[Worker].step = "push" /\ op[Worker].kind = "purge"
  BY DEF AccessInv, AccessTypeOK, Purge, Workers
<1>2. op[Worker].todo \subseteq Devices /\ op[Worker].todo # {}
  BY <1>1 DEF Tasking, Purge
<1>3. d \in op[Worker].todo /\ d \in Devices
  BY <1>2, MinIsLeast, AccessAssumption
<1>4. \/ node' = [node EXCEPT ![d] = 0] /\ devices' = devices \ {d}
      \/ UNCHANGED <<node, devices>>
  BY DEF Purge
<1>5. SetOp(Worker, rest)
  BY DEF Purge
<1> HIDE DEF d
<1>6. /\ rest \in Tasking /\ rest.kind = "purge" /\ rest.failed = op[Worker].failed
  BY <1>1 DEF Tasking
<1> HIDE DEF rest
<1>7. /\ op' \in [Workers -> Tasking] /\ op'[Worker] = rest
      /\ \A u \in Workers : u # Worker => op'[u] = op[u]
  BY <1>1, <1>5, <1>6, OpSet
<1>8. /\ node' \in [Devices -> Nat] /\ devices' \subseteq devices
      /\ \A e \in devices' : node'[e] = node[e]
  BY <1>1, <1>3, <1>4 DEF AccessTypeOK
<1>9. AccessTypeOK'
  BY <1>1, <1>6, <1>7, <1>8 DEF AccessTypeOK, UserTypeOK, user, file
<1>10. \A u \in Workers : \A e : Covers(u, e) => Covers(u, e)'
  BY <1>1, <1>7 DEF Covers
<1>11. \A e \in devices' : Off(e)' => e \in devices /\ Off(e)
  BY <1>1, <1>8 DEF Off, Exp, PaidActive, TrialWindow, TrialPaused, user
<1> QED BY <1>1, <1>9, <1>10, <1>11 DEF AccessInv, Watched, Seen

LEMMA Blamed ==
    ASSUME AccessTypeOK, NEW cause \in Causes, cause # "none"
    PROVE  /\ Blame(cause) \in [Devices -> Causes]
           /\ \A d \in devices : Off(d) \/ blame[d] # "none" => Blame(cause)[d] # "none"
  BY DEF Blame, OffClock, Off, AccessTypeOK

LEMMA SettleStep == ASSUME AccessInv, NEW t \in Workers, Settle(t) PROVE AccessInv'
<1> DEFINE again == [op[t] EXCEPT !.step = "look", !.failed = FALSE, !.again = TRUE]
<1>1. /\ AccessTypeOK /\ op[t] \in Tasking /\ UNCHANGED <<now, user, devices, node>>
      /\ op[t].step = "push" /\ op[t].todo = {} /\ op[t].failed \in BOOLEAN /\ op[t].exp \in Nat
  BY DEF AccessInv, AccessTypeOK, Settle, Tasking
<1>2. PICK failed \in {op[t].failed} \union (IF op[t].kind \in Pages THEN {TRUE} ELSE {}) :
          IF failed /\ op[t].kind \in Retries /\ ~op[t].again
          THEN SetOp(t, again) /\ UNCHANGED <<flag, file, blame>>
          ELSE SetOp(t, Free) /\ Outcome(t, failed)
  BY DEF Settle
<1>3. failed \in BOOLEAN /\ (op[t].failed = TRUE => failed = TRUE)
  BY <1>1, <1>2
<1>4. CASE SetOp(t, again) /\ UNCHANGED <<flag, file, blame>>
  <2>1. again \in Tasking /\ again.step = "look" /\ again.kind = op[t].kind /\ again.failed = FALSE
    BY <1>1 DEF Tasking
  <2> HIDE DEF again
  <2>2. /\ op' \in [Workers -> Tasking] /\ op'[t] = again
        /\ \A u \in Workers : u # t => op'[u] = op[u]
    BY <1>1, <1>4, <2>1, OpSet
  <2>3. AccessTypeOK'
    BY <1>1, <1>4, <2>1, <2>2 DEF AccessTypeOK, UserTypeOK, user, file
  <2>4. \A d : Covers(t, d) => Covers(t, d)'
    BY <2>1, <2>2 DEF Covers
  <2> QED BY <1>1, <1>4, <2>2, <2>3, <2>4, Covering DEF AccessInv
<1>5. CASE SetOp(t, Free) /\ Outcome(t, failed)
  <2>1. /\ op' \in [Workers -> Tasking] /\ op'[t] = Free
        /\ \A u \in Workers : u # t => op'[u] = op[u]
        /\ \A u \in Workers : op'[u].kind = "purge" => op'[u].failed = FALSE
    BY <1>5, BackToRest
  <2>2. /\ Blame("cleared") \in [Devices -> Causes] /\ Blame("silent") \in [Devices -> Causes]
        /\ \A d \in devices : Off(d) \/ blame[d] # "none" =>
               Blame("cleared")[d] # "none" /\ Blame("silent")[d] # "none"
    BY <1>1, Blamed DEF Causes
  <2>3. /\ flag' \in BOOLEAN /\ pauseDone' \in BOOLEAN /\ blame' \in [Devices -> Causes]
    <3>1. flag' \in BOOLEAN /\ pauseDone' \in BOOLEAN
      BY <1>1, <1>3, <1>5 DEF Outcome, AccessTypeOK
    <3>2. blame' \in [Devices -> Causes]
      BY <1>1, <1>5, <2>2 DEF Outcome, AccessTypeOK
    <3> QED BY <3>1, <3>2
  <2>4. AccessTypeOK'
    BY <1>1, <2>1, <2>3 DEF AccessTypeOK, UserTypeOK, user
  <2>5. ASSUME NEW d \in devices, Off(d), Seen(d)
        PROVE  flag' = TRUE \/ blame'[d] # "none" \/ \E u \in Workers : u # t /\ Covers(u, d)
    <3>1. CASE blame[d] # "none"
      BY <1>5, <2>2, <2>5, <3>1 DEF Outcome
    <3>2. CASE flag = TRUE
      BY <1>3, <1>5, <2>2, <2>5, <3>2 DEF Outcome
    <3>3. CASE Covers(t, d)
      <4>1. failed = TRUE /\ op[t].kind # "purge"
        BY <1>1, <1>3, <3>3 DEF Covers
      <4> QED BY <1>5, <2>2, <2>5, <4>1 DEF Outcome
    <3> QED BY <2>5, <3>1, <3>2, <3>3 DEF Seen
  <2>6. \A u \in Workers : u # t => \A d : Covers(u, d) => Covers(u, d)'
    BY <2>1 DEF Covers
  <2>7. \A d \in devices : Off(d)' => Off(d)
    BY <1>1 DEF Off, Exp, PaidActive, TrialWindow, TrialPaused, user
  <2>8. Watched'
    BY <1>1, <2>5, <2>6, <2>7 DEF AccessInv, Watched, Seen
  <2> QED BY <2>4, <2>8 DEF AccessInv
<1> QED BY <1>2, <1>4, <1>5

LEMMA DieStep == ASSUME AccessInv, NEW t \in Workers, Die(t) PROVE AccessInv'
<1>1. /\ AccessTypeOK /\ SetOp(t, Free) /\ blame' = Blame("died")
      /\ UNCHANGED <<now, user, flag, devices, node, file>>
  BY DEF AccessInv, Die
<1>2. /\ Blame("died") \in [Devices -> Causes]
      /\ \A d \in devices : Off(d) \/ blame[d] # "none" => Blame("died")[d] # "none"
  BY <1>1, Blamed DEF Causes
<1>3. AccessTypeOK'
  BY <1>1, <1>2, BackToRest DEF AccessTypeOK, UserTypeOK, user, file
<1>4. \A u \in Workers : u # t => op'[u] = op[u]
  BY <1>1, BackToRest
<1>5. Watched'
  BY <1>1, <1>2, <1>4, Covering
<1> QED BY <1>3, <1>5 DEF AccessInv

LEMMA TickStep == ASSUME AccessInv, Tick PROVE AccessInv'
<1> DEFINE behind == PaidActive /\ paid = now + 1 /\ trial > paid /\ ~paused
<1>1. /\ AccessTypeOK /\ now' = now + 1 /\ UNCHANGED <<user, flag, devices, node, op, file>>
      /\ blame' = IF behind THEN [d \in Devices |-> IF d \in devices THEN "fellBack" ELSE blame[d]]
                  ELSE blame
  BY DEF AccessInv, Tick
<1>2. UserTypeOK /\ UserTypeOK'
  BY <1>1 DEF AccessTypeOK, UserTypeOK, user
<1>3. behind \in BOOLEAN
  BY DEF PaidActive
<1>4. Exp \in Nat /\ Exp' \in Nat /\ (Exp' = Exp \/ (Exp' = 0 /\ Exp = now + 1) \/ behind)
  <2>1. Exp \in Nat
    BY <1>2, ExpIsTime
  <2>2. Exp' \in Nat
    BY <1>2 DEF UserTypeOK, Exp, PaidActive, TrialWindow, TrialPaused
  <2>3. Exp' = Exp \/ (Exp' = 0 /\ Exp = now + 1) \/ behind
    <3>1. CASE ~PaidActive
      BY <1>1, <1>2, <3>1 DEF UserTypeOK, Exp, PaidActive, TrialWindow, TrialPaused, user
    <3>2. CASE PaidActive /\ paid > now + 1
      BY <1>1, <1>2, <3>2 DEF UserTypeOK, Exp, PaidActive, user
    <3>3. CASE PaidActive /\ paid = now + 1
      <4>1. Exp = now + 1 /\ ~PaidActive' /\ ~blocked
        BY <1>1, <1>2, <3>3 DEF UserTypeOK, Exp, PaidActive, user
      <4>2. Exp' # 0 => trial > now + 1 /\ ~paused
        BY <1>1, <1>2, <4>1 DEF UserTypeOK, Exp, TrialWindow, TrialPaused, user
      <4> QED BY <3>3, <4>1, <4>2
    <3> QED BY <1>2, <3>1, <3>2, <3>3 DEF UserTypeOK, PaidActive
  <2> QED BY <2>1, <2>2, <2>3
<1> HIDE DEF behind
<1>5. blame' \in [Devices -> Causes]
  BY <1>1, <1>3 DEF AccessTypeOK, Causes
<1>6. AccessTypeOK'
  BY <1>1, <1>2, <1>5 DEF AccessTypeOK, user, file
<1>7. \A u \in Workers : \A d : Covers(u, d) => Covers(u, d)'
  BY <1>1 DEF Covers
<1>8. CASE behind
  <2>1. \A d \in devices' : blame'[d] = "fellBack"
    BY <1>1, <1>8 DEF AccessTypeOK
  <2> QED BY <1>6, <2>1 DEF AccessInv, Watched, Seen
<1>9. CASE ~behind
  <2>1. \A d \in devices : node[d] \in Nat
    BY <1>1 DEF AccessTypeOK
  <2>2. \A d \in devices : Off(d)' => Off(d)
    BY <1>1, <1>2, <1>4, <1>9, <2>1 DEF Off, UserTypeOK
  <2> QED BY <1>1, <1>6, <1>7, <1>9, <2>2 DEF AccessInv, Watched, Seen
<1> QED BY <1>3, <1>8, <1>9

LEMMA ClockStep == AccessInv /\ [AccessNext]_accessVars => AccessInv'
<1> SUFFICES ASSUME AccessInv, [AccessNext]_accessVars PROVE AccessInv'
  OBVIOUS
<1>1. ASSUME NEW t \in Handlers, AccessRequest(t) PROVE AccessInv'
  BY <1>1, PayStep, ExtendReadStep, ExtendWriteStep, SetBlockStep, RemoveTariffStep,
     ActivateTrialStep, RepairStep DEF AccessRequest
<1>2. CASE WorkerStep
  BY <1>2, LoadsStep, ResumeStep, StillMemberStep, PauseStep, PurgeStep DEF WorkerStep
<1>3. ASSUME NEW t \in Workers, Look(t) \/ Push(t) \/ Settle(t) \/ Die(t) PROVE AccessInv'
  BY <1>3, LookStep, PushStep, SettleStep, DieStep
<1>4. CASE Tick
  BY <1>4, TickStep
<1>5. CASE UNCHANGED accessVars
  <2>1. UNCHANGED <<now, user, flag, devices, node, op, file, blame>>
    BY <1>5 DEF accessVars
  <2>2. AccessTypeOK'
    BY <2>1 DEF AccessInv, AccessTypeOK, UserTypeOK, user, file
  <2>3. \A d \in devices : Off(d)' => Off(d)
    BY <2>1 DEF Off, Exp, PaidActive, TrialWindow, TrialPaused, user
  <2>4. \A u \in Workers : \A d : Covers(u, d) => Covers(u, d)'
    BY <2>1 DEF Covers
  <2> QED BY <2>1, <2>2, <2>3, <2>4 DEF AccessInv, Watched, Seen
<1> QED BY <1>1, <1>2, <1>3, <1>4, <1>5 DEF AccessNext

(* When nobody is at work nothing covers a device: one whose expiry is not  *)
(* its user's is flagged, or what is to blame for it has been recorded.     *)
THEOREM OffTheClockIsMarked == AccessSpec => []OffClockIsMarked
<1>1. AccessInit => AccessInv
  BY AccessStarts
<1>2. AccessInv /\ [AccessNext]_accessVars => AccessInv'
  BY ClockStep
<1>3. AccessInv => OffClockIsMarked
  BY FreeTask DEF AccessInv, Watched, Off, Seen, Covers, OffClockIsMarked
<1> QED BY <1>1, <1>2, <1>3, PTL DEF AccessSpec

(* Paid days are lost to an administrator who removes the tariff, to a      *)
(* payment for a blocked user and to an extension of a row read before.     *)
THEOREM PaidDaysStay == AccessSpec => PaidDaysKept
<1> DEFINE Lost == \/ paid' = 0 /\ trial' = 0
                   \/ blocked
                   \/ \E t \in Handlers : op[t].step = "extend" /\ op[t].exp # paid
<1>1. AccessInv /\ [AccessNext]_accessVars => [paid' < paid => Lost]_accessVars
  <2> SUFFICES ASSUME AccessInv, AccessNext, paid' < paid PROVE Lost
    OBVIOUS
  <2>1. /\ now \in Nat /\ paid \in Nat /\ PaidDays \in Nat /\ AdminDays \in Nat
        /\ \A t \in Workers : op[t].exp \in Nat
    BY AccessAssumption DEF AccessInv, AccessTypeOK, UserTypeOK, Tasking
  <2>2. ~UNCHANGED paid
    BY <2>1
  <2>3. PICK t \in Handlers : Pay(t) \/ ExtendWrite(t) \/ RemoveTariff(t)
    BY <2>2 DEF AccessNext, AccessRequest, WorkerStep, ExtendRead, SetBlock, ActivateTrial,
       Repair, LoadChannel, LoadRevocation, LoadPurge, LoadRecovery, Pass, Resume, StillMember,
       Pause, Purge, Look, Push, Settle, Die, Tick, user
  <2>4. CASE Pay(t)
    BY <2>1, <2>4 DEF Pay, PaidActive
  <2>5. CASE ExtendWrite(t)
    <3>1. op[t].step = "extend" /\ op[t].exp \in Nat
      BY <2>1, <2>5 DEF ExtendWrite, Workers
    <3>2. op[t].exp # paid
      BY <2>1, <2>5, <3>1 DEF ExtendWrite
    <3> QED BY <3>1, <3>2
  <2>6. CASE RemoveTariff(t)
    BY <2>6 DEF RemoveTariff
  <2> QED BY <2>3, <2>4, <2>5, <2>6
<1>2. AccessInit => AccessInv
  BY AccessStarts
<1>3. AccessInv /\ [AccessNext]_accessVars => AccessInv'
  BY ClockStep
<1> QED BY <1>1, <1>2, <1>3, PTL DEF AccessSpec, PaidDaysKept

-----------------------------------------------------------------------------
(* The slots.  What a request or sync carries. *)
Carrying(h) ==
    /\ h = [step |-> h.step, todo |-> h.todo, whole |-> h.whole, create |-> h.create,
            live |-> h.live, lim |-> h.lim, seen |-> h.seen, fresh |-> h.fresh, next |-> h.next]
    /\ h.lim \in Nat /\ h.seen \in [Keys -> Rows] /\ h.next \in {"idle", "bindAgain"}
SlotTypeOK ==
    /\ route \in [Keys -> Rows] /\ limit \in Slots /\ legacy \in Nat
    /\ task = [t \in Tasks |-> task[t]]
    /\ \A t \in Tasks : Carrying(task[t])

(* A row, once there, stays; a sync's reading of it is never ahead of it. *)
RowsStay == \A k \in Keys : route[k] = NoRoute \/ route[k].status # "none"
Known(rows, h) ==
    \A k \in Keys : h.seen[k] # NoRoute =>
        /\ rows[k] # NoRoute
        /\ k[1] \notin XrayCountries => h.seen[k].link # "other"
SeenIsThere == \A t \in Tasks : Known(route, task[t])

(* On a 3x-ui panel one task at a time has created a client whose row is    *)
(* still to be written, and it describes a row that is its own.             *)
Saving(h, k) == h.step = "save" /\ k = Head(h.todo)
Describing(h, k) == h.step = "describe" /\ k = Head(h.todo)
OneCreates ==
    \A k \in Keys : k[1] \notin XrayCountries =>
        \A t \in Tasks :
            /\ Saving(task[t], k) =>
                  /\ route[k] = NoRoute /\ k \in client
                  /\ \A u \in Tasks : Saving(task[u], k) => u = t
            /\ Describing(task[t], k) => task[t].fresh = TRUE /\ route[k] # NoRoute

(* A row of a 3x-ui panel has its client, and no link of another one. *)
Panelled ==
    \A k \in Keys : route[k] # NoRoute /\ k[1] \notin XrayCountries =>
        k \in client /\ route[k].link # "other"

Exclusive ==
    revived = {} =>
        /\ \A s \in Slots : \A p, q \in Held(s) : p = q
        /\ \A r, s \in Slots : \A p \in Held(r) : p \in Held(s) => r = s

PageInv == SlotTypeOK /\ RowsStay /\ SeenIsThere /\ OneCreates /\ Panelled
SlotInv == PageInv /\ Exclusive

LEMMA NoRow ==
    /\ NoRoute \in Rows /\ NoRoute.status = "none" /\ NoRoute.link = "none"
    /\ NoRoute.bound = NoPhone
  BY DEF NoRoute, Rows

LEMMA IdleTask ==
    /\ Carrying(Idle) /\ Idle.step = "idle" /\ Idle.lim = 0
    /\ \A k \in Keys : Idle.seen[k] = NoRoute
<1>1. Idle.seen \in [Keys -> Rows]
  BY NoRow DEF Idle
<1> QED BY <1>1 DEF Idle, Carrying

LEMMA TaskSet ==
    ASSUME SlotTypeOK, NEW t \in Tasks, NEW h, Carrying(h), SetTask(t, h)
    PROVE  /\ task' = [u \in Tasks |-> task'[u]] /\ task'[t] = h
           /\ \A u \in Tasks : u # t => task'[u] = task[u]
           /\ \A u \in Tasks : Carrying(task'[u])
<1>1. task' = [u \in Tasks |-> IF u = t THEN h ELSE task[u]]
  BY DEF SlotTypeOK, SetTask
<1> QED BY <1>1 DEF SlotTypeOK

LEMMA Forgets ==
    ASSUME NEW rows, NEW h, Carrying(h), Known(rows, h), NEW k, NEW g,
           g = [h EXCEPT !.step = "sync", !.todo = Tail(h.todo),
                         !.seen[k] = NoRoute, !.fresh = FALSE]
    PROVE  Carrying(g) /\ Known(rows, g) /\ g.step = "sync"
<1>1. /\ g.step = "sync" /\ g.seen = [h.seen EXCEPT ![k] = NoRoute]
      /\ g.lim = h.lim /\ g.next = h.next
  BY DEF Carrying
<1>2. g = [step |-> "sync", todo |-> Tail(h.todo), whole |-> h.whole, create |-> h.create,
           live |-> h.live, lim |-> h.lim, seen |-> [h.seen EXCEPT ![k] = NoRoute],
           fresh |-> FALSE, next |-> h.next]
  BY DEF Carrying
<1>3. g.seen \in [Keys -> Rows] /\ \A j \in Keys : g.seen[j] = h.seen[j] \/ g.seen[j] = NoRoute
  BY <1>1, NoRow DEF Carrying
<1>4. Carrying(g)
  BY <1>1, <1>2, <1>3 DEF Carrying
<1>5. Known(rows, g)
  BY <1>3 DEF Known
<1> QED BY <1>1, <1>4, <1>5

Resting(rows, h) == Carrying(h) /\ Known(rows, h) /\ h.step \notin {"save", "describe"}

LEMMA Rests ==
    ASSUME NEW rows, NEW step, step \notin {"save", "describe"}, NEW lim \in Nat, NEW h,
           h = [Idle EXCEPT !.step = step, !.lim = lim]
    PROVE  Resting(rows, h)
<1>1. /\ h.step = step /\ h.lim = lim /\ h.seen = Idle.seen /\ h.next = "idle"
      /\ h = [step |-> step, todo |-> Idle.todo, whole |-> Idle.whole, create |-> Idle.create,
              live |-> Idle.live, lim |-> lim, seen |-> Idle.seen, fresh |-> Idle.fresh,
              next |-> Idle.next]
  BY DEF Idle
<1> QED BY <1>1, IdleTask DEF Resting, Carrying, Known

LEMMA IdleRests == ASSUME NEW rows PROVE Resting(rows, Idle)
  BY IdleTask DEF Resting, Known

LEMMA DroppedRests ==
    ASSUME SlotTypeOK, NEW t \in Tasks, NEW rows, Known(rows, task[t])
    PROVE  Resting(rows, Dropped(t))
<1> DEFINE h == task[t]
<1>1. Carrying(h) /\ Known(rows, h)
  BY DEF SlotTypeOK
<1>2. h.lim \in Nat /\ h.next \notin {"save", "describe"}
  BY <1>1 DEF Carrying
<1>3. \/ Dropped(t) = Idle
      \/ Dropped(t) = [Idle EXCEPT !.step = h.next, !.lim = h.lim]
      \/ Dropped(t) = [h EXCEPT !.step = "sync", !.todo = Tail(h.todo),
                                 !.seen[Head(h.todo)] = NoRoute, !.fresh = FALSE]
  BY DEF Dropped
<1> HIDE DEF h
<1>4. CASE Dropped(t) = Idle
  BY <1>4, IdleRests
<1>5. CASE Dropped(t) = [Idle EXCEPT !.step = h.next, !.lim = h.lim]
  BY <1>2, <1>5, Rests
<1>6. CASE Dropped(t) = [h EXCEPT !.step = "sync", !.todo = Tail(h.todo),
                                  !.seen[Head(h.todo)] = NoRoute, !.fresh = FALSE]
  BY <1>1, <1>6, Forgets DEF Resting
<1> QED BY <1>3, <1>4, <1>5, <1>6

LEMMA ReadingRests ==
    ASSUME PageInv, NEW t \in Tasks, NEW slots, NEW all, NEW create,
           NEW after \in {"idle", "bindAgain"}
    PROVE  Resting(route, Reading(t, slots, all, create, after))
<1> DEFINE h == Reading(t, slots, all, create, after)
<1>1. /\ h.step = "sync" /\ h.lim = task[t].lim /\ h.next = after
      /\ h.seen = [k \in Keys |-> IF k[2] \in {slots[i] : i \in DOMAIN slots}
                                  THEN route[k] ELSE NoRoute]
      /\ h = [step |-> h.step, todo |-> h.todo, whole |-> h.whole, create |-> h.create,
              live |-> h.live, lim |-> h.lim, seen |-> h.seen, fresh |-> h.fresh, next |-> h.next]
  BY DEF Reading
<1> HIDE DEF h
<1>2. \A k \in Keys : h.seen[k] = route[k] \/ h.seen[k] = NoRoute
  BY <1>1
<1>3. h.seen \in [Keys -> Rows]
  BY <1>1, NoRow DEF PageInv, SlotTypeOK
<1>4. Carrying(h)
  BY <1>1, <1>3 DEF Carrying, PageInv, SlotTypeOK
<1>5. Known(route, h)
  BY <1>2 DEF Known, PageInv, Panelled
<1>6. Resting(route, h)
  BY <1>1, <1>4, <1>5 DEF Resting
<1> QED BY <1>6 DEF h

-----------------------------------------------------------------------------
(* A step that makes no row and takes no client on a 3x-ui panel. *)
LEMMA PageStep ==
    ASSUME PageInv, route' \in [Keys -> Rows], limit' \in Slots, legacy' \in Nat,
           task' = [u \in Tasks |-> task'[u]],
           \A k \in Keys :
              /\ route[k] # NoRoute => route'[k] # NoRoute
              /\ route'[k] = NoRoute \/ route'[k].status # "none"
              /\ k[1] \notin XrayCountries =>
                    /\ route'[k] # NoRoute => route[k] # NoRoute /\ route'[k].link # "other"
                    /\ k \in client => k \in client',
           \A u \in Tasks : task'[u] = task[u] \/ Resting(route', task'[u])
    PROVE  PageInv'
<1>1. SlotTypeOK'
  BY DEF SlotTypeOK, PageInv, Resting
<1>2. RowsStay'
  BY DEF RowsStay
<1>3. SeenIsThere'
  BY DEF SeenIsThere, PageInv, Known, Resting
<1>4. OneCreates'
  BY DEF OneCreates, PageInv, Saving, Describing, Resting
<1>5. Panelled'
  BY DEF Panelled, PageInv
<1> QED BY <1>1, <1>2, <1>3, <1>4, <1>5 DEF PageInv

LEMMA TaskStep ==
    ASSUME PageInv, NEW t \in Tasks, NEW h, Resting(route, h), SetTask(t, h),
           UNCHANGED <<route, client, limit, legacy>>
    PROVE  PageInv'
<1>1. /\ task' = [u \in Tasks |-> task'[u]] /\ task'[t] = h
      /\ \A u \in Tasks : u # t => task'[u] = task[u]
  BY TaskSet DEF PageInv, Resting
<1>2. route' \in [Keys -> Rows] /\ limit' \in Slots /\ legacy' \in Nat
  BY DEF PageInv, SlotTypeOK
<1>3. \A k \in Keys :
        /\ route'[k] = route[k]
        /\ route[k] = NoRoute \/ route[k].status # "none"
        /\ k[1] \notin XrayCountries => (route[k] # NoRoute => route[k].link # "other")
  BY DEF PageInv, RowsStay, Panelled
<1>4. \A u \in Tasks : task'[u] = task[u] \/ Resting(route', task'[u])
  BY <1>1
<1> QED BY <1>1, <1>2, <1>3, <1>4, PageStep

LEMMA Typed ==
    ASSUME PageInv, NEW t \in Tasks
    PROVE  /\ SlotTypeOK /\ Carrying(task[t]) /\ Known(route, task[t])
           /\ task[t].lim \in Nat /\ task[t].next \in {"idle", "bindAgain"}
  BY DEF PageInv, SlotTypeOK, SeenIsThere, Carrying

LEMMA StartSyncStep == ASSUME PageInv, NEW t \in Syncers, StartSync(t) PROVE PageInv'
<1> t \in Tasks BY DEF Tasks
<1>1. PICK create \in BOOLEAN :
          SetTask(t, Reading(t, [i \in 1..Desired |-> i], TRUE, create, "idle"))
  BY DEF StartSync
<1>2. Resting(route, Reading(t, [i \in 1..Desired |-> i], TRUE, create, "idle"))
  BY ReadingRests
<1> QED BY <1>1, <1>2, TaskStep DEF StartSync, owner

LEMMA EmptyLoopStep == ASSUME PageInv, NEW t \in Tasks, EmptyLoop(t) PROVE PageInv'
<1> DEFINE h == [Idle EXCEPT !.step = task[t].next, !.lim = task[t].lim]
<1>1. Resting(route, Idle) /\ Resting(route, h)
  BY Typed, Rests, IdleRests
<1>2. SetTask(t, Idle) \/ SetTask(t, h)
  BY DEF EmptyLoop
<1> HIDE DEF h
<1> QED BY <1>1, <1>2, TaskStep DEF EmptyLoop, owner

LEMMA DropStep ==
    ASSUME PageInv, NEW t \in Tasks, SetTask(t, Dropped(t)),
           UNCHANGED <<route, client, limit, legacy>>
    PROVE  PageInv'
  BY Typed, DroppedRests, TaskStep

LEMMA PassOverStep == ASSUME PageInv, NEW t \in Tasks, PassOver(t) PROVE PageInv'
  BY DropStep DEF PassOver, owner

LEMMA SyncCrashStep == ASSUME PageInv, NEW t \in Tasks, SyncCrash(t) PROVE PageInv'
  BY IdleRests, TaskStep DEF SyncCrash, owner

LEMMA RecoverStep == ASSUME PageInv, NEW p \in Phones, Recover(p) PROVE PageInv'
<1> p \in Tasks BY DEF Tasks
<1> DEFINE h == task[p]
<1> DEFINE r == Reading(p, h.todo, FALSE, TRUE, "bindAgain")
<1> DEFINE g == [Idle EXCEPT !.step = "bindAgain", !.lim = h.lim]
<1>1. Resting(route, r)
  BY ReadingRests
<1>2. Resting(route, g)
  BY Typed, Rests
<1>3. SetTask(p, r) \/ SetTask(p, g)
  BY DEF Recover
<1> HIDE DEF r, g
<1> QED BY <1>1, <1>2, <1>3, TaskStep DEF Recover, owner

LEMMA FeedStep == ASSUME PageInv, NEW p \in Phones, Feed(p) PROVE PageInv'
<1> p \in Tasks BY DEF Tasks
<1> DEFINE r == Reading(p, <<task[p].lim>>, FALSE, TRUE, "idle")
<1>1. Resting(route, r)
  BY ReadingRests
<1>2. SetTask(p, r) \/ SetTask(p, Idle)
  BY DEF Feed
<1> HIDE DEF r
<1> QED BY <1>1, <1>2, IdleRests, TaskStep DEF Feed, owner

LEMMA Asks ==
    ASSUME NEW g, NEW lim, NEW seen, NEW h,
           g = [step |-> g.step, todo |-> g.todo, whole |-> g.whole, create |-> g.create,
                live |-> g.live, lim |-> g.lim, seen |-> g.seen, fresh |-> g.fresh, next |-> g.next],
           h = [g EXCEPT !.step = "bind", !.lim = lim, !.seen = seen]
    PROVE  /\ h.step = "bind" /\ h.lim = lim /\ h.seen = seen /\ h.next = g.next
           /\ h = [step |-> "bind", todo |-> g.todo, whole |-> g.whole, create |-> g.create,
                   live |-> g.live, lim |-> lim, seen |-> seen, fresh |-> g.fresh, next |-> g.next]
  OBVIOUS

LEMMA AskStep == ASSUME PageInv, NEW p \in Phones, Ask(p) PROVE PageInv'
<1> p \in Tasks BY DEF Tasks
<1> DEFINE h == [Idle EXCEPT !.step = "bind", !.lim = limit, !.seen = route]
<1>1. limit \in Nat /\ route \in [Keys -> Rows]
  BY SlotAssumption DEF PageInv, SlotTypeOK, Slots
<1>2. /\ h.step = "bind" /\ h.lim = limit /\ h.seen = route /\ h.next = "idle"
      /\ h = [step |-> "bind", todo |-> Idle.todo, whole |-> Idle.whole, create |-> Idle.create,
              live |-> Idle.live, lim |-> limit, seen |-> route, fresh |-> Idle.fresh,
              next |-> Idle.next]
  <2>1. /\ Idle.next = "idle"
        /\ Idle = [step |-> Idle.step, todo |-> Idle.todo, whole |-> Idle.whole,
                   create |-> Idle.create, live |-> Idle.live, lim |-> Idle.lim,
                   seen |-> Idle.seen, fresh |-> Idle.fresh, next |-> Idle.next]
    BY DEF Idle
  <2>2. h = [Idle EXCEPT !.step = "bind", !.lim = limit, !.seen = route]
    OBVIOUS
  <2> HIDE DEF h
  <2> QED BY <2>1, <2>2, Asks
<1>3. SetTask(p, h) /\ UNCHANGED <<route, client, owner>>
  BY DEF Ask
<1> HIDE DEF h
<1>4. Known(route, h)
  BY <1>2 DEF Known, PageInv, Panelled
<1>5. Resting(route, h)
  BY <1>1, <1>2, <1>4 DEF Resting, Carrying
<1> QED BY <1>3, <1>5, TaskStep DEF owner

-----------------------------------------------------------------------------
LEMMA MovesOn ==
    ASSUME NEW h, Carrying(h), NEW step, NEW g, g = [h EXCEPT !.step = step]
    PROVE  Carrying(g) /\ g.step = step /\ g.todo = h.todo /\ g.seen = h.seen
<1>1. /\ g.step = step /\ g.todo = h.todo /\ g.seen = h.seen /\ g.lim = h.lim /\ g.next = h.next
      /\ g = [step |-> step, todo |-> h.todo, whole |-> h.whole, create |-> h.create,
              live |-> h.live, lim |-> h.lim, seen |-> h.seen, fresh |-> h.fresh, next |-> h.next]
  BY DEF Carrying
<1> QED BY <1>1 DEF Carrying

LEMMA Freshens ==
    ASSUME NEW h, Carrying(h), NEW fresh, NEW g, g = [h EXCEPT !.fresh = fresh]
    PROVE  Carrying(g) /\ g.step = h.step /\ g.todo = h.todo /\ g.seen = h.seen /\ g.fresh = fresh
<1>1. /\ g.step = h.step /\ g.todo = h.todo /\ g.seen = h.seen /\ g.lim = h.lim /\ g.next = h.next
      /\ g.fresh = fresh
      /\ g = [step |-> h.step, todo |-> h.todo, whole |-> h.whole, create |-> h.create,
              live |-> h.live, lim |-> h.lim, seen |-> h.seen, fresh |-> fresh, next |-> h.next]
  BY DEF Carrying
<1> QED BY <1>1 DEF Carrying

LEMMA ProvisionStep == ASSUME PageInv, NEW t \in Tasks, Provision(t) PROVE PageInv'
<1> DEFINE h == task[t]
<1> DEFINE k == Head(h.todo)
<1> DEFINE g == [h EXCEPT !.step = "save"]
<1>1. UNCHANGED <<route, limit, legacy>>
  BY DEF Provision, owner
<1>2. \/ /\ k \in client => k[1] \in XrayCountries
         /\ client' = client \union {k} /\ SetTask(t, g)
      \/ SetTask(t, Dropped(t)) /\ UNCHANGED client
  BY DEF Provision
<1>3. CASE SetTask(t, Dropped(t)) /\ UNCHANGED client
  BY <1>1, <1>3, DropStep
<1>4. CASE /\ k \in client => k[1] \in XrayCountries
           /\ client' = client \union {k} /\ SetTask(t, g)
  <2>1. SlotTypeOK /\ Carrying(h) /\ Known(route, h)
    BY Typed
  <2>2. Carrying(g) /\ g.step = "save" /\ g.todo = h.todo /\ g.seen = h.seen
    <3>1. g = [h EXCEPT !.step = "save"]
      OBVIOUS
    <3> HIDE DEF g, h, k
    <3> QED BY <2>1, <3>1, MovesOn
  <2> HIDE DEF g
  <2>3. /\ task' = [u \in Tasks |-> task'[u]] /\ task'[t] = g
        /\ \A u \in Tasks : u # t => task'[u] = task[u]
        /\ \A u \in Tasks : Carrying(task'[u])
    BY <1>4, <2>1, <2>2, TaskSet
  <2>4. SlotTypeOK'
    BY <1>1, <2>1, <2>3 DEF SlotTypeOK
  <2>5. RowsStay'
    BY <1>1 DEF RowsStay, PageInv
  <2>6. SeenIsThere'
    BY <1>1, <2>2, <2>3 DEF SeenIsThere, PageInv, Known
  <2>7. Panelled'
    BY <1>1, <1>4 DEF Panelled, PageInv
  <2>8. ASSUME NEW j \in Keys, j[1] \notin XrayCountries, NEW u \in Tasks
        PROVE  /\ Saving(task'[u], j) =>
                     /\ route'[j] = NoRoute /\ j \in client'
                     /\ \A v \in Tasks : Saving(task'[v], j) => v = u
               /\ Describing(task'[u], j) => task'[u].fresh = TRUE /\ route'[j] # NoRoute
    <3>1. \A v \in Tasks : Saving(task[v], j) => j \in client
      BY <2>8 DEF PageInv, OneCreates
    <3>2. Saving(task'[t], j) => j \notin client /\ route[j] = NoRoute /\ j \in client'
      BY <1>4, <2>2, <2>3, <2>8 DEF Saving, PageInv, Panelled
    <3>3. CASE u = t
      BY <1>1, <2>2, <2>3, <3>1, <3>2, <3>3 DEF Saving, Describing
    <3>4. CASE u # t
      <4>1. task'[u] = task[u]
        BY <2>3, <3>4
      <4>2. Saving(task[u], j) => ~Saving(task'[t], j)
        BY <3>1, <3>2
      <4>3. /\ Saving(task[u], j) =>
                  /\ route[j] = NoRoute /\ j \in client
                  /\ \A v \in Tasks : Saving(task[v], j) => v = u
            /\ Describing(task[u], j) => task[u].fresh = TRUE /\ route[j] # NoRoute
        BY <2>8 DEF PageInv, OneCreates
      <4> QED BY <1>1, <1>4, <2>3, <4>1, <4>2, <4>3
    <3> QED BY <3>3, <3>4
  <2>9. OneCreates'
    BY <2>8 DEF OneCreates
  <2> QED BY <2>4, <2>5, <2>6, <2>7, <2>9 DEF PageInv
<1> QED BY <1>2, <1>3, <1>4

LEMMA KnownStays ==
    ASSUME NEW rows, NEW more, NEW h, Known(rows, h),
           \A k \in Keys : rows[k] # NoRoute => more[k] # NoRoute
    PROVE  Known(more, h)
  BY DEF Known

LEMMA SaveRouteStep == ASSUME PageInv, NEW t \in Tasks, SaveRoute(t) PROVE PageInv'
<1> DEFINE h == task[t]
<1> DEFINE k == Head(h.todo)
<1> DEFINE g == [h EXCEPT !.step = "describe", !.fresh = route[k] = NoRoute]
<1>1. UNCHANGED <<limit, legacy>> /\ h.step = "save"
  BY DEF SaveRoute, owner
<1>2. \/ /\ SetTask(t, g) /\ UNCHANGED client
         /\ route' = IF route[k] = NoRoute
                     THEN [route EXCEPT ![k].status = "active"] ELSE route
      \/ client' = client \ {k} /\ SetTask(t, Dropped(t)) /\ UNCHANGED route
  BY DEF SaveRoute
<1>3. SlotTypeOK /\ Carrying(h) /\ Known(route, h) /\ route \in [Keys -> Rows]
  BY Typed DEF SlotTypeOK
<1>4. \A j \in Keys : j[1] \notin XrayCountries /\ j = k =>
        /\ route[j] = NoRoute /\ j \in client
        /\ \A u \in Tasks : Saving(task[u], j) => u = t
  BY <1>1 DEF PageInv, OneCreates, Saving
<1>5. CASE /\ SetTask(t, g) /\ UNCHANGED client
           /\ route' = IF route[k] = NoRoute
                       THEN [route EXCEPT ![k].status = "active"] ELSE route
  <2>1. /\ Carrying(g) /\ g.step = "describe" /\ g.todo = h.todo /\ g.seen = h.seen
        /\ g.fresh = (route[k] = NoRoute)
    <3>1. PICK b : b = (route[k] = NoRoute)
      OBVIOUS
    <3> DEFINE m == [h EXCEPT !.step = "describe"]
    <3>2. m = [h EXCEPT !.step = "describe"]
      OBVIOUS
    <3>3. g = [m EXCEPT !.fresh = b]
      BY <3>1
    <3> HIDE DEF g, h, k, m
    <3>4. Carrying(m)
      BY <1>3, <3>2, MovesOn
    <3>5. m.step = "describe" /\ m.todo = h.todo /\ m.seen = h.seen
      BY <1>3, <3>2, MovesOn
    <3>6. /\ Carrying(g) /\ g.step = m.step /\ g.todo = m.todo /\ g.seen = m.seen
          /\ g.fresh = b
      BY <3>3, <3>4, Freshens
    <3> QED BY <3>1, <3>5, <3>6
  <2> HIDE DEF g
  <2>2. /\ task' = [u \in Tasks |-> task'[u]] /\ task'[t] = g
        /\ \A u \in Tasks : u # t => task'[u] = task[u]
        /\ \A u \in Tasks : Carrying(task'[u])
    BY <1>3, <1>5, <2>1, TaskSet
  <2>3. /\ route' \in [Keys -> Rows]
        /\ \A j \in Keys :
              \/ route'[j] = route[j] /\ (j = k => route[k] # NoRoute)
              \/ j = k /\ route[j] = NoRoute /\ route'[j].status = "active" /\ route'[j].link = "none"
    <3>1. CASE route[k] = NoRoute
      <4>1. route' = [route EXCEPT ![k] = [route[k] EXCEPT !.status = "active"]]
        BY <1>5, <3>1
      <4>2. [NoRoute EXCEPT !.status = "active"] \in Rows
        BY DEF NoRoute, Rows
      <4>3. /\ [NoRoute EXCEPT !.status = "active"].status = "active"
            /\ [NoRoute EXCEPT !.status = "active"].link = "none"
        BY DEF NoRoute
      <4> QED BY <1>3, <3>1, <4>1, <4>2, <4>3
    <3>2. CASE route[k] # NoRoute
      BY <1>3, <1>5, <3>2
    <3> QED BY <3>1, <3>2
  <2>4. \A j \in Keys : route[j] # NoRoute => route'[j] # NoRoute
    BY <2>3
  <2>5. SlotTypeOK'
    BY <1>1, <1>3, <2>2, <2>3 DEF SlotTypeOK
  <2>6. RowsStay'
    BY <2>3 DEF RowsStay, PageInv
  <2>7. SeenIsThere'
    BY <2>1, <2>2, <2>4 DEF SeenIsThere, PageInv, Known
  <2>8. Panelled'
    BY <1>4, <1>5, <2>3 DEF Panelled, PageInv
  <2>9. ASSUME NEW j \in Keys, j[1] \notin XrayCountries, NEW u \in Tasks
        PROVE  /\ Saving(task'[u], j) =>
                     /\ route'[j] = NoRoute /\ j \in client'
                     /\ \A v \in Tasks : Saving(task'[v], j) => v = u
               /\ Describing(task'[u], j) => task'[u].fresh = TRUE /\ route'[j] # NoRoute
    <3>1. ~Saving(task'[t], j)
      BY <2>1, <2>2 DEF Saving
    <3>2. CASE u = t
      <4>1. Describing(g, j) => j = k
        BY <2>1 DEF Describing
      <4>2. j = k => route[j] = NoRoute /\ route'[j] # NoRoute
        BY <1>4, <2>3, <2>9, NoRow
      <4> QED BY <2>1, <2>2, <3>1, <3>2, <4>1, <4>2
    <3>3. CASE u # t
      <4>1. task'[u] = task[u]
        BY <2>2, <3>3
      <4>2. Saving(task[u], j) => route'[j] = route[j]
        BY <1>4, <2>3, <2>9, <3>3
      <4>3. /\ Saving(task[u], j) =>
                  /\ route[j] = NoRoute /\ j \in client
                  /\ \A v \in Tasks : Saving(task[v], j) => v = u
            /\ Describing(task[u], j) => task[u].fresh = TRUE /\ route[j] # NoRoute
        BY <2>9 DEF PageInv, OneCreates
      <4> QED BY <1>5, <2>2, <2>4, <3>1, <4>1, <4>2, <4>3
    <3> QED BY <3>2, <3>3
  <2>10. OneCreates'
    BY <2>9 DEF OneCreates
  <2> QED BY <2>5, <2>6, <2>7, <2>8, <2>10 DEF PageInv
<1>6. CASE client' = client \ {k} /\ SetTask(t, Dropped(t)) /\ UNCHANGED route
  <2>1. Resting(route, Dropped(t))
    BY <1>3, DroppedRests
  <2>2. /\ task' = [u \in Tasks |-> task'[u]] /\ task'[t] = Dropped(t)
        /\ \A u \in Tasks : u # t => task'[u] = task[u]
        /\ \A u \in Tasks : Carrying(task'[u])
    BY <1>3, <1>6, <2>1, TaskSet DEF Resting
  <2>3. SlotTypeOK'
    BY <1>1, <1>3, <1>6, <2>2 DEF SlotTypeOK
  <2>4. RowsStay'
    BY <1>6 DEF RowsStay, PageInv
  <2>5. SeenIsThere'
    BY <1>6, <2>1, <2>2 DEF SeenIsThere, PageInv, Resting
  <2>6. Panelled'
    BY <1>4, <1>6 DEF Panelled, PageInv
  <2>7. ASSUME NEW j \in Keys, j[1] \notin XrayCountries, NEW u \in Tasks
        PROVE  /\ Saving(task'[u], j) =>
                     /\ route'[j] = NoRoute /\ j \in client'
                     /\ \A v \in Tasks : Saving(task'[v], j) => v = u
               /\ Describing(task'[u], j) => task'[u].fresh = TRUE /\ route'[j] # NoRoute
    <3>1. ~Saving(task'[t], j) /\ ~Describing(task'[t], j)
      BY <2>1, <2>2 DEF Saving, Describing, Resting
    <3>2. CASE u # t
      <4>1. task'[u] = task[u] /\ (Saving(task[u], j) => j # k)
        BY <1>4, <2>2, <2>7, <3>2
      <4>2. /\ Saving(task[u], j) =>
                  /\ route[j] = NoRoute /\ j \in client
                  /\ \A v \in Tasks : Saving(task[v], j) => v = u
            /\ Describing(task[u], j) => task[u].fresh = TRUE /\ route[j] # NoRoute
        BY <2>7 DEF PageInv, OneCreates
      <4> QED BY <1>6, <2>2, <3>1, <4>1, <4>2
    <3> QED BY <3>1, <3>2
  <2>8. OneCreates'
    BY <2>7 DEF OneCreates
  <2> QED BY <2>3, <2>4, <2>5, <2>6, <2>8 DEF PageInv
<1> QED BY <1>2, <1>5, <1>6

LEMMA Learns ==
    ASSUME NEW h, Carrying(h), NEW seen \in [Keys -> Rows], NEW g, g = [h EXCEPT !.seen = seen]
    PROVE  Carrying(g) /\ g.step = h.step /\ g.seen = seen
<1>1. /\ g.step = h.step /\ g.seen = seen /\ g.lim = h.lim /\ g.next = h.next
      /\ g = [step |-> h.step, todo |-> h.todo, whole |-> h.whole, create |-> h.create,
              live |-> h.live, lim |-> h.lim, seen |-> seen, fresh |-> h.fresh, next |-> h.next]
  BY DEF Carrying
<1> QED BY <1>1 DEF Carrying

LEMMA DescribeRouteStep == ASSUME PageInv, NEW t \in Tasks, DescribeRoute(t) PROVE PageInv'
<1> DEFINE h == task[t]
<1> DEFINE k == Head(h.todo)
<1> DEFINE r == [status |-> "active", link |-> IF h.fresh THEN "own" ELSE "other",
                 bound |-> NoPhone]
<1> DEFINE g == [h EXCEPT !.step = "sync", !.seen[k] = r]
<1>1. UNCHANGED <<limit, legacy, client>> /\ h.step = "describe"
  BY DEF DescribeRoute, owner
<1>2. \/ route' = [route EXCEPT ![k] = r] /\ SetTask(t, g)
      \/ SetTask(t, Dropped(t)) /\ UNCHANGED route
  BY DEF DescribeRoute
<1>3. SlotTypeOK /\ Carrying(h) /\ Known(route, h) /\ route \in [Keys -> Rows]
  BY Typed DEF SlotTypeOK
<1>4. CASE SetTask(t, Dropped(t)) /\ UNCHANGED route
  BY <1>1, <1>4, DropStep
<1>5. CASE route' = [route EXCEPT ![k] = r] /\ SetTask(t, g)
  <2>1. \A j \in Keys : j[1] \notin XrayCountries /\ j = k => h.fresh = TRUE /\ route[j] # NoRoute
    BY <1>1 DEF PageInv, OneCreates, Describing
  <2>2. r \in Rows /\ r # NoRoute /\ r.status = "active"
    BY DEF Rows, NoRoute
  <2>3. h.fresh = TRUE => r.link = "own"
    OBVIOUS
  <2>4. g = [h EXCEPT !.step = "sync", !.seen[k] = r]
    OBVIOUS
  <2> HIDE DEF r, g, h, k
  <2>5. Carrying(g) /\ g.step = "sync" /\ g.seen = [h.seen EXCEPT ![k] = r]
    <3> DEFINE m == [h EXCEPT !.step = "sync"]
    <3>1. m = [h EXCEPT !.step = "sync"]
      OBVIOUS
    <3>2. PICK seen : seen = [m.seen EXCEPT ![k] = r]
      OBVIOUS
    <3>3. g = [m EXCEPT !.seen = seen]
      BY <2>4, <3>2
    <3> HIDE DEF m
    <3>4. Carrying(m) /\ m.step = "sync" /\ m.seen = h.seen
      BY <1>3, <3>1, MovesOn
    <3>5. seen \in [Keys -> Rows]
      BY <2>2, <3>2, <3>4 DEF Carrying
    <3>6. Carrying(m)
      BY <3>4
    <3>7. Carrying(g) /\ g.step = m.step /\ g.seen = seen
      BY <3>3, <3>5, <3>6, Learns
    <3> QED BY <3>2, <3>4, <3>7
  <2>6. /\ route' \in [Keys -> Rows]
        /\ \A j \in Keys : route'[j] = IF j = k THEN r ELSE route[j]
        /\ \A j \in Keys : g.seen[j] = IF j = k THEN r ELSE h.seen[j]
    BY <1>3, <1>5, <2>2, <2>5 DEF Carrying
  <2>7. \A j \in Keys : route[j] # NoRoute => route'[j] # NoRoute
    BY <2>2, <2>6
  <2>8. \A j \in Keys : route'[j] = NoRoute \/ route'[j].status # "none"
    BY <2>2, <2>6 DEF PageInv, RowsStay
  <2>9. \A j \in Keys : j[1] \notin XrayCountries /\ route'[j] # NoRoute =>
           route[j] # NoRoute /\ route'[j].link # "other"
    BY <2>1, <2>3, <2>6 DEF PageInv, Panelled
  <2>10. Known(route', g)
    <3> SUFFICES ASSUME NEW j \in Keys, g.seen[j] # NoRoute
                 PROVE  /\ route'[j] # NoRoute
                        /\ j[1] \notin XrayCountries => g.seen[j].link # "other"
      BY DEF Known
    <3>1. CASE j = k
      BY <2>1, <2>2, <2>3, <2>6, <3>1
    <3>2. CASE j # k
      BY <1>3, <2>6, <3>2 DEF Known
    <3> QED BY <3>1, <3>2
  <2>11. Resting(route', g)
    BY <2>5, <2>10 DEF Resting
  <2>12. /\ task' = [u \in Tasks |-> task'[u]]
         /\ \A u \in Tasks : task'[u] = task[u] \/ Resting(route', task'[u])
    BY <1>3, <1>5, <2>5, <2>11, TaskSet
  <2>13. limit' \in Slots /\ legacy' \in Nat /\ client' = client
    BY <1>1, <1>3 DEF SlotTypeOK
  <2> QED BY <2>6, <2>7, <2>8, <2>9, <2>12, <2>13, PageStep
<1> QED BY <1>2, <1>4, <1>5

LEMMA WriteRouteStep == ASSUME PageInv, NEW t \in Tasks, WriteRoute(t) PROVE PageInv'
<1> DEFINE h == task[t]
<1> DEFINE k == Head(h.todo)
<1>1. UNCHANGED <<limit, legacy>> /\ ~Missing(h, k) /\ SetTask(t, Dropped(t))
  BY DEF WriteRoute, owner
<1>2. \/ /\ route' = [route EXCEPT ![k] = Synced(h, k)]
         /\ client' = IF h.live THEN client \union {k}
                      ELSE IF k[1] \in XrayCountries THEN client \ {k} ELSE client
      \/ route' = [route EXCEPT ![k].status = "broken"] /\ UNCHANGED client
  BY DEF WriteRoute
<1>3. SlotTypeOK /\ Carrying(h) /\ Known(route, h) /\ route \in [Keys -> Rows]
  BY Typed DEF SlotTypeOK
<1>4. h.seen[k] # NoRoute
  BY <1>1 DEF Missing
<1> HIDE DEF h, k
<1>5. \A j \in Keys : j = k =>
        /\ route[j] # NoRoute /\ h.seen[j] \in Rows
        /\ j[1] \notin XrayCountries => h.seen[j].link # "other" /\ route[j].link # "other"
  BY <1>3, <1>4 DEF Known, Carrying, PageInv, Panelled
<1>6. /\ route' \in [Keys -> Rows]
      /\ \A j \in Keys :
            \/ j # k /\ route'[j] = route[j]
            \/ /\ j = k /\ route'[j].status # "none"
               /\ j[1] \notin XrayCountries => route'[j].link # "other"
  <2>1. CASE route' = [route EXCEPT ![k] = Synced(h, k)]
    <3>1. ASSUME k \in Keys
          PROVE  /\ Synced(h, k) \in Rows /\ Synced(h, k).status # "none"
                 /\ k[1] \notin XrayCountries => Synced(h, k).link # "other"
      <4>1. h.seen[k] \in Rows
        BY <1>5, <3>1
      <4>2. h.seen[k].link \in {"none", "own", "other"} /\ h.seen[k].bound \in Phones \union {NoPhone}
        BY <4>1 DEF Rows
      <4>3. Synced(h, k) \in Rows
        BY <4>2 DEF Synced, Rows
      <4>4. Synced(h, k).status # "none"
        BY DEF Synced
      <4>5. k[1] \notin XrayCountries => Synced(h, k).link # "other"
        BY <1>5, <3>1 DEF Synced
      <4> QED BY <4>3, <4>4, <4>5
    <3> QED BY <1>3, <2>1, <3>1
  <2>2. CASE route' = [route EXCEPT ![k].status = "broken"]
    <3>1. route' = [route EXCEPT ![k] = [route[k] EXCEPT !.status = "broken"]]
      BY <2>2
    <3>2. ASSUME k \in Keys
          PROVE  /\ [route[k] EXCEPT !.status = "broken"] \in Rows
                 /\ [route[k] EXCEPT !.status = "broken"].status = "broken"
                 /\ [route[k] EXCEPT !.status = "broken"].link = route[k].link
      BY <1>3, <3>2 DEF Rows
    <3> QED BY <1>3, <1>5, <3>1, <3>2
  <2> QED BY <1>2, <2>1, <2>2
<1>7. \A j \in Keys : route[j] # NoRoute => route'[j] # NoRoute
  BY <1>6, NoRow
<1>8. \A j \in Keys : route'[j] = NoRoute \/ route'[j].status # "none"
  BY <1>6 DEF PageInv, RowsStay
<1>9. \A j \in Keys : j[1] \notin XrayCountries /\ route'[j] # NoRoute =>
         route[j] # NoRoute /\ route'[j].link # "other"
  BY <1>5, <1>6 DEF PageInv, Panelled
<1>10. \A j \in Keys : j[1] \notin XrayCountries => (j \in client => j \in client')
  BY <1>2
<1>11. Resting(route', Dropped(t))
  BY <1>3, <1>7, KnownStays, DroppedRests DEF h
<1>12. /\ task' = [u \in Tasks |-> task'[u]]
       /\ \A u \in Tasks : task'[u] = task[u] \/ Resting(route', task'[u])
  BY <1>1, <1>3, <1>11, TaskSet DEF Resting
<1>13. limit' \in Slots /\ legacy' \in Nat
  BY <1>1, <1>3 DEF SlotTypeOK
<1> QED BY <1>6, <1>7, <1>8, <1>9, <1>10, <1>12, <1>13, PageStep

(* A step that changes the devices bound to the rows, and those only. *)
Rebinds ==
    /\ route' \in [Keys -> Rows] /\ client' = client
    /\ \A k \in Keys : \/ route'[k] = route[k]
                       \/ /\ route[k] # NoRoute /\ route'[k].status = route[k].status
                          /\ route'[k].link = route[k].link

LEMMA RebindStep ==
    ASSUME PageInv, Rebinds, UNCHANGED <<limit, legacy>>,
           task' = [u \in Tasks |-> task'[u]],
           \A u \in Tasks : task'[u] = task[u] \/ \A rows : Resting(rows, task'[u])
    PROVE  PageInv'
<1>1. limit' \in Slots /\ legacy' \in Nat
  BY DEF PageInv, SlotTypeOK
<1>2. \A k \in Keys :
        /\ route[k] # NoRoute => route'[k] # NoRoute
        /\ route'[k] = NoRoute \/ route'[k].status # "none"
        /\ k[1] \notin XrayCountries =>
              (route'[k] # NoRoute => route[k] # NoRoute /\ route'[k].link # "other")
  BY NoRow DEF Rebinds, PageInv, RowsStay, Panelled
<1>3. route' \in [Keys -> Rows] /\ client' = client
  BY DEF Rebinds
<1>4. \A u \in Tasks : task'[u] = task[u] \/ Resting(route', task'[u])
  OBVIOUS
<1> QED BY <1>1, <1>2, <1>3, <1>4, PageStep

LEMMA BoundTo ==
    ASSUME NEW r \in Rows, NEW p \in Phones \union {NoPhone}
    PROVE  /\ [r EXCEPT !.bound = p] \in Rows /\ [r EXCEPT !.bound = p].bound = p
           /\ [r EXCEPT !.bound = p].status = r.status /\ [r EXCEPT !.bound = p].link = r.link
  BY DEF Rows

LEMMA ClearStep == ASSUME PageInv, NEW s \in Slots, Clear(s) PROVE PageInv' /\ Rebinds
<1>1. route \in [Keys -> Rows] /\ task = [u \in Tasks |-> task[u]]
  BY DEF PageInv, SlotTypeOK
<1>2. /\ UNCHANGED <<client, task, limit, legacy>>
      /\ route' = [k \in Keys |-> IF k[2] = s THEN [route[k] EXCEPT !.bound = NoPhone] ELSE route[k]]
  BY DEF Clear, owner
<1>3. [NoRoute EXCEPT !.bound = NoPhone] = NoRoute
  BY DEF NoRoute
<1>4. Rebinds
  BY <1>1, <1>2, <1>3, BoundTo DEF Rebinds
<1> QED BY <1>1, <1>2, <1>4, RebindStep

LEMMA RestsToDo ==
    ASSUME NEW rows, NEW step, step \notin {"save", "describe"}, NEW lim \in Nat, NEW todo, NEW h,
           h = [Idle EXCEPT !.step = step, !.lim = lim, !.todo = todo]
    PROVE  Resting(rows, h)
<1>1. /\ h.step = step /\ h.lim = lim /\ h.seen = Idle.seen /\ h.next = "idle"
      /\ h = [step |-> step, todo |-> todo, whole |-> Idle.whole, create |-> Idle.create,
              live |-> Idle.live, lim |-> lim, seen |-> Idle.seen, fresh |-> Idle.fresh,
              next |-> Idle.next]
  BY DEF Idle
<1> QED BY <1>1, IdleTask DEF Resting, Carrying, Known

LEMMA BindStep == ASSUME PageInv, NEW p \in Phones, Bind(p) PROVE PageInv'
<1> p \in Tasks BY DEF Tasks
<1> DEFINE h == task[p]
<1> DEFINE found == IF OwnSlot(p) # {} THEN OwnSlot(p) ELSE FreeSlots(h.lim)
<1> DEFINE s == Min(found)
<1> DEFINE got == [Idle EXCEPT !.step = "feed", !.lim = s]
<1> DEFINE wait == [Idle EXCEPT !.step = "recover", !.lim = h.lim, !.todo = <<Min(Recoverable(h))>>]
<1>1. UNCHANGED <<client, limit, legacy>>
  BY DEF Bind, owner
<1>2. \/ /\ found # {} /\ SetTask(p, got)
         /\ route' = [k \in Keys |-> IF k[2] = s /\ route[k] # NoRoute
                                     THEN [route[k] EXCEPT !.bound = p] ELSE route[k]]
      \/ SetTask(p, wait) /\ UNCHANGED route
      \/ SetTask(p, Idle) /\ UNCHANGED route
  BY DEF Bind
<1>3. route \in [Keys -> Rows] /\ h.lim \in Nat /\ SlotTypeOK
  BY Typed DEF SlotTypeOK
<1>4. \A rows : Resting(rows, wait)
  BY <1>3, RestsToDo
<1> HIDE DEF wait
<1>5. CASE UNCHANGED route /\ (SetTask(p, wait) \/ SetTask(p, Idle))
  BY <1>1, <1>4, <1>5, IdleRests, TaskStep
<1>6. CASE /\ found # {} /\ SetTask(p, got)
           /\ route' = [k \in Keys |-> IF k[2] = s /\ route[k] # NoRoute
                                       THEN [route[k] EXCEPT !.bound = p] ELSE route[k]]
  <2>1. found \subseteq Slots /\ Slots \subseteq Nat
    BY SlotAssumption DEF OwnSlot, FreeSlots, Slots
  <2>2. s \in Nat
    BY <1>6, <2>1, MinIsLeast
  <2> HIDE DEF s, found
  <2>3. \A rows : Resting(rows, got)
    BY <2>2, Rests
  <2> HIDE DEF got
  <2>4. /\ task' = [u \in Tasks |-> task'[u]]
        /\ \A u \in Tasks : task'[u] = task[u] \/ \A rows : Resting(rows, task'[u])
    BY <1>3, <1>6, <2>3, TaskSet DEF Resting
  <2>5. Rebinds
    BY <1>1, <1>3, <1>6, BoundTo DEF Rebinds
  <2> QED BY <1>1, <2>4, <2>5, RebindStep
<1> QED BY <1>2, <1>5, <1>6

LEMMA OwnerStep ==
    ASSUME PageInv, AddDevice \/ RemoveDevice \/ ChangeAccess \/ ChangeLimit PROVE PageInv'
<1>1. limit' \in Slots /\ legacy' \in Nat /\ UNCHANGED <<route, client, task>>
  BY DEF PageInv, SlotTypeOK, AddDevice, RemoveDevice, ChangeAccess, ChangeLimit
<1>2. SlotTypeOK'
  BY <1>1 DEF PageInv, SlotTypeOK
<1> QED BY <1>1, <1>2 DEF PageInv, RowsStay, SeenIsThere, OneCreates, Panelled

LEMMA PageNext == PageInv /\ [SlotNext]_slotVars => PageInv'
<1> SUFFICES ASSUME PageInv, [SlotNext]_slotVars PROVE PageInv'
  OBVIOUS
<1>1. ASSUME NEW t \in Tasks, SyncStep(t) PROVE PageInv'
  BY <1>1, EmptyLoopStep, PassOverStep, ProvisionStep, SaveRouteStep, DescribeRouteStep,
     WriteRouteStep DEF SyncStep
<1>2. ASSUME NEW t \in Syncers, StartSync(t) \/ SyncStep(t) PROVE PageInv'
  BY <1>1, <1>2, StartSyncStep DEF Tasks
<1>3. ASSUME NEW p \in Phones, Request(p) PROVE PageInv'
  BY <1>1, <1>3, AskStep, BindStep, RecoverStep, FeedStep DEF Request, Tasks
<1>4. ASSUME NEW t \in Tasks, SyncCrash(t) PROVE PageInv'
  BY <1>4, SyncCrashStep
<1>5. ASSUME NEW s \in Slots, Clear(s) PROVE PageInv'
  BY <1>5, ClearStep
<1>6. CASE AddDevice \/ RemoveDevice \/ ChangeAccess \/ ChangeLimit
  BY <1>6, OwnerStep
<1>7. CASE UNCHANGED slotVars
  <2>1. UNCHANGED <<route, client, task, limit, legacy>>
    BY <1>7 DEF slotVars, owner
  <2>2. SlotTypeOK'
    BY <2>1 DEF PageInv, SlotTypeOK
  <2> QED BY <2>1, <2>2 DEF PageInv, RowsStay, SeenIsThere, OneCreates, Panelled
<1> QED BY <1>2, <1>3, <1>4, <1>5, <1>6, <1>7 DEF SlotNext

LEMMA SlotStarts == SlotInit => SlotInv
<1> SUFFICES ASSUME SlotInit PROVE SlotInv
  OBVIOUS
<1>0. PICK d \in Phones \union {NoPhone} :
         \/ route = [k \in Keys |-> NoRoute]
         \/ route = [k \in Keys |-> [status |-> "active", link |-> "own",
                                    bound |-> IF k[2] = 1 THEN d ELSE NoPhone]]
  BY DEF SlotInit
<1>1. /\ route \in [Keys -> Rows]
      /\ \A k \in Keys :
           /\ route[k] = NoRoute \/ (route[k].status = "active" /\ route[k].link = "own")
           /\ route[k].bound = NoPhone \/ (k[2] = 1 /\ route[k].bound = d)
  BY <1>0, NoRow DEF Rows
<1>2. MaxSlots \in Slots
  BY SlotAssumption DEF Slots
<1>3. task = [t \in Tasks |-> Idle] /\ client = {k \in Keys : route[k] # NoRoute}
      /\ limit = MaxSlots /\ legacy = 0
  BY DEF SlotInit
<1>4. SlotTypeOK
  BY <1>1, <1>2, <1>3, IdleTask DEF SlotTypeOK
<1>5. RowsStay /\ Panelled
  BY <1>1, <1>3 DEF RowsStay, Panelled
<1>6. SeenIsThere /\ OneCreates
  BY <1>3, IdleTask DEF SeenIsThere, Known, OneCreates, Saving, Describing
<1>7. \A s \in Slots : \A p \in Held(s) : s = 1 /\ p = d
  BY <1>1 DEF Held, Keys
<1>8. Exclusive
  BY <1>7 DEF Exclusive
<1> QED BY <1>4, <1>5, <1>6, <1>8 DEF SlotInv, PageInv

-----------------------------------------------------------------------------
(* Who holds a slot: only a binding takes one, unless an old one is revived. *)
Shrinks == \A k \in Keys : route'[k].bound \in {route[k].bound, NoPhone}
Takes(p, s) ==
    /\ \A k \in Keys : IF k[2] = s THEN route'[k].bound \in {p, NoPhone}
                       ELSE route'[k] = route[k]
    /\ \/ p \in Held(s)
       \/ /\ Held(s) = {} /\ InUse < task[p].lim
          /\ \A r \in Slots : p \notin Held(r)

LEMMA SyncShrinks ==
    ASSUME PageInv, NEW t \in Tasks, SyncStep(t)
    PROVE  revived \subseteq revived' /\ (revived' = {} => Shrinks)
<1> DEFINE h == task[t]
<1> DEFINE k == Head(h.todo)
<1>1. route \in [Keys -> Rows]
  BY DEF PageInv, SlotTypeOK
<1>2. CASE EmptyLoop(t) \/ PassOver(t) \/ Provision(t)
  BY <1>2 DEF EmptyLoop, PassOver, Provision, Shrinks, slotHistory
<1>3. CASE SaveRoute(t)
  <2>1. \/ UNCHANGED route
        \/ route' = [route EXCEPT ![k] = [route[k] EXCEPT !.status = "active"]]
    BY <1>3 DEF SaveRoute
  <2>2. k \in Keys => [route[k] EXCEPT !.status = "active"].bound = route[k].bound
    BY <1>1 DEF Rows
  <2>3. UNCHANGED revived
    BY <1>3 DEF SaveRoute, slotHistory
  <2> HIDE DEF k
  <2> QED BY <1>1, <2>1, <2>2, <2>3 DEF Shrinks
<1>4. CASE DescribeRoute(t)
  <2>1. \/ UNCHANGED route
        \/ \E r : route' = [route EXCEPT ![k] = r] /\ r.bound = NoPhone
    BY <1>4 DEF DescribeRoute
  <2>2. UNCHANGED revived
    BY <1>4 DEF DescribeRoute
  <2> HIDE DEF k
  <2> QED BY <1>1, <2>1, <2>2 DEF Shrinks
<1>5. CASE WriteRoute(t)
  <2>1. \/ /\ route' = [route EXCEPT ![k] = Synced(h, k)]
           /\ revived' = IF h.seen[k].bound \in {NoPhone, route[k].bound} THEN revived
                         ELSE revived \union {k[2]}
        \/ /\ route' = [route EXCEPT ![k] = [route[k] EXCEPT !.status = "broken"]]
           /\ UNCHANGED revived
    BY <1>5 DEF WriteRoute
  <2>2. k \in Keys => [route[k] EXCEPT !.status = "broken"].bound = route[k].bound
    BY <1>1 DEF Rows
  <2>3. Synced(h, k).bound = h.seen[k].bound
    BY DEF Synced
  <2> HIDE DEF h, k
  <2>4. revived \subseteq revived'
    BY <2>1
  <2>5. CASE /\ route' = [route EXCEPT ![k] = Synced(h, k)]
             /\ revived' = IF h.seen[k].bound \in {NoPhone, route[k].bound} THEN revived
                           ELSE revived \union {k[2]}
    <3>1. revived' = {} => h.seen[k].bound \in {NoPhone, route[k].bound}
      BY <2>5
    <3>2. \A j \in Keys : route'[j] = IF j = k THEN Synced(h, k) ELSE route[j]
      BY <1>1, <2>5
    <3> QED BY <2>3, <2>4, <3>1, <3>2 DEF Shrinks
  <2>6. CASE route' = [route EXCEPT ![k] = [route[k] EXCEPT !.status = "broken"]]
    BY <1>1, <2>2, <2>4, <2>6 DEF Shrinks
  <2> QED BY <2>1, <2>5, <2>6
<1> QED BY <1>2, <1>3, <1>4, <1>5 DEF SyncStep

LEMMA BindTakes ==
    ASSUME PageInv, NEW p \in Phones, Bind(p)
    PROVE  UNCHANGED route \/ \E s \in Slots : Takes(p, s) /\ task'[p] # task[p]
<1> p \in Tasks BY DEF Tasks
<1> DEFINE h == task[p]
<1> DEFINE found == IF OwnSlot(p) # {} THEN OwnSlot(p) ELSE FreeSlots(h.lim)
<1> DEFINE s == Min(found)
<1> DEFINE got == [Idle EXCEPT !.step = "feed", !.lim = s]
<1>1. \/ /\ found # {} /\ SetTask(p, got)
         /\ route' = [k \in Keys |-> IF k[2] = s /\ route[k] # NoRoute
                                     THEN [route[k] EXCEPT !.bound = p] ELSE route[k]]
      \/ UNCHANGED route
  BY DEF Bind
<1>2. CASE /\ found # {} /\ SetTask(p, got)
           /\ route' = [k \in Keys |-> IF k[2] = s /\ route[k] # NoRoute
                                       THEN [route[k] EXCEPT !.bound = p] ELSE route[k]]
  <2>1. found \subseteq Slots /\ Slots \subseteq Nat
    BY SlotAssumption DEF OwnSlot, FreeSlots, Slots
  <2>2. s \in found
    BY <1>2, <2>1, MinIsLeast
  <2>3. /\ s \in Slots
        /\ \/ p \in Held(s)
           \/ /\ Held(s) = {} /\ InUse < task[p].lim
              /\ \A r \in Slots : p \notin Held(r)
    <3>1. CASE OwnSlot(p) # {}
      <4>1. s \in OwnSlot(p)
        BY <2>2, <3>1
      <4> HIDE DEF s
      <4> QED BY <4>1 DEF OwnSlot
    <3>2. CASE OwnSlot(p) = {}
      <4>1. s \in FreeSlots(task[p].lim)
        BY <2>2, <3>2
      <4> HIDE DEF s
      <4>2. \A r \in Slots : p \notin Held(r)
        BY <3>2 DEF OwnSlot
      <4>3. s \in Slots /\ s \notin Occupied /\ ~(InUse >= task[p].lim)
        BY <4>1 DEF FreeSlots
      <4>4. InUse < task[p].lim
        <5>1. task[p].lim \in Nat /\ InUse \in Nat
          <6>1. IsFiniteSet(Slots)
            BY SlotAssumption, FS_Interval DEF Slots
          <6>2. IsFiniteSet(Occupied)
            BY <6>1, FS_Subset DEF Occupied
          <6> QED BY <6>2, Typed, FS_CardinalityType DEF InUse, SlotTypeOK
        <5> QED BY <4>3, <5>1
      <4> QED BY <4>2, <4>3, <4>4 DEF Occupied
    <3> QED BY <3>1, <3>2
  <2> HIDE DEF s, found
  <2>4. route \in [Keys -> Rows] /\ SlotTypeOK /\ h.step \in {"bind", "bindAgain"}
    BY DEF PageInv, SlotTypeOK, Bind
  <2>5. \A k \in Keys : IF k[2] = s THEN route'[k].bound \in {p, NoPhone}
                        ELSE route'[k] = route[k]
    BY <1>2, <2>4, NoRow, BoundTo
  <2>6. task'[p] # task[p]
    <3>1. s \in Nat BY <2>1, <2>3
    <3>2. got.step = "feed" BY DEF Idle
    <3>3. Resting(route, got) BY <3>1, Rests
    <3> HIDE DEF got
    <3>4. task'[p] = got BY <1>2, <2>4, <3>3, TaskSet DEF Resting
    <3> QED BY <2>4, <3>2, <3>4
  <2> QED BY <2>3, <2>5, <2>6 DEF Takes
<1> QED BY <1>1, <1>2

LEMMA HoldersChange ==
    ASSUME PageInv, SlotNext
    PROVE  /\ revived \subseteq revived'
           /\ revived' = {} =>
                 Shrinks \/ \E p \in Phones : \E s \in Slots : Takes(p, s) /\ task'[p] # task[p]
<1> DEFINE Goal == /\ revived \subseteq revived'
                   /\ revived' = {} =>
                         Shrinks \/ \E p \in Phones : \E s \in Slots : Takes(p, s) /\ task'[p] # task[p]
<1>1. UNCHANGED route => Shrinks
  BY DEF Shrinks
<1>2. ASSUME NEW t \in Tasks, SyncStep(t) PROVE Goal
  BY <1>2, SyncShrinks
<1>3. ASSUME NEW t \in Syncers, StartSync(t) PROVE Goal
  BY <1>1, <1>3 DEF StartSync, slotHistory
<1>4. ASSUME NEW p \in Phones, Ask(p) \/ Recover(p) \/ Feed(p) PROVE Goal
  BY <1>1, <1>4 DEF Ask, Recover, Feed, slotHistory
<1>5. ASSUME NEW p \in Phones, Bind(p) PROVE Goal
  <2>1. UNCHANGED revived
    BY <1>5 DEF Bind, slotHistory
  <2> QED BY <1>1, <1>5, <2>1, BindTakes
<1>6. ASSUME NEW t \in Tasks, SyncCrash(t) PROVE Goal
  BY <1>1, <1>6 DEF SyncCrash
<1>7. ASSUME NEW s \in Slots, Clear(s) PROVE Goal
  <2>1. UNCHANGED revived
    BY <1>7 DEF Clear, slotHistory
  <2>2. Shrinks
    BY <1>7, BoundTo DEF Clear, Shrinks, PageInv, SlotTypeOK
  <2> QED BY <2>1, <2>2
<1>8. ASSUME AddDevice \/ RemoveDevice \/ ChangeAccess \/ ChangeLimit PROVE Goal
  BY <1>1, <1>8 DEF AddDevice, RemoveDevice, ChangeAccess, ChangeLimit, slotHistory
<1> HIDE DEF Goal
<1>9. ASSUME NEW p \in Phones, Request(p) PROVE Goal
  <2>1. p \in Tasks BY DEF Tasks
  <2>2. CASE SyncStep(p) BY <1>2, <2>1, <2>2
  <2>3. CASE Bind(p) BY <1>5, <2>3
  <2>4. CASE Ask(p) \/ Recover(p) \/ Feed(p) BY <1>4, <2>4
  <2> QED BY <1>9, <2>2, <2>3, <2>4 DEF Request
<1>10. ASSUME NEW t \in Syncers, StartSync(t) \/ SyncStep(t) PROVE Goal
  <2>1. t \in Tasks BY DEF Tasks
  <2>2. CASE SyncStep(t) BY <1>2, <2>1, <2>2
  <2>3. CASE StartSync(t) BY <1>3, <2>3
  <2> QED BY <1>10, <2>2, <2>3
<1>11. Goal
  BY <1>6, <1>7, <1>8, <1>9, <1>10 DEF SlotNext
<1> QED BY <1>11 DEF Goal

LEMMA HeldShrinks ==
    ASSUME Shrinks, NEW s \in Slots
    PROVE  Held(s)' \subseteq Held(s)
<1>1. \A c \in CountrySet : <<c, s>> \in Keys
  BY DEF Keys
<1>2. \A c \in CountrySet : route'[<<c, s>>].bound \in {route[<<c, s>>].bound, NoPhone}
  BY <1>1 DEF Shrinks
<1> QED BY <1>2 DEF Held

LEMMA HeldTakes ==
    ASSUME NEW p \in Phones, NEW s \in Slots, Takes(p, s), NEW r \in Slots
    PROVE  IF r = s THEN Held(r)' \subseteq {p} ELSE Held(r)' = Held(r)
<1>1. \A c \in CountrySet : <<c, r>> \in Keys /\ <<c, r>>[2] = r
  BY DEF Keys
<1>2. CASE r = s
  <2>1. \A c \in CountrySet : route'[<<c, r>>].bound \in {p, NoPhone}
    BY <1>1, <1>2 DEF Takes
  <2> QED BY <1>2, <2>1 DEF Held
<1>3. CASE r # s
  <2>1. \A c \in CountrySet : route'[<<c, r>>] = route[<<c, r>>]
    BY <1>1, <1>3 DEF Takes
  <2> QED BY <1>3, <2>1 DEF Held
<1> QED BY <1>2, <1>3

LEMMA ExclusiveNext == SlotInv /\ [SlotNext]_slotVars => Exclusive'
<1> SUFFICES ASSUME SlotInv, [SlotNext]_slotVars, revived' = {}
             PROVE  /\ \A s \in Slots : \A p, q \in Held(s)' : p = q
                    /\ \A r, s \in Slots : \A p \in Held(r)' : p \in Held(s)' => r = s
  BY DEF Exclusive
<1>1. CASE SlotNext
  <2>1. revived = {}
    BY <1>1, HoldersChange DEF SlotInv
  <2>2. /\ \A s \in Slots : \A p, q \in Held(s) : p = q
        /\ \A r, s \in Slots : \A p \in Held(r) : p \in Held(s) => r = s
    BY <2>1 DEF SlotInv, Exclusive
  <2>3. CASE Shrinks
    <3>1. \A s \in Slots : Held(s)' \subseteq Held(s)
      BY <2>3, HeldShrinks
    <3> QED BY <2>2, <3>1
  <2>4. ASSUME NEW p \in Phones, NEW s \in Slots, Takes(p, s)
        PROVE  /\ \A r \in Slots : \A x, y \in Held(r)' : x = y
               /\ \A q, r \in Slots : \A x \in Held(q)' : x \in Held(r)' => q = r
    <3>1. \A r \in Slots : IF r = s THEN Held(r)' \subseteq {p} ELSE Held(r)' = Held(r)
      BY <2>4, HeldTakes
    <3>2. \A r \in Slots : p \in Held(r) => r = s
      BY <2>2, <2>4 DEF Takes
    <3> QED BY <2>2, <3>1, <3>2
  <2>5. Shrinks \/ \E p \in Phones : \E s \in Slots : Takes(p, s) /\ task'[p] # task[p]
    BY <1>1, HoldersChange DEF SlotInv
  <2>6. CASE \E p \in Phones : \E s \in Slots : Takes(p, s) /\ task'[p] # task[p]
    <3>1. PICK p \in Phones : \E s \in Slots : Takes(p, s)
      BY <2>6
    <3>2. PICK s \in Slots : Takes(p, s)
      BY <3>1
    <3> QED BY <2>4, <3>2
  <2> QED BY <2>3, <2>5, <2>6
<1>2. CASE UNCHANGED slotVars
  <2>1. UNCHANGED <<route, revived>>
    BY <1>2 DEF slotVars, slotHistory
  <2>2. \A s \in Slots : Held(s)' = Held(s)
    BY <2>1 DEF Held
  <2> QED BY <2>1, <2>2 DEF SlotInv, Exclusive
<1> QED BY <1>1, <1>2

LEMMA SlotsStep == SlotInv /\ [SlotNext]_slotVars => SlotInv'
  BY PageNext, ExclusiveNext DEF SlotInv

-----------------------------------------------------------------------------
(* Rows without a link. *)
Linked ==
    \A k \in Keys : route[k] # NoRoute /\ route[k].link = "none" =>
        k \in undescribed \/ \E t \in Tasks : Describing(task[t], k)
(* No row comes to be without a link. *)
LinkStays(k) ==
    \/ route'[k] = NoRoute \/ route'[k].link # "none"
    \/ route[k] # NoRoute /\ route'[k].link = route[k].link

LEMMA OneTask ==
    ASSUME SlotTypeOK, NEW t \in Tasks, NEW h, SetTask(t, h)
    PROVE  task'[t] = h /\ \A u \in Tasks : u # t => task'[u] = task[u]
<1>1. task' = [u \in Tasks |-> IF u = t THEN h ELSE task[u]]
  BY DEF SlotTypeOK, SetTask
<1> QED BY <1>1

LEMMA LinksStay ==
    ASSUME Linked, undescribed \subseteq undescribed', \A k \in Keys : LinkStays(k),
           \A t \in Tasks : \A k \in Keys : Describing(task[t], k) =>
              \/ Describing(task'[t], k) \/ k \in undescribed'
              \/ route'[k] = NoRoute \/ route'[k].link # "none"
    PROVE  Linked'
  BY DEF Linked, LinkStays

LEMMA OtherTask ==
    ASSUME SlotTypeOK, Linked, NEW t \in Tasks, task[t].step # "describe", NEW h, SetTask(t, h),
           undescribed' = undescribed, \A k \in Keys : LinkStays(k)
    PROVE  Linked'
<1>1. \A u \in Tasks : u # t => task'[u] = task[u]
  BY OneTask
<1>2. \A u \in Tasks : \A k \in Keys : Describing(task[u], k) => Describing(task'[u], k)
  BY <1>1 DEF Describing
<1> QED BY <1>2, LinksStay

LEMMA SameRows == ASSUME UNCHANGED route PROVE \A k \in Keys : LinkStays(k)
  BY NoRow DEF LinkStays

LEMMA SaveRouteLinks ==
    ASSUME PageInv, Linked, NEW t \in Tasks, SaveRoute(t) PROVE Linked'
<1> DEFINE h == task[t]  k == Head(h.todo)
           g == [h EXCEPT !.step = "describe", !.fresh = route[k] = NoRoute]
<1>1. /\ h.step = "save" /\ undescribed' = undescribed
      /\ \/ /\ SetTask(t, g)
            /\ route' = IF route[k] = NoRoute
                        THEN [route EXCEPT ![k].status = "active"] ELSE route
         \/ SetTask(t, Dropped(t)) /\ UNCHANGED route
  BY DEF SaveRoute, slotHistory
<1>2. SlotTypeOK /\ Carrying(h) /\ route \in [Keys -> Rows]
  BY Typed DEF SlotTypeOK
<1>3. CASE SetTask(t, Dropped(t)) /\ UNCHANGED route
  BY <1>1, <1>2, <1>3, OtherTask, SameRows
<1>4. CASE /\ SetTask(t, g)
           /\ route' = IF route[k] = NoRoute
                       THEN [route EXCEPT ![k].status = "active"] ELSE route
  <2>1. g.step = "describe" /\ g.todo = h.todo
    BY <1>2 DEF Carrying
  <2>2. \A j \in Keys : j # k => route'[j] = route[j]
    BY <1>2, <1>4
  <2>3. task'[t] = g /\ \A u \in Tasks : u # t => task'[u] = task[u]
    BY <1>2, <1>4, OneTask
  <2>4. Describing(task'[t], k)
    BY <2>1, <2>3 DEF Describing
  <2>5. \A u \in Tasks : \A j \in Keys : Describing(task[u], j) => Describing(task'[u], j)
    BY <1>1, <2>3 DEF Describing
  <2> HIDE DEF h, k, g
  <2> QED BY <1>1, <2>2, <2>4, <2>5 DEF Linked
<1> QED BY <1>1, <1>3, <1>4

LEMMA DescribeRouteLinks ==
    ASSUME PageInv, Linked, NEW t \in Tasks, DescribeRoute(t) PROVE Linked'
<1> DEFINE h == task[t]  k == Head(h.todo)
           r == [status |-> "active", link |-> IF h.fresh THEN "own" ELSE "other",
                 bound |-> NoPhone]
<1>1. \/ /\ route' = [route EXCEPT ![k] = r] /\ undescribed' = undescribed
         /\ \E g : SetTask(t, g)
      \/ /\ UNCHANGED route /\ undescribed' = undescribed \union {k}
         /\ SetTask(t, Dropped(t))
  BY DEF DescribeRoute
<1>2. SlotTypeOK /\ route \in [Keys -> Rows]
  BY Typed DEF SlotTypeOK
<1>3. \A u \in Tasks : u # t => task'[u] = task[u]
  BY <1>1, <1>2, OneTask
<1>4. \A j \in Keys : Describing(task[t], j) => j = k
  BY DEF Describing
<1>5. r.link # "none"
  OBVIOUS
<1> HIDE DEF h, k, r
<1>6. CASE route' = [route EXCEPT ![k] = r] /\ undescribed' = undescribed
  <2>1. \A j \in Keys : route'[j] = IF j = k THEN r ELSE route[j]
    BY <1>2, <1>6
  <2>2. \A j \in Keys : LinkStays(j)
    BY <1>5, <2>1, NoRow DEF LinkStays
  <2>3. \A u \in Tasks : \A j \in Keys : Describing(task[u], j) =>
            Describing(task'[u], j) \/ route'[j].link # "none"
    BY <1>3, <1>4, <1>5, <2>1
  <2> QED BY <1>6, <2>2, <2>3, LinksStay
<1>7. CASE UNCHANGED route /\ undescribed' = undescribed \union {k}
  <2>1. \A u \in Tasks : \A j \in Keys : Describing(task[u], j) =>
            Describing(task'[u], j) \/ j \in undescribed'
    BY <1>3, <1>4, <1>7
  <2> QED BY <1>7, <2>1, SameRows, LinksStay
<1> QED BY <1>1, <1>6, <1>7

LEMMA WriteRouteLinks ==
    ASSUME PageInv, Linked, NEW t \in Tasks, WriteRoute(t) PROVE Linked'
<1> DEFINE h == task[t]  k == Head(h.todo)
<1>1. /\ h.step = "sync" /\ ~Missing(h, k) /\ SetTask(t, Dropped(t)) /\ undescribed' = undescribed
      /\ \/ route' = [route EXCEPT ![k] = Synced(h, k)]
         \/ route' = [route EXCEPT ![k] = [route[k] EXCEPT !.status = "broken"]]
  BY DEF WriteRoute
<1>2. SlotTypeOK /\ Carrying(h) /\ Known(route, h) /\ route \in [Keys -> Rows]
  BY Typed DEF SlotTypeOK
<1>3. h.seen[k] # NoRoute
  BY <1>1 DEF Missing
<1>4. Synced(h, k).link # "none"
  BY DEF Synced
<1>5. k \in Keys => route[k] # NoRoute /\ [route[k] EXCEPT !.status = "broken"].link = route[k].link
  BY <1>2, <1>3 DEF Known, Rows
<1>6. h.step # "describe"
  BY <1>1
<1> HIDE DEF k
<1>7. \A j \in Keys : LinkStays(j)
  BY <1>1, <1>2, <1>4, <1>5, NoRow DEF LinkStays
<1> QED BY <1>1, <1>2, <1>6, <1>7, OtherTask

LEMMA CrashLinks ==
    ASSUME PageInv, Linked, NEW t \in Tasks, SyncCrash(t) PROVE Linked'
<1>1. /\ SetTask(t, Idle) /\ UNCHANGED route
      /\ undescribed' = IF task[t].step = "describe" THEN undescribed \union {Head(task[t].todo)}
                        ELSE undescribed
  BY DEF SyncCrash
<1>2. \A u \in Tasks : u # t => task'[u] = task[u]
  BY <1>1, OneTask DEF PageInv
<1>3. \A u \in Tasks : \A k \in Keys : Describing(task[u], k) =>
          Describing(task'[u], k) \/ k \in undescribed'
  BY <1>1, <1>2 DEF Describing
<1> QED BY <1>1, <1>3, SameRows, LinksStay

LEMMA BindLinks ==
    ASSUME PageInv, Linked, NEW p \in Phones, Bind(p) PROVE Linked'
<1> p \in Tasks BY DEF Tasks
<1>1. /\ task[p].step # "describe" /\ undescribed' = undescribed
      /\ \E h : SetTask(p, h)
      /\ \/ UNCHANGED route
         \/ \E s : route' = [k \in Keys |-> IF k[2] = s /\ route[k] # NoRoute
                                            THEN [route[k] EXCEPT !.bound = p] ELSE route[k]]
  BY DEF Bind, slotHistory
<1>2. SlotTypeOK /\ route \in [Keys -> Rows]
  BY Typed DEF SlotTypeOK
<1>3. ASSUME NEW k \in Keys PROVE LinkStays(k)
  <2>1. CASE UNCHANGED route BY <2>1, SameRows
  <2>2. CASE ~UNCHANGED route
    <3>1. route'[k] = route[k] \/ (route[k] # NoRoute /\ route'[k] = [route[k] EXCEPT !.bound = p])
      BY <1>1, <1>2, <2>2
    <3>2. route[k] \in Rows BY <1>2
    <3>3. [route[k] EXCEPT !.bound = p].link = route[k].link BY <3>2, BoundTo
    <3> QED BY <3>1, <3>3, NoRow DEF LinkStays
  <2> QED BY <2>1, <2>2
<1> QED BY <1>1, <1>2, <1>3, OtherTask

LEMMA RestLinks ==
    ASSUME PageInv, Linked, UNCHANGED <<route, undescribed>>,
           UNCHANGED task \/ \E t \in Tasks : \E h : task[t].step # "describe" /\ SetTask(t, h)
    PROVE  Linked'
<1>1. CASE UNCHANGED task
  BY <1>1, SameRows, LinksStay
<1>2. CASE \E t \in Tasks : \E h : task[t].step # "describe" /\ SetTask(t, h)
  BY <1>2, SameRows, OtherTask DEF PageInv
<1> QED BY <1>1, <1>2

LEMMA LinkedNext == PageInv /\ Linked /\ [SlotNext]_slotVars => Linked'
<1> SUFFICES ASSUME PageInv, Linked, [SlotNext]_slotVars PROVE Linked'
  OBVIOUS
<1>1. ASSUME NEW t \in Tasks, EmptyLoop(t) \/ PassOver(t) PROVE Linked'
  <2>1. /\ task[t].step # "describe" /\ UNCHANGED <<route, undescribed>>
        /\ \E h : SetTask(t, h)
    BY <1>1 DEF EmptyLoop, PassOver, slotHistory
  <2> QED BY <2>1, RestLinks
<1>2. ASSUME NEW t \in Tasks, Provision(t) PROVE Linked'
  <2>1. /\ task[t].step # "describe" /\ UNCHANGED <<route, undescribed>>
        /\ \E h : SetTask(t, h)
    BY <1>2 DEF Provision, slotHistory
  <2> QED BY <2>1, RestLinks
<1>3. ASSUME NEW t \in Tasks, SyncStep(t) PROVE Linked'
  BY <1>1, <1>2, <1>3, SaveRouteLinks, DescribeRouteLinks, WriteRouteLinks DEF SyncStep
<1>4. ASSUME NEW t \in Syncers, StartSync(t) PROVE Linked'
  <2>1. /\ t \in Tasks /\ task[t].step # "describe" /\ UNCHANGED <<route, undescribed>>
        /\ \E h : SetTask(t, h)
    BY <1>4 DEF StartSync, slotHistory, Tasks
  <2> QED BY <2>1, RestLinks
<1>5. ASSUME NEW p \in Phones, Ask(p) \/ Recover(p) \/ Feed(p) PROVE Linked'
  <2>1. /\ p \in Tasks /\ task[p].step # "describe" /\ UNCHANGED <<route, undescribed>>
        /\ \E h : SetTask(p, h)
    BY <1>5 DEF Ask, Recover, Feed, slotHistory, Tasks
  <2> QED BY <2>1, RestLinks
<1>6. ASSUME NEW p \in Phones, Request(p) PROVE Linked'
  <2>1. p \in Tasks BY DEF Tasks
  <2> QED BY <1>3, <1>5, <1>6, <2>1, BindLinks DEF Request
<1>7. ASSUME NEW s \in Slots, Clear(s) PROVE Linked'
  <2>1. UNCHANGED <<task, undescribed>>
    BY <1>7 DEF Clear, slotHistory
  <2>2. \A k \in Keys : LinkStays(k)
    <3>1. Rebinds BY <1>7, ClearStep
    <3> QED BY <3>1, NoRow DEF Rebinds, LinkStays
  <2> QED BY <2>1, <2>2, LinksStay
<1>8. CASE AddDevice \/ RemoveDevice \/ ChangeAccess \/ ChangeLimit
  <2>1. UNCHANGED <<route, undescribed, task>>
    BY <1>8 DEF AddDevice, RemoveDevice, ChangeAccess, ChangeLimit, slotHistory
  <2> QED BY <2>1, RestLinks
<1>9. CASE UNCHANGED slotVars
  <2>1. UNCHANGED <<route, undescribed, task>>
    BY <1>9 DEF slotVars, slotHistory
  <2> QED BY <2>1, RestLinks
<1>10. ASSUME NEW t \in Syncers, StartSync(t) \/ SyncStep(t) PROVE Linked'
  <2>1. t \in Tasks BY DEF Tasks
  <2> QED BY <1>3, <1>4, <1>10, <2>1
<1> QED BY <1>6, <1>7, <1>8, <1>9, <1>10, CrashLinks DEF SlotNext

(* A row without a link is one whose creator stopped, or is still at work;  *)
(* every row of a 3x-ui panel has its client there and no other's link,     *)
(* whichever syncs overlap, fail or die.                                    *)
THEOREM RowsMatchThePanel == SlotSpec => []RoutesMatchPanel
<1>1. SlotInit => SlotInv /\ Linked
  <2>1. SlotInit => \A k \in Keys : route[k] = NoRoute \/ route[k].link = "own"
    BY DEF SlotInit
  <2> QED BY <2>1, SlotStarts DEF Linked
<1>2. SlotInv /\ Linked /\ [SlotNext]_slotVars => (SlotInv /\ Linked)'
  BY SlotsStep, LinkedNext DEF SlotInv
<1>3. SlotInv /\ Linked => RoutesMatchPanel
  <2> SUFFICES ASSUME SlotInv, Linked PROVE RoutesMatchPanel
    OBVIOUS
  <2>1. \A t \in Tasks : \A k : Describing(task[t], k) =>
           task[t].step = "describe" /\ Head(task[t].todo) = k
    BY DEF Describing
  <2> QED BY <2>1 DEF SlotInv, PageInv, Panelled, Linked, RoutesMatchPanel
<1> QED BY <1>1, <1>2, <1>3, PTL DEF SlotSpec

(* Until a stale write brings an old binding back, a slot has one device    *)
(* and a device one slot.                                                   *)
THEOREM SlotsAreExclusive == SlotSpec => []BindingsExclusive
<1>1. SlotInit => SlotInv
  BY SlotStarts
<1>2. SlotInv /\ [SlotNext]_slotVars => SlotInv'
  BY SlotsStep
<1>3. SlotInv => BindingsExclusive
  <2> SUFFICES ASSUME SlotInv, revived = {}
               PROVE  /\ \A s \in Slots : Cardinality(Held(s)) <= 1
                      /\ \A r, s \in Slots : Held(r) \intersect Held(s) # {} => r = s
    BY DEF BindingsExclusive
  <2>1. ASSUME NEW s \in Slots PROVE Cardinality(Held(s)) <= 1
    <3>1. CASE Held(s) = {}
      <4>1. Cardinality(Held(s)) = 0
        BY <3>1, FS_EmptySet
      <4> QED BY <4>1
    <3>2. CASE Held(s) # {}
      <4>1. PICK p : p \in Held(s)
        BY <3>2
      <4>2. Held(s) = {p}
        BY <4>1 DEF SlotInv, Exclusive
      <4>3. Cardinality(Held(s)) = 1
        BY <4>2, FS_Singleton
      <4> QED BY <4>3
    <3> QED BY <3>1, <3>2
  <2>2. \A r, s \in Slots : Held(r) \intersect Held(s) # {} => r = s
    BY DEF SlotInv, Exclusive
  <2> QED BY <2>1, <2>2
<1> QED BY <1>1, <1>2, <1>3, PTL DEF SlotSpec

-----------------------------------------------------------------------------
LEMMA InUseType ==
    ASSUME PageInv
    PROVE  IsFiniteSet(Occupied) /\ legacy \in Nat /\ Cardinality(Occupied) \in Nat
<1>1. IsFiniteSet(Slots)
  BY SlotAssumption, FS_Interval DEF Slots
<1>2. IsFiniteSet(Occupied)
  BY <1>1, FS_Subset DEF Occupied
<1> QED BY <1>2, FS_CardinalityType DEF PageInv, SlotTypeOK

LEMMA LimitHolds ==
    ASSUME PageInv, PageInv', SlotNext, InUse' > InUse, revived' = {}
    PROVE  InUse' <= limit \/ \E p \in Phones : task'[p] # task[p] /\ InUse' <= task[p].lim
<1>1. /\ IsFiniteSet(Occupied) /\ legacy \in Nat /\ Cardinality(Occupied) \in Nat
      /\ IsFiniteSet(Occupied') /\ legacy' \in Nat /\ Cardinality(Occupied') \in Nat
      /\ limit \in Nat
  <2>1. /\ IsFiniteSet(Occupied) /\ legacy \in Nat /\ Cardinality(Occupied) \in Nat
    BY InUseType
  <2>2. legacy' \in Nat /\ limit \in Nat
    BY SlotAssumption DEF PageInv, SlotTypeOK, Slots
  <2>3. IsFiniteSet(Slots) /\ Occupied' \subseteq Slots
    BY SlotAssumption, FS_Interval DEF Slots, Occupied
  <2>4. IsFiniteSet(Occupied')
    BY <2>3, FS_Subset
  <2>5. Cardinality(Occupied') \in Nat
    BY <2>4, FS_CardinalityType
  <2> QED BY <2>1, <2>2, <2>4, <2>5
<1>2. CASE AddDevice
  <2>1. legacy' = legacy + 1 /\ UNCHANGED route /\ InUse < limit
    BY <1>2 DEF AddDevice
  <2>2. Occupied' = Occupied
    BY <2>1 DEF Occupied, Held
  <2> QED BY <1>1, <2>1, <2>2 DEF InUse
<1>3. CASE ~AddDevice
  <2>1. legacy' <= legacy
    <3>1. CASE RemoveDevice
      BY <1>1, <3>1 DEF RemoveDevice
    <3>2. CASE ~RemoveDevice
      <4>1. ASSUME NEW t, SyncStep(t) PROVE UNCHANGED legacy
        BY <4>1 DEF SyncStep, EmptyLoop, PassOver, Provision, SaveRoute, DescribeRoute,
           WriteRoute, owner
      <4>2. ASSUME NEW t, StartSync(t) \/ SyncCrash(t) PROVE UNCHANGED legacy
        BY <4>2 DEF StartSync, SyncCrash, owner
      <4>3. ASSUME NEW p, Ask(p) \/ Bind(p) \/ Recover(p) \/ Feed(p) PROVE UNCHANGED legacy
        BY <4>3 DEF Ask, Bind, Recover, Feed, owner
      <4>4. ASSUME NEW s, Clear(s) PROVE UNCHANGED legacy
        BY <4>4 DEF Clear, owner
      <4>5. ASSUME ChangeAccess \/ ChangeLimit PROVE UNCHANGED legacy
        BY <4>5 DEF ChangeAccess, ChangeLimit
      <4>6. UNCHANGED legacy
        BY <1>3, <3>2, <4>1, <4>2, <4>3, <4>4, <4>5 DEF SlotNext, Request
      <4> QED BY <1>1, <4>6
    <3> QED BY <3>1, <3>2
  <2>2. ~(Occupied' \subseteq Occupied)
    <3> SUFFICES ASSUME Occupied' \subseteq Occupied PROVE FALSE
      OBVIOUS
    <3>1. Cardinality(Occupied') <= Cardinality(Occupied)
      BY <1>1, FS_Subset
    <3> QED BY <1>1, <2>1, <3>1 DEF InUse
  <2>3. ~Shrinks
    <3> SUFFICES ASSUME Shrinks PROVE FALSE
      OBVIOUS
    <3>1. \A s \in Slots : Held(s)' \subseteq Held(s)
      BY HeldShrinks
    <3> QED BY <2>2, <3>1 DEF Occupied
  <2>4. PICK p \in Phones : \E s \in Slots : Takes(p, s) /\ task'[p] # task[p]
    BY <2>3, HoldersChange
  <2>5. PICK s \in Slots : Takes(p, s) /\ task'[p] # task[p]
    BY <2>4
  <2>6. \A r \in Slots : r # s => Held(r)' = Held(r)
    BY <2>5, HeldTakes
  <2>7. Occupied' \subseteq Occupied \union {s}
    BY <2>6 DEF Occupied
  <2>8. s \notin Occupied
    BY <2>2, <2>7
  <2>9. InUse < task[p].lim /\ task[p].lim \in Nat
    BY <2>5, <2>8, Typed DEF Takes, Occupied, Tasks
  <2>10. Cardinality(Occupied') <= Cardinality(Occupied) + 1
    <3>1. /\ IsFiniteSet(Occupied \union {s})
          /\ Cardinality(Occupied \union {s}) = Cardinality(Occupied) + 1
      BY <1>1, <2>8, FS_AddElement
    <3>2. Cardinality(Occupied') <= Cardinality(Occupied \union {s})
      BY <2>7, <3>1, FS_Subset
    <3> QED BY <3>1, <3>2
  <2>11. InUse' <= InUse + 1
    BY <1>1, <2>1, <2>10 DEF InUse
  <2>12. InUse \in Nat /\ InUse' \in Nat
    BY <1>1 DEF InUse
  <2>13. InUse' <= task[p].lim
    BY <2>9, <2>11, <2>12
  <2> QED BY <2>5, <2>13
<1> QED BY <1>2, <1>3

(* Until then no device is taken in beyond the limit its request goes by.   *)
THEOREM LimitIsKept == SlotSpec => DevicesWithinLimit
<1>1. SlotInit => SlotInv
  BY SlotStarts
<1>2. SlotInv /\ [SlotNext]_slotVars => SlotInv'
  BY SlotsStep
<1>3. SlotInv /\ SlotInv' /\ [SlotNext]_slotVars =>
        [(InUse' > InUse /\ revived' = {}) =>
            \/ InUse' <= limit
            \/ \E p \in Phones : task'[p] # task[p] /\ InUse' <= task[p].lim]_slotVars
  BY LimitHolds DEF SlotInv
<1> QED BY <1>1, <1>2, <1>3, PTL DEF SlotSpec, DevicesWithinLimit
=============================================================================
