----------------------- MODULE DeviceLifecycleProofs -----------------------
(***************************************************************************)
(* Proofs about DeviceLifecycle for every set of devices and deletions and *)
(* every number of attempts, faults and crashes.                           *)
(***************************************************************************)
EXTENDS DeviceLifecycle, TLAPS

(* When the worker has jobs in hand, and that it has each of them once. *)
HandInOrder ==
    /\ wpc = "idle" => batch = {}
    /\ wpc \in {"idle", "pick"} => cur = NoJob
    /\ cur \notin batch

QueueInv == TypeOK /\ HandInOrder /\ ClaimIsHeld /\ GivenUpAtLimit

(* A creation that has not saved its row, or could not, has none. *)
UnsavedHasNoRow ==
    \A d \in Devices : stage[d] \in {"new", "save", "rollback"} => row[d] = "none"

CoverInv == TypeOK /\ UnsavedHasNoRow /\ FailureIsCovered

(* Who may touch a device: deletions and restore jobs only those somebody   *)
(* has started to delete, finalize jobs only those whose creation failed.   *)
InChannels ==
    /\ \A d \in Existing : stage[d] = "live"
    /\ \A p \in Deleters : dpc[p] # "idle" => target[p] \in touched
    /\ \A d \in Devices : status[<<d, "restore">>] # "none" => d \in touched
    /\ \A d \in Devices : status[<<d, "finalize">>] # "none" => stage[d] = "failed"

ChannelInv == QueueInv /\ InChannels

Whole(d) == \/ row[d] = "full" /\ panel[d] = "on"
            \/ row[d] = "none" /\ panel[d] = "absent"

(* What each step of a finalize job has established for the next. *)
HalfWay(d) ==
    cur = <<d, "finalize">> =>
        /\ wpc = "describe" => row[d] # "none"
        /\ wpc = "restore" => row[d] = "full"
        /\ wpc = "erase" => row[d] = "none"
        /\ wpc = "eraseRow" => row[d] = "none" /\ panel[d] = "absent"
        /\ wpc = "complete" => Whole(d)

Spared == Devices \ (touched \union refused)

WholeWhenDone ==
    \A d \in Spared :
        HalfWay(d) /\ (status[<<d, "finalize">>] = "completed" => Whole(d))

-----------------------------------------------------------------------------
LEMMA EnqueueTypes ==
  ASSUME TypeOK, NEW j \in Jobs, Enqueue(j)
  PROVE  /\ status' \in [Jobs -> Active \union {"none", "completed", "failed"}]
         /\ attempts' \in [Jobs -> Nat] /\ due' \in [Jobs -> BOOLEAN]
<1>1. CASE status[j] \in Active
  BY <1>1 DEF Enqueue, queue, TypeOK
<1>2. CASE status[j] \notin Active
  <2>1. due' \in [Jobs -> BOOLEAN]
    BY <1>2 DEF Enqueue, TypeOK
  <2>2. QED
    BY <1>2, <2>1 DEF Enqueue, TypeOK, Active
<1>3. QED
  BY <1>1, <1>2

(* The panel after any kind of call. *)
LEMMA CallTypes ==
  ASSUME TypeOK, NEW d \in Devices,
         \/ Call(Removed(d)) \/ CallFails(Removed(d)) \/ CallRefused(d)
         \/ Call(Restored(d)) \/ CallFails(Restored(d)) \/ RestoreRefused(d)
         \/ Call([panel EXCEPT ![d] = "on"]) \/ CallFails([panel EXCEPT ![d] = "on"])
  PROVE  /\ panel' \in [Devices -> {"absent", "off", "on"}]
         /\ refused' \subseteq Devices /\ faults' \in Nat
BY DEF TypeOK, Call, CallFails, CallRefused, RestoreRefused, Removed, Restored, Fault

LEMMA JobParts ==
  ASSUME NEW d \in Devices
  PROVE  <<d, "finalize">> \in Jobs /\ <<d, "restore">> \in Jobs
BY DEF Jobs

LEMMA JobDevice ==
  ASSUME NEW j \in Jobs
  PROVE  /\ j[1] \in Devices /\ j[2] \in {"finalize", "restore"}
         /\ j = <<j[1], j[2]>>
BY DEF Jobs

-----------------------------------------------------------------------------
LEMMA CreateTypes ==
  ASSUME TypeOK, NEW d \in Devices, Create(d) \/ CreatorCrash(d)
  PROVE  TypeOK'
<1> USE DEF TypeOK, SetStage, SetRow, Stages, Fault, creation, deletion, queue,
            worker, remote
<1>1. ASSUME \/ AddClient(d) \/ Rollback(d) \/ CleanupClient(d) PROVE TypeOK'
  <2>1. /\ panel' \in [Devices -> {"absent", "off", "on"}]
        /\ refused' \subseteq Devices /\ faults' \in Nat
    BY <1>1, CallTypes DEF AddClient, Rollback, CleanupClient
  <2>2. QED
    BY <1>1, <2>1 DEF AddClient, Rollback, CleanupClient
<1>2. CASE SaveRow(d)
  BY <1>2 DEF SaveRow
<1>3. CASE DescribeClient(d)
  BY <1>3 DEF DescribeClient
<1>4. CASE WriteMetadata(d) \/ WriteMetadataFails(d)
  BY <1>4 DEF WriteMetadata, WriteMetadataFails
<1>5. CASE CleanupRow(d)
  BY <1>5 DEF CleanupRow
<1>6. CASE QueueFinalize(d)
  <2>1. /\ status' \in [Jobs -> Active \union {"none", "completed", "failed"}]
        /\ attempts' \in [Jobs -> Nat] /\ due' \in [Jobs -> BOOLEAN]
    BY <1>6, EnqueueTypes, JobParts DEF QueueFinalize
  <2>2. QED
    BY <1>6, <2>1 DEF QueueFinalize
<1>7. CASE CreatorCrash(d)
  BY <1>7 DEF CreatorCrash, Crashing
<1>8. QED
  BY <1>1, <1>2, <1>3, <1>4, <1>5, <1>6, <1>7 DEF Create

LEMMA DeleteTypes ==
  ASSUME TypeOK, NEW p \in Deleters,
         Delete(p) \/ DeleterCrash(p) \/ \E d \in Devices : StartDelete(p, d)
  PROVE  TypeOK'
<1> USE DEF TypeOK, Then, SetRow, DeleterSteps, Fault, creation, deletion, queue,
            worker, remote
<1>1. ASSUME NEW d \in Devices, StartDelete(p, d) PROVE TypeOK'
  BY <1>1 DEF StartDelete
<1>2. CASE DeleteClient(p) \/ UndoDelete(p)
  <2>1. target[p] \in Devices
    BY <1>2 DEF DeleteClient, UndoDelete
  <2>2. /\ panel' \in [Devices -> {"absent", "off", "on"}]
        /\ refused' \subseteq Devices /\ faults' \in Nat
    BY <1>2, <2>1, CallTypes DEF DeleteClient, UndoDelete
  <2>3. dpc' \in [Deleters -> DeleterSteps]
    BY <1>2 DEF DeleteClient, UndoDelete
  <2>4. \A q \in Deleters : dpc'[q] # "idle" => dpc[q] # "idle"
    BY <1>2 DEF DeleteClient, UndoDelete
  <2>5. QED
    BY <1>2, <2>2, <2>3, <2>4 DEF DeleteClient, UndoDelete
<1>3. CASE DeferCleanup(p) \/ DeferUndo(p)
  <2>1. <<target[p], "restore">> \in Jobs
    BY <1>3, JobParts DEF DeferCleanup, DeferUndo
  <2>2. /\ status' \in [Jobs -> Active \union {"none", "completed", "failed"}]
        /\ attempts' \in [Jobs -> Nat] /\ due' \in [Jobs -> BOOLEAN]
    BY <1>3, <2>1, EnqueueTypes DEF DeferCleanup, DeferUndo
  <2>3. QED
    BY <1>3, <2>2 DEF DeferCleanup, DeferUndo
<1>4. CASE DeleteRow(p)
  BY <1>4 DEF DeleteRow
<1>5. CASE DeleteRowFails(p)
  BY <1>5 DEF DeleteRowFails
<1>6. CASE DeleterCrash(p)
  BY <1>6 DEF DeleterCrash, Crashing
<1>7. QED
  BY <1>1, <1>2, <1>3, <1>4, <1>5, <1>6 DEF Delete

LEMMA WorkTypes ==
  ASSUME TypeOK, Work \/ WorkerCrash \/ \E j \in Jobs : BackoffEnds(j)
  PROVE  TypeOK'
<1> USE DEF TypeOK, SetRow, WorkerSteps, Active, Fault, creation, deletion, queue,
            worker, remote
<1>1. CASE ClaimBatch
  BY <1>1 DEF ClaimBatch
<1>2. CASE PickJob
  BY <1>2 DEF PickJob
<1>3. CASE FinalizeRow
  <2>1. cur[1] \in Devices
    BY <1>3, JobDevice DEF FinalizeRow
  <2>2. QED
    BY <1>3, <2>1 DEF FinalizeRow
<1>4. CASE RestoreClient \/ EraseClient
  <2>1. cur[1] \in Devices
    BY <1>4, JobDevice DEF RestoreClient, EraseClient
  <2>2. /\ panel' \in [Devices -> {"absent", "off", "on"}]
        /\ refused' \subseteq Devices /\ faults' \in Nat
    BY <1>4, <2>1, CallTypes DEF RestoreClient, EraseClient
  <2>3. QED
    BY <1>4, <2>2 DEF RestoreClient, EraseClient
<1>5. CASE EraseRow
  <2>1. cur[1] \in Devices
    BY <1>5, JobDevice DEF EraseRow
  <2>2. QED
    BY <1>5, <2>1 DEF EraseRow
<1>6. CASE CompleteJob
  BY <1>6 DEF CompleteJob
<1>7. CASE ReleaseJob
  <2>1. due' \in [Jobs -> BOOLEAN]
    BY <1>7 DEF ReleaseJob
  <2>2. QED
    BY <1>7, <2>1 DEF ReleaseJob
<1>8. CASE WorkerCrash
  BY <1>8 DEF WorkerCrash, Crashing
<1>9. ASSUME NEW j \in Jobs, BackoffEnds(j) PROVE TypeOK'
  <2>1. due' \in [Jobs -> BOOLEAN]
    BY <1>9 DEF BackoffEnds
  <2>2. QED
    BY <1>9, <2>1 DEF BackoffEnds
<1>10. QED
  BY <1>1, <1>2, <1>3, <1>4, <1>5, <1>6, <1>7, <1>8, <1>9 DEF Work

LEMMA TypeStep == TypeOK /\ [Next]_vars => TypeOK'
<1>1. ASSUME TypeOK, UNCHANGED vars PROVE TypeOK'
  BY <1>1 DEF vars, remote, creation, deletion, queue, worker, TypeOK
<1>2. QED
  BY <1>1, CreateTypes, DeleteTypes, WorkTypes DEF Next

LEMMA InitTypes == Init => TypeOK
BY JobAssumption, DeviceAssumption
   DEF Init, TypeOK, Stages, WorkerSteps, DeleterSteps, Active

(* Type correctness: every step of a creation, a deletion and the worker    *)
(* names a device and a job that exist.                                     *)
THEOREM TypeCorrect == Spec => []TypeOK
BY InitTypes, TypeStep, PTL DEF Spec

-----------------------------------------------------------------------------
(* The queue.  Outside the worker only an enqueue changes a job's status,   *)
(* and never that of an active job.                                         *)
LEMMA QueueKept ==
  ASSUME QueueInv, TypeOK', UNCHANGED worker, crashes' >= crashes,
         crashes' \in Nat, UNCHANGED <<status, attempts>>
  PROVE  QueueInv'
BY DEF QueueInv, TypeOK, HandInOrder, ClaimIsHeld, GivenUpAtLimit, InHand, worker

LEMMA QueueEnqueued ==
  ASSUME QueueInv, TypeOK', UNCHANGED worker, UNCHANGED crashes,
         NEW j \in Jobs, Enqueue(j)
  PROVE  QueueInv'
<1>1. CASE status[j] \in Active
  BY <1>1, QueueKept DEF Enqueue, queue, QueueInv, TypeOK
<1>2. CASE status[j] \notin Active
  <2>1. /\ status' = [status EXCEPT ![j] = "pending"]
        /\ attempts' = [attempts EXCEPT ![j] = 0]
    BY <1>2 DEF Enqueue
  <2>2. j \notin InHand
    BY <1>2 DEF QueueInv, ClaimIsHeld, Active
  <2>3. HandInOrder' /\ InHand' = InHand
    BY DEF QueueInv, HandInOrder, InHand, worker
  <2>4. ClaimIsHeld'
    BY <2>1, <2>2, <2>3 DEF QueueInv, ClaimIsHeld, InHand, TypeOK
  <2>5. GivenUpAtLimit'
    BY <2>1, JobAssumption DEF QueueInv, GivenUpAtLimit, TypeOK
  <2>6. QED
    BY <2>3, <2>4, <2>5 DEF QueueInv
<1>3. QED
  BY <1>1, <1>2

(* The worker's steps, one by one. *)
LEMMA QueueWorked ==
  ASSUME QueueInv, TypeOK', Work \/ WorkerCrash
  PROVE  QueueInv'
<1> USE DEF QueueInv
<1>1. CASE ClaimBatch
  <2>1. batch = {} /\ cur = NoJob /\ InHand = {}
    BY <1>1 DEF ClaimBatch, HandInOrder, InHand
  <2>2. /\ status' = [j \in Jobs |-> IF Claimable(j) THEN "processing" ELSE status[j]]
        /\ batch' = {j \in Jobs : Claimable(j)} /\ wpc' = "pick"
        /\ cur' = cur /\ attempts' = attempts /\ crashes' = crashes
    BY <1>1 DEF ClaimBatch
  <2>3. HandInOrder' /\ InHand' = batch'
    BY <2>1, <2>2, JobAssumption DEF HandInOrder, InHand
  <2>4. ClaimIsHeld'
    BY <2>1, <2>2, <2>3 DEF ClaimIsHeld, TypeOK
  <2>5. GivenUpAtLimit'
    BY <2>2 DEF GivenUpAtLimit, TypeOK, Claimable
  <2>6. QED
    BY <2>3, <2>4, <2>5
<1>2. CASE PickJob
  <2>1. UNCHANGED <<status, attempts, crashes>>
    BY <1>2 DEF PickJob, queue
  <2>2. HandInOrder' /\ InHand' = InHand
    <3>1. cur = NoJob
      BY <1>2 DEF PickJob, HandInOrder
    <3>2. CASE batch = {} /\ wpc' = "idle" /\ UNCHANGED <<batch, cur>>
      BY <3>1, <3>2 DEF HandInOrder, InHand
    <3>3. ASSUME NEW j \in batch, batch' = batch \ {j}, cur' = j,
                 wpc' \in {"restore", "erase", "describe"}
          PROVE  HandInOrder' /\ InHand' = InHand
      <4>1. j # NoJob
        BY JobAssumption DEF TypeOK
      <4>2. QED
        BY <3>1, <3>3, <4>1 DEF HandInOrder, InHand
    <3>4. QED
      BY <1>2, <3>2, <3>3 DEF PickJob
  <2>3. ClaimIsHeld' /\ GivenUpAtLimit'
    BY <2>1, <2>2 DEF ClaimIsHeld, GivenUpAtLimit
  <2>4. QED
    BY <2>2, <2>3
<1>3. CASE FinalizeRow \/ RestoreClient \/ EraseClient \/ EraseRow
  <2>1. /\ UNCHANGED <<status, attempts, crashes, batch, cur>>
        /\ wpc' \notin {"idle", "pick"}
    BY <1>3 DEF FinalizeRow, RestoreClient, EraseClient, EraseRow, queue
  <2>2. HandInOrder' /\ InHand' = InHand
    BY <2>1 DEF HandInOrder, InHand
  <2>3. ClaimIsHeld' /\ GivenUpAtLimit'
    BY <2>1, <2>2 DEF ClaimIsHeld, GivenUpAtLimit
  <2>4. QED
    BY <2>2, <2>3
<1>4. ASSUME CompleteJob \/ ReleaseJob PROVE QueueInv'
  <2>1. /\ cur \in Jobs /\ cur # NoJob /\ cur \in InHand
        /\ status[cur] = "processing" /\ cur \notin batch
    BY <1>4, JobAssumption
       DEF CompleteJob, ReleaseJob, TypeOK, ClaimIsHeld, InHand, HandInOrder
  <2>2. wpc' = "pick" /\ cur' = NoJob /\ batch' = batch /\ crashes' = crashes
    BY <1>4 DEF CompleteJob, ReleaseJob
  <2>3. HandInOrder' /\ InHand' = InHand \ {cur}
    BY <2>1, <2>2, JobAssumption DEF HandInOrder, InHand, TypeOK
  <2>4. /\ \A j \in Jobs \ {cur} : status'[j] = status[j] /\ attempts'[j] = attempts[j]
        /\ status'[cur] # "processing"
    BY <1>4, <2>1 DEF CompleteJob, ReleaseJob, TypeOK
  <2>5. ClaimIsHeld'
    BY <2>1, <2>2, <2>3, <2>4 DEF ClaimIsHeld, InHand, TypeOK
  <2>6. attempts[cur] \in Nat /\ attempts[cur] < MaxAttempts
    BY <2>1, JobAssumption DEF GivenUpAtLimit, TypeOK
  <2>7. /\ attempts'[cur] <= MaxAttempts
        /\ status'[cur] = "failed" <=> attempts'[cur] = MaxAttempts
    <3>1. CASE CompleteJob
      <4>1. attempts' = attempts /\ status'[cur] = "completed"
        BY <2>1, <3>1 DEF CompleteJob, TypeOK
      <4>2. QED
        BY <2>6, <4>1, JobAssumption
    <3>2. CASE ReleaseJob
      <4>1. attempts'[cur] = attempts[cur] + 1
        BY <2>1, <3>2 DEF ReleaseJob, TypeOK
      <4>2. status'[cur] = IF attempts[cur] + 1 >= MaxAttempts THEN "failed" ELSE "pending"
        BY <2>1, <3>2 DEF ReleaseJob, TypeOK
      <4>3. QED
        BY <2>6, <4>1, <4>2, JobAssumption
    <3>3. QED
      BY <1>4, <3>1, <3>2
  <2>8. GivenUpAtLimit'
    BY <2>4, <2>7 DEF GivenUpAtLimit
  <2>9. QED
    BY <2>3, <2>5, <2>8
<1>5. CASE WorkerCrash
  <2>1. /\ wpc' = "idle" /\ batch' = {} /\ cur' = NoJob /\ crashes' # 0
        /\ UNCHANGED <<status, attempts>>
    BY <1>5 DEF WorkerCrash, Crashing, queue, TypeOK
  <2>2. HandInOrder' /\ InHand' = {}
    BY <2>1 DEF HandInOrder, InHand
  <2>3. ClaimIsHeld' /\ GivenUpAtLimit'
    BY <2>1, <2>2 DEF ClaimIsHeld, GivenUpAtLimit
  <2>4. QED
    BY <2>2, <2>3
<1>6. QED
  BY <1>1, <1>2, <1>3, <1>4, <1>5 DEF Work

LEMMA QueueStep == QueueInv /\ [Next]_vars => QueueInv'
<1> SUFFICES ASSUME QueueInv, [Next]_vars PROVE QueueInv'
  OBVIOUS
<1>1. TypeOK /\ TypeOK' /\ crashes \in Nat
  BY TypeStep DEF QueueInv, TypeOK
<1>2. CASE UNCHANGED vars
  BY <1>1, <1>2, QueueKept DEF vars, queue, TypeOK
<1>3. ASSUME NEW d \in Devices, Create(d) \/ CreatorCrash(d) PROVE QueueInv'
  <2>1. CASE QueueFinalize(d)
    BY <1>1, <2>1, JobParts, QueueEnqueued DEF QueueFinalize
  <2>2. CASE CreatorCrash(d)
    BY <1>1, <2>2, QueueKept DEF CreatorCrash, Crashing, queue
  <2>3. CASE ~QueueFinalize(d) /\ ~CreatorCrash(d)
    <3>1. UNCHANGED <<status, attempts, worker, crashes>>
      BY <1>3, <2>3 DEF Create, AddClient, SaveRow, Rollback, DescribeClient,
         WriteMetadata, WriteMetadataFails, CleanupClient, CleanupRow, queue
    <3>2. QED
      BY <1>1, <3>1, QueueKept
  <2>4. QED
    BY <2>1, <2>2, <2>3
<1>4. ASSUME NEW p \in Deleters,
             Delete(p) \/ DeleterCrash(p) \/ \E d \in Devices : StartDelete(p, d)
      PROVE  QueueInv'
  <2>1. CASE DeferCleanup(p) \/ DeferUndo(p)
    <3>1. <<target[p], "restore">> \in Jobs
      BY <1>1, <2>1, JobParts DEF DeferCleanup, DeferUndo, TypeOK
    <3>2. QED
      BY <1>1, <2>1, <3>1, QueueEnqueued DEF DeferCleanup, DeferUndo
  <2>2. CASE DeleterCrash(p)
    BY <1>1, <2>2, QueueKept DEF DeleterCrash, Crashing, queue
  <2>3. CASE ~DeferCleanup(p) /\ ~DeferUndo(p) /\ ~DeleterCrash(p)
    <3>1. UNCHANGED <<status, attempts, worker, crashes>>
      BY <1>4, <2>3 DEF Delete, StartDelete, DeleteClient, DeleteRow,
         DeleteRowFails, UndoDelete, queue
    <3>2. QED
      BY <1>1, <3>1, QueueKept
  <2>4. QED
    BY <2>1, <2>2, <2>3
<1>5. CASE Work \/ WorkerCrash
  BY <1>1, <1>5, QueueWorked
<1>6. ASSUME NEW j \in Jobs, BackoffEnds(j) PROVE QueueInv'
  BY <1>1, <1>6, QueueKept DEF BackoffEnds
<1>7. QED
  BY <1>2, <1>3, <1>4, <1>5, <1>6 DEF Next

LEMMA InitQueue == Init => QueueInv
<1>1. Init => TypeOK
  BY InitTypes
<1>2. Init => HandInOrder /\ ClaimIsHeld /\ GivenUpAtLimit
  BY JobAssumption DEF Init, HandInOrder, ClaimIsHeld, GivenUpAtLimit, InHand
<1>3. QED
  BY <1>1, <1>2 DEF QueueInv

LEMMA QueueInvariant == Spec => []QueueInv
BY InitQueue, QueueStep, PTL DEF Spec

(* A claimed job is in the worker's hands alone until it answers for it.    *)
THEOREM ClaimsAreHeld == Spec => []ClaimIsHeld
<1>1. QueueInv => ClaimIsHeld
  BY DEF QueueInv
<1>2. QED
  BY <1>1, QueueInvariant, PTL

(* A job is given up at its limit, never before and never later.            *)
THEOREM GivenUpExactlyAtLimit == Spec => []GivenUpAtLimit
<1>1. QueueInv => GivenUpAtLimit
  BY DEF QueueInv
<1>2. QED
  BY <1>1, QueueInvariant, PTL

-----------------------------------------------------------------------------
(* No creation that failed is uncovered: once queued a job has a status for *)
(* good, and nobody but the creation makes a row where there was none.      *)
LEMMA EnqueueCovers ==
  ASSUME TypeOK, NEW j \in Jobs, Enqueue(j)
  PROVE  /\ status'[j] # "none"
         /\ \A i \in Jobs : status[i] # "none" => status'[i] # "none"
         /\ \A i \in Jobs \ {j} : status'[i] = status[i]
BY DEF Enqueue, queue, TypeOK, Active

LEMMA CoverKept ==
  ASSUME CoverInv, TypeOK', UNCHANGED creation,
         \A j \in Jobs : status[j] # "none" => status'[j] # "none",
         \A d \in Devices : row[d] = "none" => row'[d] = "none"
  PROVE  CoverInv'
<1>1. UnsavedHasNoRow'
  BY DEF CoverInv, UnsavedHasNoRow, creation
<1>2. FailureIsCovered'
  BY JobParts DEF CoverInv, FailureIsCovered, creation
<1>3. QED
  BY <1>1, <1>2 DEF CoverInv

LEMMA CoverCreated ==
  ASSUME CoverInv, TypeOK', NEW d \in Devices, Create(d) \/ CreatorCrash(d)
  PROVE  CoverInv'
<1> USE DEF CoverInv, TypeOK
<1>1. /\ \A e \in Devices \ {d} : stage'[e] = stage[e] /\ row'[e] = row[e]
      /\ forgotten \subseteq forgotten'
  BY DEF Create, CreatorCrash, AddClient, SaveRow, Rollback, DescribeClient,
         WriteMetadata, WriteMetadataFails, CleanupClient, CleanupRow,
         QueueFinalize, SetStage, SetRow
<1>2. \A j \in Jobs : status[j] # "none" => status'[j] # "none"
  <2>1. CASE QueueFinalize(d)
    BY <2>1, EnqueueCovers, JobParts DEF QueueFinalize
  <2>2. CASE ~QueueFinalize(d)
    BY <2>2 DEF Create, CreatorCrash, AddClient, SaveRow, Rollback, DescribeClient,
         WriteMetadata, WriteMetadataFails, CleanupClient, CleanupRow, queue
  <2>3. QED
    BY <2>1, <2>2
<1>3. stage'[d] \in {"new", "save", "rollback"} => row'[d] = "none"
  BY DEF Create, CreatorCrash, AddClient, SaveRow, Rollback, DescribeClient,
         WriteMetadata, WriteMetadataFails, CleanupClient, CleanupRow,
         QueueFinalize, SetStage, SetRow, UnsavedHasNoRow
<1>4. stage'[d] = "failed" /\ row'[d] # "none" /\ d \notin forgotten'
      => status'[<<d, "finalize">>] # "none"
  <2>1. CASE QueueFinalize(d)
    BY <2>1, EnqueueCovers, JobParts DEF QueueFinalize
  <2>2. CASE AddClient(d) \/ Rollback(d)
    BY <2>2 DEF AddClient, Rollback, UnsavedHasNoRow
  <2>3. CASE SaveRow(d) \/ WriteMetadata(d) \/ WriteMetadataFails(d) \/ CleanupClient(d)
    BY <2>3 DEF SaveRow, WriteMetadata, WriteMetadataFails, CleanupClient, SetStage
  <2>4. CASE DescribeClient(d) \/ CreatorCrash(d)
    BY <2>4 DEF DescribeClient, CreatorCrash, SetStage
  <2>5. CASE CleanupRow(d)
    BY <2>5 DEF CleanupRow, SetStage, SetRow
  <2>6. QED
    BY <2>1, <2>2, <2>3, <2>4, <2>5 DEF Create
<1>5. UnsavedHasNoRow'
  BY <1>1, <1>3 DEF UnsavedHasNoRow
<1>6. FailureIsCovered'
  BY <1>1, <1>2, <1>4, JobParts DEF FailureIsCovered
<1>7. QED
  BY <1>5, <1>6

LEMMA CoverStep == CoverInv /\ [Next]_vars => CoverInv'
<1> SUFFICES ASSUME CoverInv, [Next]_vars PROVE CoverInv'
  OBVIOUS
<1>1. TypeOK /\ TypeOK'
  BY TypeStep DEF CoverInv
<1>2. CASE UNCHANGED vars
  BY <1>1, <1>2, CoverKept DEF vars, creation, queue
<1>3. ASSUME NEW d \in Devices, Create(d) \/ CreatorCrash(d) PROVE CoverInv'
  BY <1>1, <1>3, CoverCreated
<1>4. ASSUME NEW p \in Deleters,
             Delete(p) \/ DeleterCrash(p) \/ \E d \in Devices : StartDelete(p, d)
      PROVE  CoverInv'
  <2>1. \A j \in Jobs : status[j] # "none" => status'[j] # "none"
    <3>1. CASE DeferCleanup(p) \/ DeferUndo(p)
      <4>1. <<target[p], "restore">> \in Jobs
        BY <1>1, <3>1, JobParts DEF DeferCleanup, DeferUndo, TypeOK
      <4>2. QED
        BY <1>1, <3>1, <4>1, EnqueueCovers DEF DeferCleanup, DeferUndo
    <3>2. CASE ~DeferCleanup(p) /\ ~DeferUndo(p)
      BY <1>4, <3>2 DEF Delete, StartDelete, DeleteClient, DeleteRow, DeleterCrash,
         DeleteRowFails, UndoDelete, queue
    <3>3. QED
      BY <3>1, <3>2
  <2>2. UNCHANGED creation /\ \A d \in Devices : row[d] = "none" => row'[d] = "none"
    BY <1>1, <1>4 DEF Delete, StartDelete, DeleteClient, DeferCleanup, DeleteRow,
       DeleteRowFails, UndoDelete, DeferUndo, DeleterCrash, SetRow, TypeOK
  <2>3. QED
    BY <1>1, <2>1, <2>2, CoverKept
<1>5. ASSUME Work \/ WorkerCrash \/ \E j \in Jobs : BackoffEnds(j) PROVE CoverInv'
  <2>1. UNCHANGED creation
    BY <1>5 DEF Work, ClaimBatch, PickJob, FinalizeRow, RestoreClient, EraseClient,
       EraseRow, CompleteJob, ReleaseJob, WorkerCrash, BackoffEnds
  <2>2. \A j \in Jobs : status[j] # "none" => status'[j] # "none"
    BY <1>1, <1>5 DEF Work, ClaimBatch, PickJob, FinalizeRow, RestoreClient,
       EraseClient, EraseRow, CompleteJob, ReleaseJob, WorkerCrash, BackoffEnds,
       queue, TypeOK
  <2>3. \A d \in Devices : row[d] = "none" => row'[d] = "none"
    BY <1>1, <1>5 DEF Work, ClaimBatch, PickJob, FinalizeRow, RestoreClient,
       EraseClient, EraseRow, CompleteJob, ReleaseJob, WorkerCrash, BackoffEnds,
       SetRow, TypeOK
  <2>4. QED
    BY <1>1, <2>1, <2>2, <2>3, CoverKept
<1>6. QED
  BY <1>2, <1>3, <1>4, <1>5 DEF Next

LEMMA CoverInvariant == Spec => []CoverInv
<1>1. Init => CoverInv
  <2>1. Init => TypeOK
    BY InitTypes
  <2>2. QED
    BY <2>1 DEF Init, CoverInv, UnsavedHasNoRow, FailureIsCovered
<1>2. QED
  BY <1>1, CoverStep, PTL DEF Spec

(* Whatever else happens to the device, a creation that failed behind its   *)
(* row and still knew it has a finalize job.                                *)
THEOREM FailuresAreCovered == Spec => []FailureIsCovered
<1>1. CoverInv => FailureIsCovered
  BY DEF CoverInv
<1>2. QED
  BY <1>1, CoverInvariant, PTL

-----------------------------------------------------------------------------
(* The channels through which a device is reached. *)
LEMMA ChannelStep == ChannelInv /\ [Next]_vars => ChannelInv'
<1> SUFFICES ASSUME ChannelInv, [Next]_vars PROVE ChannelInv'
  OBVIOUS
<1>1. QueueInv /\ QueueInv' /\ TypeOK /\ TypeOK' /\ InChannels
  BY QueueStep DEF ChannelInv, QueueInv
<1> SUFFICES InChannels'
  BY <1>1 DEF ChannelInv
<1>2. CASE UNCHANGED vars
  BY <1>1, <1>2 DEF vars, creation, queue, deletion, InChannels
<1>3. ASSUME NEW d \in Devices, Create(d) \/ CreatorCrash(d) PROVE InChannels'
  <2>1. /\ UNCHANGED deletion
        /\ \A e \in Devices \ {d} : stage'[e] = stage[e]
        /\ stage[d] \notin {"live", "failed"}
    BY <1>1, <1>3 DEF Create, CreatorCrash, AddClient, SaveRow, Rollback,
       DescribeClient, WriteMetadata, WriteMetadataFails, CleanupClient,
       CleanupRow, QueueFinalize, SetStage, TypeOK
  <2>2. d \notin Existing /\ status[<<d, "finalize">>] = "none"
    BY <1>1, <2>1 DEF InChannels
  <2>3. CASE QueueFinalize(d)
    <3>1. /\ \A j \in Jobs \ {<<d, "finalize">>} : status'[j] = status[j]
          /\ stage'[d] = "failed"
      BY <1>1, <2>3, EnqueueCovers, JobParts DEF QueueFinalize, SetStage, TypeOK
    <3>2. \A e \in Devices : status'[<<e, "restore">>] = status[<<e, "restore">>]
      BY <3>1, JobParts
    <3>3. \A e \in Devices \ {d} :
             status'[<<e, "finalize">>] = status[<<e, "finalize">>]
      BY <3>1, JobParts
    <3>4. QED
      BY <1>1, <2>1, <2>2, <3>1, <3>2, <3>3, DeviceAssumption DEF InChannels, deletion
  <2>4. CASE ~QueueFinalize(d)
    <3>1. status' = status
      BY <1>3, <2>4 DEF Create, CreatorCrash, AddClient, SaveRow, Rollback,
         DescribeClient, WriteMetadata, WriteMetadataFails, CleanupClient,
         CleanupRow, queue
    <3>2. QED
      BY <1>1, <2>1, <2>2, <3>1, DeviceAssumption DEF InChannels, deletion
  <2>5. QED
    BY <2>3, <2>4
<1>4. ASSUME NEW p \in Deleters,
             Delete(p) \/ DeleterCrash(p) \/ \E d \in Devices : StartDelete(p, d)
      PROVE  InChannels'
  <2>1. UNCHANGED stage
    BY <1>4 DEF Delete, StartDelete, DeleteClient, DeferCleanup, DeleteRow,
       DeleteRowFails, UndoDelete, DeferUndo, DeleterCrash, creation
  <2>2. /\ touched \subseteq touched'
        /\ \A q \in Deleters : dpc'[q] # "idle" => target'[q] \in touched'
    BY <1>1, <1>4 DEF Delete, StartDelete, DeleteClient, DeferCleanup, DeleteRow,
       DeleteRowFails, UndoDelete, DeferUndo, DeleterCrash, Then, InChannels, TypeOK
  <2>3. CASE DeferCleanup(p) \/ DeferUndo(p)
    <3>1. target[p] \in Devices /\ target[p] \in touched
      BY <1>1, <2>3 DEF DeferCleanup, DeferUndo, InChannels, TypeOK
    <3>2. \A j \in Jobs \ {<<target[p], "restore">>} : status'[j] = status[j]
      BY <1>1, <2>3, <3>1, EnqueueCovers, JobParts DEF DeferCleanup, DeferUndo
    <3>3. \A d \in Devices : status'[<<d, "finalize">>] = status[<<d, "finalize">>]
      BY <3>2, JobParts
    <3>4. \A d \in Devices :
             d = target[p] \/ status'[<<d, "restore">>] = status[<<d, "restore">>]
      BY <3>2, JobParts
    <3>5. QED
      BY <1>1, <2>1, <2>2, <3>1, <3>3, <3>4 DEF InChannels
  <2>4. CASE ~DeferCleanup(p) /\ ~DeferUndo(p)
    <3>1. status' = status
      BY <1>4, <2>4 DEF Delete, StartDelete, DeleteClient, DeleteRow, DeleterCrash,
         DeleteRowFails, UndoDelete, queue
    <3>2. QED
      BY <1>1, <2>1, <2>2, <3>1 DEF InChannels
  <2>5. QED
    BY <2>3, <2>4
<1>5. ASSUME Work \/ WorkerCrash \/ \E j \in Jobs : BackoffEnds(j) PROVE InChannels'
  <2>1. UNCHANGED <<stage, dpc, target, touched>>
    BY <1>5 DEF Work, ClaimBatch, PickJob, FinalizeRow, RestoreClient, EraseClient,
       EraseRow, CompleteJob, ReleaseJob, WorkerCrash, BackoffEnds, creation, deletion
  <2>2. \A j \in Jobs : status[j] = "none" => status'[j] = "none"
    <3>1. CASE CompleteJob \/ ReleaseJob
      <4>1. cur \in Jobs /\ status[cur] = "processing"
        BY <1>1, <3>1, JobAssumption
           DEF CompleteJob, ReleaseJob, QueueInv, ClaimIsHeld, InHand, TypeOK
      <4>2. \A j \in Jobs \ {cur} : status'[j] = status[j]
        BY <1>1, <3>1 DEF CompleteJob, ReleaseJob, TypeOK
      <4>3. QED
        BY <4>1, <4>2
    <3>2. CASE ClaimBatch
      BY <3>2 DEF ClaimBatch, Claimable
    <3>3. CASE ~CompleteJob /\ ~ReleaseJob /\ ~ClaimBatch
      BY <1>5, <3>3 DEF Work, PickJob, FinalizeRow, RestoreClient, EraseClient,
         EraseRow, WorkerCrash, BackoffEnds, queue
    <3>4. QED
      BY <3>1, <3>2, <3>3
  <2>3. QED
    BY <1>1, <2>1, <2>2, JobParts DEF InChannels
<1>6. QED
  BY <1>2, <1>3, <1>4, <1>5 DEF Next

-----------------------------------------------------------------------------
(* A device nobody deletes and no refusal was ignored for. *)
LEMMA WholeKept ==
  ASSUME NEW d \in Devices, d \in Spared => HalfWay(d) /\
            (status[<<d, "finalize">>] = "completed" => Whole(d)),
         touched \subseteq touched', refused \subseteq refused',
         row'[d] = row[d], panel'[d] = panel[d], wpc' = wpc, cur' = cur,
         status'[<<d, "finalize">>] = "completed"
            => status[<<d, "finalize">>] = "completed",
         d \in Spared'
  PROVE  HalfWay(d)' /\ (status'[<<d, "finalize">>] = "completed" => Whole(d)')
BY DEF Spared, HalfWay, Whole

(* Calls of the panel for another device. *)
LEMMA CallElsewhere ==
  ASSUME TypeOK, NEW d \in Devices, NEW e \in Devices \ {d},
         \/ Call(Removed(e)) \/ CallFails(Removed(e)) \/ CallRefused(e)
         \/ Call(Restored(e)) \/ CallFails(Restored(e)) \/ RestoreRefused(e)
         \/ Call([panel EXCEPT ![e] = "on"]) \/ CallFails([panel EXCEPT ![e] = "on"])
  PROVE  panel'[d] = panel[d] /\ refused \subseteq refused'
BY DEF TypeOK, Call, CallFails, CallRefused, RestoreRefused, Removed, Restored

(* Calls of the panel never take back the record of a refusal. *)
LEMMA RefusalsStay ==
  ASSUME NEW e \in Devices,
         \/ Call(Removed(e)) \/ CallFails(Removed(e)) \/ CallRefused(e)
         \/ Call(Restored(e)) \/ CallFails(Restored(e)) \/ RestoreRefused(e)
         \/ Call([panel EXCEPT ![e] = "on"]) \/ CallFails([panel EXCEPT ![e] = "on"])
  PROVE  refused \subseteq refused'
BY DEF Call, CallFails, CallRefused, RestoreRefused

LEMMA WholeCreated ==
  ASSUME ChannelInv, WholeWhenDone, NEW e \in Devices, Create(e) \/ CreatorCrash(e)
  PROVE  WholeWhenDone'
<1> SUFFICES ASSUME NEW d \in Spared'
             PROVE  HalfWay(d)' /\ (status'[<<d, "finalize">>] = "completed" => Whole(d)')
  BY DEF WholeWhenDone
<1>1. TypeOK /\ QueueInv /\ InChannels /\ d \in Devices
  BY DEF ChannelInv, QueueInv, Spared
<1>2. UNCHANGED <<wpc, cur>> /\ touched' = touched /\ refused \subseteq refused'
  BY RefusalsStay DEF Create, CreatorCrash, AddClient, SaveRow, Rollback,
     DescribeClient, WriteMetadata, WriteMetadataFails, CleanupClient, CleanupRow,
     QueueFinalize, worker, deletion, remote
<1>3. stage[e] # "failed"
  BY DEF Create, CreatorCrash, AddClient, SaveRow, Rollback, DescribeClient,
     WriteMetadata, WriteMetadataFails, CleanupClient, CleanupRow, QueueFinalize
<1>4. \A j \in Jobs : status'[j] = "completed" => status[j] = "completed"
  <2>1. CASE QueueFinalize(e)
    BY <1>1, <2>1, JobParts DEF QueueFinalize, Enqueue, queue, TypeOK, Active
  <2>2. CASE ~QueueFinalize(e)
    BY <2>2 DEF Create, CreatorCrash, AddClient, SaveRow, Rollback, DescribeClient,
       WriteMetadata, WriteMetadataFails, CleanupClient, CleanupRow, queue
  <2>3. QED
    BY <2>1, <2>2
<1>5. CASE d = e
  <2>1. status[<<d, "finalize">>] = "none"
    BY <1>1, <1>3, <1>5 DEF InChannels
  <2>2. cur # <<d, "finalize">>
    BY <1>1, <2>1, JobParts, JobAssumption DEF QueueInv, ClaimIsHeld, InHand
  <2>3. QED
    BY <1>1, <1>2, <1>4, <2>1, <2>2, JobParts DEF HalfWay
<1>6. CASE d # e
  <2>1. row'[d] = row[d]
    BY <1>1, <1>6 DEF Create, CreatorCrash, AddClient, SaveRow, Rollback,
       DescribeClient, WriteMetadata, WriteMetadataFails, CleanupClient,
       CleanupRow, QueueFinalize, SetRow, TypeOK
  <2>2. panel'[d] = panel[d]
    BY <1>1, <1>6, CallElsewhere DEF Create, CreatorCrash, AddClient, SaveRow,
       Rollback, DescribeClient, WriteMetadata, WriteMetadataFails, CleanupClient,
       CleanupRow, QueueFinalize, remote
  <2>3. QED
    BY <1>1, <1>2, <1>4, <2>1, <2>2, JobParts, WholeKept DEF WholeWhenDone
<1>7. QED
  BY <1>5, <1>6

LEMMA WholeDeleted ==
  ASSUME ChannelInv, WholeWhenDone, NEW p \in Deleters,
         Delete(p) \/ DeleterCrash(p) \/ \E e \in Devices : StartDelete(p, e)
  PROVE  WholeWhenDone'
<1> SUFFICES ASSUME NEW d \in Spared'
             PROVE  HalfWay(d)' /\ (status'[<<d, "finalize">>] = "completed" => Whole(d)')
  BY DEF WholeWhenDone
<1>1. TypeOK /\ InChannels /\ d \in Devices
  BY DEF ChannelInv, QueueInv, Spared
<1>2. dpc[p] # "idle" => target[p] \in Devices /\ target[p] \in touched
  BY <1>1 DEF TypeOK, InChannels
<1>3. UNCHANGED <<wpc, cur>> /\ touched \subseteq touched'
  BY DEF Delete, StartDelete, DeleteClient, DeferCleanup, DeleteRow, DeleteRowFails,
     UndoDelete, DeferUndo, DeleterCrash, worker
<1>4. d \notin touched
  BY <1>3 DEF Spared
<1>5. row'[d] = row[d]
  BY <1>1, <1>2, <1>4 DEF Delete, StartDelete, DeleteClient, DeferCleanup, DeleteRow,
     DeleteRowFails, UndoDelete, DeferUndo, DeleterCrash, SetRow, TypeOK
<1>6. panel'[d] = panel[d] /\ refused \subseteq refused'
  <2>1. CASE DeleteClient(p) \/ UndoDelete(p)
    <3>1. target[p] \in Devices \ {d}
      BY <1>2, <1>4, <2>1 DEF DeleteClient, UndoDelete
    <3>2. QED
      BY <1>1, <2>1, <3>1, CallElsewhere DEF DeleteClient, UndoDelete
  <2>2. CASE ~DeleteClient(p) /\ ~UndoDelete(p)
    BY <2>2 DEF Delete, StartDelete, DeferCleanup, DeleteRow, DeleteRowFails,
       DeferUndo, DeleterCrash, remote
  <2>3. QED
    BY <2>1, <2>2
<1>7. \A j \in Jobs : status'[j] = "completed" => status[j] = "completed"
  <2>1. CASE DeferCleanup(p) \/ DeferUndo(p)
    <3>1. <<target[p], "restore">> \in Jobs
      BY <1>2, <2>1, JobParts DEF DeferCleanup, DeferUndo
    <3>2. QED
      BY <1>1, <2>1, <3>1 DEF DeferCleanup, DeferUndo, Enqueue, queue, TypeOK, Active
  <2>2. CASE ~DeferCleanup(p) /\ ~DeferUndo(p)
    BY <2>2 DEF Delete, StartDelete, DeleteClient, DeleteRow, DeleterCrash,
       DeleteRowFails, UndoDelete, queue
  <2>3. QED
    BY <2>1, <2>2
<1>8. QED
  BY <1>1, <1>3, <1>5, <1>6, <1>7, JobParts, WholeKept DEF WholeWhenDone

LEMMA WholeWorked ==
  ASSUME ChannelInv, WholeWhenDone, Work \/ WorkerCrash
  PROVE  WholeWhenDone'
<1> SUFFICES ASSUME NEW d \in Spared'
             PROVE  HalfWay(d)' /\ (status'[<<d, "finalize">>] = "completed" => Whole(d)')
  BY DEF WholeWhenDone
<1> DEFINE f == <<d, "finalize">>
<1>1. TypeOK /\ QueueInv /\ InChannels /\ d \in Devices /\ f \in Jobs
  BY JobParts DEF ChannelInv, QueueInv, Spared
<1>2. touched' = touched /\ refused \subseteq refused'
  <2>1. CASE RestoreClient \/ EraseClient
    <3>1. cur[1] \in Devices
      BY <1>1, <2>1, JobDevice DEF RestoreClient, EraseClient, TypeOK
    <3>2. QED
      BY <2>1, <3>1, RefusalsStay DEF RestoreClient, EraseClient, deletion
  <2>2. CASE ~RestoreClient /\ ~EraseClient
    BY <2>2 DEF Work, ClaimBatch, PickJob, FinalizeRow, EraseRow, CompleteJob,
       ReleaseJob, WorkerCrash, deletion, remote
  <2>3. QED
    BY <2>1, <2>2
<1>3. d \in Spared
  BY <1>2 DEF Spared
<1>4. HalfWay(d) /\ (status[f] = "completed" => Whole(d))
  BY <1>3 DEF WholeWhenDone
<1>5. status[<<d, "restore">>] = "none"
  BY <1>1, <1>3 DEF InChannels, Spared
<1>6. ASSUME cur \in Jobs PROVE cur # <<d, "restore">> /\ (cur = f \/ cur[1] # d)
  <2>1. cur # <<d, "restore">>
    BY <1>1, <1>5, <1>6, JobAssumption DEF QueueInv, ClaimIsHeld, InHand
  <2>2. QED
    BY <1>6, <2>1, JobDevice
<1>7. CASE ClaimBatch \/ WorkerCrash
  <2>1. /\ wpc' \in {"pick", "idle"} /\ UNCHANGED <<row, panel>>
        /\ status'[f] = "completed" => status[f] = "completed"
    BY <1>1, <1>7 DEF ClaimBatch, WorkerCrash, remote, queue, TypeOK
  <2>2. QED
    BY <1>4, <2>1 DEF HalfWay, Whole
<1>8. CASE PickJob
  <2>1. UNCHANGED <<row, panel, status>>
    BY <1>8 DEF PickJob, remote, queue
  <2>2. cur' = f => wpc' = IF row[d] = "none" THEN "erase" ELSE "describe"
    <3>1. CASE cur' = cur
      BY <1>1, <1>8, <3>1, JobAssumption DEF PickJob, QueueInv, HandInOrder, TypeOK
    <3>2. CASE cur' # cur
      BY <1>8, <3>2 DEF PickJob
    <3>3. QED
      BY <3>1, <3>2
  <2>3. QED
    BY <1>4, <2>1, <2>2 DEF HalfWay, Whole
<1>9. CASE FinalizeRow \/ RestoreClient \/ EraseClient \/ EraseRow
  <2>1. /\ cur \in Jobs /\ cur' = cur /\ cur[1] \in Devices
        /\ UNCHANGED status
    BY <1>1, <1>9, JobDevice
       DEF FinalizeRow, RestoreClient, EraseClient, EraseRow, queue, TypeOK
  <2>2. CASE cur = f
    <3>1. cur[1] = d /\ status[f] = "processing" /\ d \notin Lapsed
      <4>1. status[f] = "processing"
        BY <1>1, <2>2, JobAssumption DEF QueueInv, ClaimIsHeld, InHand
      <4>2. QED
        BY <1>1, <2>2, <4>1, DeviceAssumption DEF InChannels
    <3>2. CASE FinalizeRow
      <4>1. wpc' = "release" \/ (wpc' = "restore" /\ row'[d] = "full")
        BY <1>1, <1>4, <2>2, <3>1, <3>2 DEF FinalizeRow, HalfWay, SetRow, TypeOK
      <4>2. QED
        BY <2>1, <3>1, <4>1 DEF HalfWay
    <3>3. CASE RestoreClient
      <4>1. \/ wpc' = "release"
            \/ wpc' = "complete" /\ row'[d] = "full" /\ panel'[d] = "on"
        <5>1. row[d] = "full" /\ row' = row
          BY <1>4, <2>2, <3>3 DEF RestoreClient, HalfWay
        <5>2. ASSUME RestoreRefused(d) PROVE FALSE
          BY <5>2 DEF RestoreRefused, CallRefused, Spared
        <5>3. ASSUME Call(Restored(d)) PROVE panel'[d] = "on"
          BY <1>1, <3>1, <5>3 DEF Call, Restored, TypeOK
        <5>4. QED
          BY <3>1, <3>3, <5>1, <5>2, <5>3 DEF RestoreClient
      <4>2. QED
        BY <2>1, <3>1, <4>1 DEF HalfWay, Whole
    <3>4. CASE EraseClient
      <4>1. \/ wpc' = "release"
            \/ wpc' = "eraseRow" /\ row'[d] = "none" /\ panel'[d] = "absent"
        <5>1. row[d] = "none" /\ row' = row
          BY <1>4, <2>2, <3>4 DEF EraseClient, HalfWay
        <5>2. ASSUME CallRefused(d) PROVE FALSE
          BY <5>2 DEF CallRefused, Spared
        <5>3. ASSUME Call(Removed(d)) PROVE panel'[d] = "absent"
          BY <1>1, <5>3 DEF Call, Removed, TypeOK
        <5>4. QED
          BY <3>1, <3>4, <5>1, <5>2, <5>3 DEF EraseClient
      <4>2. QED
        BY <2>1, <3>1, <4>1 DEF HalfWay, Whole
    <3>5. CASE EraseRow
      <4>1. \/ wpc' = "release"
            \/ wpc' = "complete" /\ row'[d] = "none" /\ panel'[d] = "absent"
        BY <1>1, <1>4, <2>2, <3>1, <3>5 DEF EraseRow, HalfWay, SetRow, TypeOK, remote
      <4>2. QED
        BY <2>1, <3>1, <4>1 DEF HalfWay, Whole
    <3>6. QED
      BY <1>9, <3>2, <3>3, <3>4, <3>5
  <2>3. CASE cur # f
    <3>1. cur[1] \in Devices \ {d}
      BY <1>6, <2>1, <2>3
    <3>2. row'[d] = row[d]
      BY <1>1, <1>9, <3>1
         DEF FinalizeRow, RestoreClient, EraseClient, EraseRow, SetRow, TypeOK
    <3>3. panel'[d] = panel[d]
      BY <1>1, <1>9, <3>1, CallElsewhere
         DEF FinalizeRow, RestoreClient, EraseClient, EraseRow, remote
    <3>4. QED
      BY <1>4, <2>1, <2>3, <3>2, <3>3 DEF HalfWay, Whole
  <2>4. QED
    BY <2>2, <2>3
<1>10. CASE CompleteJob \/ ReleaseJob
  <2>1. wpc' = "pick" /\ UNCHANGED <<row, panel>>
    BY <1>10 DEF CompleteJob, ReleaseJob, remote
  <2>2. status'[f] = "completed" => Whole(d)
    <3>1. CASE cur = f
      BY <1>1, <1>4, <1>10, <3>1 DEF CompleteJob, ReleaseJob, HalfWay, TypeOK
    <3>2. CASE cur # f
      BY <1>1, <1>4, <1>10, <3>2 DEF CompleteJob, ReleaseJob, TypeOK
    <3>3. QED
      BY <3>1, <3>2
  <2>3. QED
    BY <2>1, <2>2 DEF HalfWay, Whole
<1>11. QED
  BY <1>7, <1>8, <1>9, <1>10 DEF Work

LEMMA WholeStep == ChannelInv /\ WholeWhenDone /\ [Next]_vars => WholeWhenDone'
<1> SUFFICES ASSUME ChannelInv, WholeWhenDone, [Next]_vars PROVE WholeWhenDone'
  OBVIOUS
<1>1. ASSUME UNCHANGED vars \/ \E j \in Jobs : BackoffEnds(j) PROVE WholeWhenDone'
  <2>1. UNCHANGED <<row, panel, refused, touched, wpc, cur, status>>
    BY <1>1 DEF vars, BackoffEnds, remote, deletion, queue, worker
  <2>2. QED
    BY <2>1 DEF WholeWhenDone, Spared, HalfWay, Whole
<1>2. QED
  BY <1>1, WholeCreated, WholeDeleted, WholeWorked DEF Next

(* A completed finalize job leaves row and panel together, for any devices, *)
(* deletions of other devices, retries and crashes of the worker.           *)
THEOREM FinalizedAreWhole == Spec => []FinalizedIsWhole
<1>1. Init => ChannelInv /\ WholeWhenDone
  <2>1. Init => QueueInv
    BY InitQueue
  <2>2. Init => InChannels
    BY JobParts, DeviceAssumption DEF Init, InChannels
  <2>3. Init => WholeWhenDone
    BY JobParts, JobAssumption DEF Init, WholeWhenDone, Spared, HalfWay
  <2>4. QED
    BY <2>1, <2>2, <2>3 DEF ChannelInv
<1>2. WholeWhenDone => FinalizedIsWhole
  BY DEF WholeWhenDone, FinalizedIsWhole, Spared, Whole
<1>3. QED
  BY <1>1, <1>2, ChannelStep, WholeStep, PTL DEF Spec
=============================================================================
