--------------------------- MODULE DeviceLifecycle ---------------------------
(***************************************************************************)
(* A VPN device is two things that no transaction spans: a row of          *)
(* vpn_clients and a client in the 3x-ui panel of a node.  This module is  *)
(* its creation (dashboard/services.py and the bot/vpn_provisioning.py     *)
(* it calls), its deletion from the bot (bot/router.py) and from the       *)
(* dashboard, and the queue of compensation jobs (bot/                     *)
(* device_compensation.py) that repairs what a failure left half done.     *)
(*                                                                         *)
(* One action is one transaction of the database or one call of the panel. *)
(* A call that fails may have been carried out all the same: its answer    *)
(* was lost.  The job worker is one process, a oneshot unit that its timer *)
(* starts again (ops/systemd/amonora-access-reminders.service).            *)
(***************************************************************************)
EXTENDS Naturals, FiniteSets

CONSTANTS
    Devices,        \* device ids
    Existing,       \* devices created before the behaviour starts
    Lapsed,         \* those whose owner's access has ended: panel client off
    Admins,         \* dashboard deletions (delete_device_for_user)
    Users,          \* bot deletions (delete_device_callback)
    MaxAttempts,    \* DEVICE_COMP_MAX_ATTEMPTS
    MaxFaults,      \* bound on failed transactions and panel calls
    MaxCrashes,     \* bound on processes that die between two steps
    NoDevice, NoJob

Deleters == Admins \union Users
Jobs == Devices \X {"finalize", "restore"}

ASSUME DeviceAssumption ==
    Lapsed \subseteq Existing /\ Existing \subseteq Devices /\ NoDevice \notin Devices
ASSUME DeleterAssumption == Admins \intersect Users = {}
ASSUME JobAssumption ==
    NoJob \notin Jobs /\ MaxAttempts \in Nat \ {0} /\ MaxFaults \in Nat /\ MaxCrashes \in Nat

VARIABLES
    row,        \* vpn_clients: no row, a row without metadata, a full row
    panel,      \* the client in the panel: "absent", "off" or "on"
    refused,    \* history: devices of which a refusal was taken for success
    stage,      \* where the creation of each device stands
    dpc, target,            \* each deletion: next step, device
    status, attempts, due,  \* device_compensation_jobs
    wpc, batch, cur,        \* the worker: next step, claimed jobs, job in hand
    touched,    \* history: devices a deletion has been started for
    forgotten,  \* history: failed creations that lost track of their device
    deferred,   \* history: deletions reported done with the cleanup deferred
    faults, crashes

remote == <<panel, refused>>
queue == <<status, attempts, due>>
worker == <<wpc, batch, cur>>
deletion == <<dpc, target, touched, deferred>>
creation == <<stage, forgotten>>
vars == <<row, remote, creation, deletion, queue, worker, faults, crashes>>

Stages == {"new", "save", "rollback", "describe", "write", "live",
           "cleanup", "cleanRow", "enqueue", "failed"}
WorkerSteps == {"idle", "pick", "describe", "restore", "erase", "eraseRow",
                "complete", "release"}
DeleterSteps == {"idle", "remote", "defer", "row", "rowDeferred", "undo", "deferUndo"}
Active == {"pending", "processing"}

Fault == faults < MaxFaults /\ faults' = faults + 1
Crashing == crashes < MaxCrashes /\ crashes' = crashes + 1

SetRow(d, state) == row' = [row EXCEPT ![d] = state]
SetStage(d, step) == stage' = [stage EXCEPT ![d] = step]
Then(p, step) == dpc' = [dpc EXCEPT ![p] = step]

(* What the panel holds after a removal, and after a restore: an existing   *)
(* client is synced to the owner's access, a missing one is added enabled.  *)
Removed(d) == [panel EXCEPT ![d] = "absent"]
Restored(d) == [panel EXCEPT ![d] = IF @ # "absent" /\ d \in Lapsed THEN "off" ELSE "on"]

(* A panel call that carries out effect, one that fails (its answer may be  *)
(* all that was lost), and one the panel answers with success = false where *)
(* the caller does not look at the answer.                                  *)
Call(effect) == panel' = effect /\ UNCHANGED <<refused, faults>>
CallFails(effect) == panel' \in {panel, effect} /\ Fault /\ UNCHANGED refused
CallRefused(d) == UNCHANGED panel /\ Fault /\ refused' = refused \union {d}

(* A sync of a client that is there is not looked at, an added client is.   *)
RestoreRefused(d) == panel[d] # "absent" /\ CallRefused(d)

(* _enqueue_device_compensation_job: one active job per action and device.  *)
Enqueue(j) ==
    IF status[j] \in Active THEN UNCHANGED queue
    ELSE /\ status' = [status EXCEPT ![j] = "pending"]
         /\ attempts' = [attempts EXCEPT ![j] = 0]
         /\ due' = [due EXCEPT ![j] = TRUE]

Init ==
    /\ row = [d \in Devices |-> IF d \in Existing THEN "full" ELSE "none"]
    /\ panel = [d \in Devices |-> IF d \in Lapsed THEN "off"
                                  ELSE IF d \in Existing THEN "on" ELSE "absent"]
    /\ stage = [d \in Devices |-> IF d \in Existing THEN "live" ELSE "new"]
    /\ dpc = [p \in Deleters |-> "idle"]
    /\ target = [p \in Deleters |-> NoDevice]
    /\ status = [j \in Jobs |-> "none"]
    /\ attempts = [j \in Jobs |-> 0]
    /\ due = [j \in Jobs |-> FALSE]
    /\ wpc = "idle" /\ batch = {} /\ cur = NoJob
    /\ touched = {} /\ forgotten = {} /\ deferred = {} /\ refused = {}
    /\ faults = 0 /\ crashes = 0

-----------------------------------------------------------------------------
(* Creation: provision_vless_client adds the client to the panel, saves the *)
(* row (rolling the panel back if it cannot) and builds the metadata; then  *)
(* the caller writes the metadata.                                          *)
AddClient(d) ==
    /\ stage[d] = "new"
    /\ \/ Call([panel EXCEPT ![d] = "on"]) /\ SetStage(d, "save")
       \/ CallFails([panel EXCEPT ![d] = "on"]) /\ SetStage(d, "failed")
    /\ UNCHANGED <<row, forgotten, deletion, queue, worker, crashes>>

SaveRow(d) ==
    /\ stage[d] = "save"
    /\ \/ SetRow(d, "bare") /\ SetStage(d, "describe") /\ UNCHANGED faults
       \/ Fault /\ SetStage(d, "rollback") /\ UNCHANGED row
    /\ UNCHANGED <<remote, forgotten, deletion, queue, worker, crashes>>

Rollback(d) ==
    /\ stage[d] = "rollback"
    /\ Call(Removed(d)) \/ CallFails(Removed(d))
    /\ SetStage(d, "failed")
    /\ UNCHANGED <<row, forgotten, deletion, queue, worker, crashes>>

(* build_vless_metadata asks the panel once more.  When that fails the      *)
(* exception leaves provision_vless_client before the caller has the id, so *)
(* the caller's cleanup has nothing to clean up.                            *)
DescribeClient(d) ==
    /\ stage[d] = "describe"
    /\ \/ SetStage(d, "write") /\ UNCHANGED <<forgotten, faults>>
       \/ Fault /\ SetStage(d, "failed") /\ forgotten' = forgotten \union {d}
    /\ UNCHANGED <<row, remote, deletion, queue, worker, crashes>>

(* update_vpn_client_metadata.  A row deleted meanwhile is no error to the  *)
(* dashboard; the bot reads it back and cleans up when it is gone.          *)
WriteMetadata(d) ==
    /\ stage[d] = "write"
    /\ UNCHANGED faults
    /\ \/ row[d] # "none" /\ SetRow(d, "full") /\ SetStage(d, "live")
       \/ row[d] = "none" /\ UNCHANGED row
          /\ \E step \in {"live", "cleanup"} : SetStage(d, step)
    /\ UNCHANGED <<remote, forgotten, deletion, queue, worker, crashes>>

(* The update raises, before its commit or at the answer to it. *)
WriteMetadataFails(d) ==
    /\ stage[d] = "write" /\ Fault
    /\ \/ UNCHANGED row
       \/ row[d] # "none" /\ SetRow(d, "full")
    /\ SetStage(d, "cleanup")
    /\ UNCHANGED <<remote, forgotten, deletion, queue, worker, crashes>>

(* _cleanup_dashboard_created_device_after_failure: panel, then row. *)
CleanupClient(d) ==
    /\ stage[d] = "cleanup"
    /\ \/ /\ Call(Removed(d)) \/ CallRefused(d)
          /\ SetStage(d, "cleanRow")
       \/ CallFails(Removed(d)) /\ SetStage(d, "enqueue")
    /\ UNCHANGED <<row, forgotten, deletion, queue, worker, crashes>>

(* Mutant: a row that cannot be deleted is left to itself. *)
CleanupRowOnce(d) ==
    /\ stage[d] = "cleanRow" /\ SetStage(d, "failed")
    /\ \/ SetRow(d, "none") /\ UNCHANGED faults
       \/ Fault /\ UNCHANGED row
    /\ UNCHANGED <<remote, forgotten, deletion, queue, worker, crashes>>

CleanupRow(d) ==
    /\ stage[d] = "cleanRow"
    /\ \/ SetRow(d, "none") /\ SetStage(d, "failed") /\ UNCHANGED faults
       \/ Fault /\ SetStage(d, "enqueue") /\ UNCHANGED row
    /\ UNCHANGED <<remote, forgotten, deletion, queue, worker, crashes>>

(* enqueue_finalize_created_device_job *)
QueueFinalize(d) ==
    /\ stage[d] = "enqueue"
    /\ Enqueue(<<d, "finalize">>)
    /\ SetStage(d, "failed")
    /\ UNCHANGED <<row, remote, forgotten, deletion, worker, faults, crashes>>

CreatorCrash(d) ==
    /\ stage[d] \notin {"new", "live", "failed"} /\ Crashing
    /\ SetStage(d, "failed")
    /\ forgotten' = forgotten \union {d}
    /\ UNCHANGED <<row, remote, deletion, queue, worker, faults>>

-----------------------------------------------------------------------------
(* Deletion.  Both kinds read the row, then remove the panel client.        *)
StartDelete(p, d) ==
    /\ dpc[p] = "idle" /\ row[d] # "none"
    /\ Then(p, "remote")
    /\ target' = [target EXCEPT ![p] = d]
    /\ touched' = touched \union {d}
    /\ UNCHANGED <<row, remote, creation, deferred, queue, worker, faults, crashes>>

(* The bot looks at the answer and gives up when the panel fails; the       *)
(* dashboard goes on, and looks at nothing but the exception.               *)
DeleteClient(p) ==
    /\ dpc[p] = "remote"
    /\ \/ Call(Removed(target[p])) /\ Then(p, "row")
       \/ p \in Admins /\ CallRefused(target[p]) /\ Then(p, "row")
       \/ CallFails(Removed(target[p]))
          /\ Then(p, IF p \in Admins THEN "defer" ELSE "idle")
    /\ UNCHANGED <<row, creation, target, touched, deferred, queue, worker, crashes>>

(* The dashboard queues what it calls the remote cleanup: a restore job.    *)
DeferCleanup(p) ==
    /\ dpc[p] = "defer"
    /\ Enqueue(<<target[p], "restore">>)
    /\ Then(p, "rowDeferred")
    /\ UNCHANGED <<row, remote, creation, target, touched, deferred, worker,
                   faults, crashes>>

DeleteRow(p) ==
    /\ dpc[p] \in {"row", "rowDeferred"}
    /\ SetRow(target[p], "none")
    /\ deferred' = IF dpc[p] = "rowDeferred" THEN deferred \union {target[p]}
                   ELSE deferred
    /\ Then(p, "idle")
    /\ UNCHANGED <<remote, creation, target, touched, queue, worker, faults, crashes>>

(* The row cannot be deleted: the dashboard puts the panel client back,     *)
(* unless it never left; the bot reports an error.                          *)
DeleteRowFails(p) ==
    /\ dpc[p] \in {"row", "rowDeferred"} /\ Fault
    /\ Then(p, IF p \in Admins /\ dpc[p] = "row" THEN "undo" ELSE "idle")
    /\ UNCHANGED <<row, remote, creation, target, touched, deferred, queue,
                   worker, crashes>>

(* _restore_device_remote_state, and the restore job when that fails.       *)
UndoDelete(p) ==
    /\ dpc[p] = "undo"
    /\ \/ /\ Call(Restored(target[p])) \/ RestoreRefused(target[p])
          /\ Then(p, "idle")
       \/ CallFails(Restored(target[p])) /\ Then(p, "deferUndo")
    /\ UNCHANGED <<row, creation, target, touched, deferred, queue, worker, crashes>>

DeferUndo(p) ==
    /\ dpc[p] = "deferUndo"
    /\ Enqueue(<<target[p], "restore">>)
    /\ Then(p, "idle")
    /\ UNCHANGED <<row, remote, creation, target, touched, deferred, worker,
                   faults, crashes>>

DeleterCrash(p) ==
    /\ dpc[p] # "idle" /\ Crashing
    /\ Then(p, "idle")
    /\ UNCHANGED <<row, remote, creation, target, touched, deferred, queue,
                   worker, faults>>

-----------------------------------------------------------------------------
(* The worker.  It claims every pending job that is due (their number is    *)
(* below the limit of 10): a claim is the status alone, and locked_at is    *)
(* never looked at again, as only pending jobs are selected.                *)
Claimable(j) == status[j] = "pending" /\ due[j]

ClaimBatch ==
    /\ wpc = "idle" /\ \E j \in Jobs : Claimable(j)
    /\ batch' = {j \in Jobs : Claimable(j)}
    /\ status' = [j \in Jobs |-> IF Claimable(j) THEN "processing" ELSE status[j]]
    /\ wpc' = "pick"
    /\ UNCHANGED <<row, remote, creation, deletion, attempts, due, cur, faults, crashes>>

(* _run_device_compensation_job: a finalize job reads the row first. *)
PickJob ==
    /\ wpc = "pick"
    /\ \/ /\ batch = {} /\ wpc' = "idle"
          /\ UNCHANGED <<batch, cur>>
       \/ \E j \in batch :
             /\ batch' = batch \ {j} /\ cur' = j
             /\ wpc' = IF j[2] = "restore" THEN "restore"
                       ELSE IF row[j[1]] = "none" THEN "erase" ELSE "describe"
    /\ UNCHANGED <<row, remote, creation, deletion, queue, faults, crashes>>

(* _execute_finalize_created_device_job writes the metadata of the payload; *)
(* a row deleted since it was read is passed over in silence.               *)
FinalizeRow ==
    /\ wpc = "describe"
    /\ \/ /\ wpc' = "restore" /\ UNCHANGED faults
          /\ IF row[cur[1]] = "none" THEN UNCHANGED row ELSE SetRow(cur[1], "full")
       \/ Fault /\ wpc' = "release" /\ UNCHANGED row
    /\ UNCHANGED <<remote, creation, deletion, queue, batch, cur, crashes>>

(* Mutant: a failed panel call is taken for a success. *)
RestoreClientUnchecked ==
    /\ wpc = "restore"
    /\ Call(Restored(cur[1])) \/ CallFails(Restored(cur[1]))
    /\ wpc' = "complete"
    /\ UNCHANGED <<row, creation, deletion, queue, batch, cur, crashes>>

(* _restore_remote_state_for_snapshot *)
RestoreClient ==
    /\ wpc = "restore"
    /\ \/ /\ Call(Restored(cur[1])) \/ RestoreRefused(cur[1])
          /\ wpc' = "complete"
       \/ CallFails(Restored(cur[1])) /\ wpc' = "release"
    /\ UNCHANGED <<row, creation, deletion, queue, batch, cur, crashes>>

(* _execute_cleanup_created_device_job, for a row that is gone. *)
EraseClient ==
    /\ wpc = "erase"
    /\ \/ /\ Call(Removed(cur[1])) \/ CallRefused(cur[1])
          /\ wpc' = "eraseRow"
       \/ CallFails(Removed(cur[1])) /\ wpc' = "release"
    /\ UNCHANGED <<row, creation, deletion, queue, batch, cur, crashes>>

EraseRow ==
    /\ wpc = "eraseRow"
    /\ \/ SetRow(cur[1], "none") /\ wpc' = "complete" /\ UNCHANGED faults
       \/ Fault /\ wpc' = "release" /\ UNCHANGED row
    /\ UNCHANGED <<remote, creation, deletion, queue, batch, cur, crashes>>

(* _complete_device_compensation_job *)
CompleteJob ==
    /\ wpc = "complete"
    /\ status' = [status EXCEPT ![cur] = "completed"]
    /\ wpc' = "pick" /\ cur' = NoJob
    /\ UNCHANGED <<row, remote, creation, deletion, attempts, due, batch, faults, crashes>>

(* Mutant: a failed job is left as it is. *)
ReleaseJobLocked ==
    /\ wpc = "release"
    /\ attempts' = [attempts EXCEPT ![cur] = @ + 1]
    /\ wpc' = "pick" /\ cur' = NoJob
    /\ UNCHANGED <<row, remote, creation, deletion, status, due, batch, faults, crashes>>

(* _release_device_compensation_job *)
ReleaseJob ==
    /\ wpc = "release"
    /\ attempts' = [attempts EXCEPT ![cur] = @ + 1]
    /\ status' = [status EXCEPT ![cur] =
                    IF attempts[cur] + 1 >= MaxAttempts THEN "failed" ELSE "pending"]
    /\ due' = [due EXCEPT ![cur] = FALSE]
    /\ wpc' = "pick" /\ cur' = NoJob
    /\ UNCHANGED <<row, remote, creation, deletion, batch, faults, crashes>>

(* The unit dies, or completing or releasing raises out of the batch loop.  *)
WorkerCrash ==
    /\ wpc # "idle" /\ Crashing
    /\ wpc' = "idle" /\ batch' = {} /\ cur' = NoJob
    /\ UNCHANGED <<row, remote, creation, deletion, queue, faults>>

(* next_attempt_at passes: min(5 n, 60) minutes after the n-th failure. *)
BackoffEnds(j) ==
    /\ status[j] = "pending" /\ ~due[j]
    /\ due' = [due EXCEPT ![j] = TRUE]
    /\ UNCHANGED <<row, remote, creation, deletion, status, attempts, worker,
                   faults, crashes>>

-----------------------------------------------------------------------------
Create(d) == \/ AddClient(d) \/ SaveRow(d) \/ Rollback(d) \/ DescribeClient(d)
             \/ WriteMetadata(d) \/ WriteMetadataFails(d)
             \/ CleanupClient(d) \/ CleanupRow(d) \/ QueueFinalize(d)

Delete(p) == \/ DeleteClient(p) \/ DeferCleanup(p) \/ DeleteRow(p)
             \/ DeleteRowFails(p) \/ UndoDelete(p) \/ DeferUndo(p)

Work == \/ ClaimBatch \/ PickJob \/ FinalizeRow \/ RestoreClient
        \/ EraseClient \/ EraseRow \/ CompleteJob \/ ReleaseJob

Next ==
    \/ \E d \in Devices : Create(d) \/ CreatorCrash(d)
    \/ \E p \in Deleters : \/ Delete(p) \/ DeleterCrash(p)
                           \/ \E d \in Devices : StartDelete(p, d)
    \/ Work \/ WorkerCrash
    \/ \E j \in Jobs : BackoffEnds(j)

Spec == Init /\ [][Next]_vars

(* The timer starts the worker again and again, a started handler goes on   *)
(* while its process lives, and time passes.                                *)
Fairness ==
    /\ WF_vars(Work)
    /\ \A d \in Devices : WF_vars(stage[d] # "new" /\ Create(d))
    /\ \A p \in Deleters : WF_vars(Delete(p))
    /\ \A j \in Jobs : WF_vars(BackoffEnds(j))

FairSpec == Spec /\ Fairness
-----------------------------------------------------------------------------
TypeOK ==
    /\ row \in [Devices -> {"none", "bare", "full"}]
    /\ panel \in [Devices -> {"absent", "off", "on"}]
    /\ stage \in [Devices -> Stages]
    /\ dpc \in [Deleters -> DeleterSteps]
    /\ target \in [Deleters -> Devices \union {NoDevice}]
    /\ status \in [Jobs -> Active \union {"none", "completed", "failed"}]
    /\ attempts \in [Jobs -> Nat] /\ due \in [Jobs -> BOOLEAN]
    /\ wpc \in WorkerSteps /\ batch \subseteq Jobs /\ cur \in Jobs \union {NoJob}
    /\ touched \subseteq Devices /\ forgotten \subseteq Devices
    /\ deferred \subseteq Devices /\ refused \subseteq Devices
    /\ faults \in Nat /\ crashes \in Nat
    /\ \A p \in Deleters : dpc[p] # "idle" => target[p] \in Devices
    /\ wpc \notin {"idle", "pick"} => cur \in Jobs

(* The jobs the worker has claimed and not yet answered for. *)
InHand == batch \union ({cur} \ {NoJob})

(* A claimed job is the worker's until it completes or releases it: nobody  *)
(* queues the same repair a second time behind its back, and nothing is     *)
(* processing that is not in the worker's hands, unless the worker died.    *)
ClaimIsHeld ==
    /\ \A j \in InHand : status[j] = "processing"
    /\ crashes = 0 => \A j \in Jobs : status[j] = "processing" => j \in InHand

(* A job is given up exactly when it has used up its attempts, whatever the *)
(* order of claims, releases and re-enqueues.                               *)
GivenUpAtLimit ==
    \A j \in Jobs : /\ attempts[j] <= MaxAttempts
                    /\ status[j] = "failed" <=> attempts[j] = MaxAttempts

(* A creation that failed behind its saved row, and still knew the device,  *)
(* leaves no row that nobody is responsible for: it has a finalize job.     *)
FailureIsCovered ==
    \A d \in Devices :
        stage[d] = "failed" /\ row[d] # "none" /\ d \notin forgotten
            => status[<<d, "finalize">>] # "none"

(* A completed finalize job has brought row and panel together: both there  *)
(* and usable or both gone, unless somebody was deleting the device or the  *)
(* panel's refusal of a call was taken for success.                         *)
FinalizedIsWhole ==
    \A d \in Devices \ (touched \union refused) :
        stage[d] = "failed" /\ status[<<d, "finalize">>] = "completed"
            => \/ row[d] = "full" /\ panel[d] = "on"
               \/ row[d] = "none" /\ panel[d] = "absent"

(* The queue drains: every pending job is completed or given up, through    *)
(* all its failures and back-offs, unless a process has died meanwhile.     *)
JobsEnd ==
    \A j \in Jobs :
        status[j] = "pending" ~> status[j] \in {"completed", "failed"} \/ crashes > 0

(* What "remote cleanup queued" tells the administrator: the client of the  *)
(* deleted device will leave the panel.                                     *)
DeferredCleanupHappens == \A d \in Devices : d \in deferred ~> panel[d] = "absent"

(* What the stale lock of 900 seconds is documented for: a job whose worker *)
(* died is taken up again.                                                  *)
StaleJobsAreRetaken ==
    \A j \in Jobs : status[j] = "processing" ~> status[j] # "processing"
=============================================================================
