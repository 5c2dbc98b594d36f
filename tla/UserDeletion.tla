---------------------------- MODULE UserDeletion ----------------------------
(***************************************************************************)
(* The deletion of a user from the dashboard (delete_user_with_access in   *)
(* dashboard/services.py): the devices are taken off their nodes one by    *)
(* one, then all rows go in one transaction.  When a step fails the        *)
(* devices taken off so far are put back, or queued to be put back; a job  *)
(* row records the stage.  Meanwhile the user may create another device    *)
(* and the queue (bot/device_compensation.py) puts devices back.           *)
(***************************************************************************)
EXTENDS Naturals, FiniteSets, FiniteSetsExt

CONSTANTS
    OldDevices, NewDevices, \* vpn_clients at the start; created meanwhile
    MaxRestoreTries,    \* DEVICE_COMP_MAX_ATTEMPTS
    MaxCallFaults,      \* bound on calls and transactions that fail
    MaxDashDeaths       \* bound on processes that die

AllDevices == OldDevices \union NewDevices

ASSUME DeletionAssumption ==
    /\ OldDevices \intersect NewDevices = {} /\ AllDevices \subseteq Nat /\ IsFiniteSet(AllDevices)
    /\ MaxRestoreTries \in Nat \ {0}

VARIABLES
    account,            \* the user's row is there
    rows,               \* vpn_clients of the user
    enabled,            \* devices that have a client on their node
    job,                \* UserDeletionJob: "none", "running", "failed", "completed"
    restores, tries,    \* restore jobs of the queue: status, attempts; "none"
                        \* also for a completed one, "done": put back, not completed,
                        \* "stuck": processing, its worker dead
    del,                \* the deletion: where it is, what it carries
    adding,             \* devices under creation: client there, no row yet
    callFaults, dashDeaths,
    unknown,            \* history: devices whose removal failed, though done
    refused,            \* history: devices whose removal a panel has refused
                        \* with an answer nobody looks at
    cut,                \* history: devices touched by a process that died
    merged,             \* history: devices queued as a job that was done
    raised,             \* history: devices put back behind the commit that
                        \* took their rows, or into a deletion under way
    unlisted,           \* history: rows saved behind the listing of a deletion
    left                \* history: clients a failed creation could not remove

jobs == <<restores, tries, merged>>
history == <<unknown, refused, cut, raised, unlisted, left>>
deletionVars == <<account, rows, enabled, job, jobs, del, adding, callFaults, dashDeaths, history>>

Resting == [step |-> "rest", todo |-> {}, off |-> {}]

DeletionInit ==
    /\ account = TRUE /\ rows = OldDevices /\ enabled = OldDevices /\ adding = {}
    /\ job = "none" /\ del = Resting
    /\ restores = [d \in AllDevices |-> "none"] /\ tries = [d \in AllDevices |-> 0]
    /\ callFaults = 0 /\ dashDeaths = 0
    /\ unknown = {} /\ refused = {} /\ cut = {} /\ merged = {} /\ raised = {} /\ unlisted = {} /\ left = {}

-----------------------------------------------------------------------------
CallFault == callFaults < MaxCallFaults /\ callFaults' = callFaults + 1
NoFault == UNCHANGED callFaults
Death == dashDeaths < MaxDashDeaths /\ dashDeaths' = dashDeaths + 1

(* The devices are listed and the job row is committed. *)
BeginDeletion ==
    /\ del = Resting /\ account
    /\ del' = [step |-> "remove", todo |-> rows, off |-> {}]
    /\ job' = "running" /\ unlisted' = unlisted \ rows
    /\ UNCHANGED <<account, rows, enabled, jobs, adding, callFaults, dashDeaths,
                   unknown, refused, cut, raised, left>>

Unhanded(d) == del.step = "remove" /\ d \in del.todo /\ d = Min(del.todo)
TakenOff(d) ==
    /\ enabled' = enabled \ {d} /\ NoFault
    /\ raised' = raised \ {d} /\ refused' = refused \ {d}
    /\ del' = [del EXCEPT !.todo = @ \ {d}, !.off = @ \union {d}]

(* Mutant: a failed removal is passed over. *)
RemoveClientOrNot(d) ==
    /\ Unhanded(d)
    /\ \/ TakenOff(d)
       \/ /\ CallFault /\ del' = [del EXCEPT !.todo = @ \ {d}]
          /\ UNCHANGED <<enabled, refused, raised>>
    /\ UNCHANGED <<account, rows, job, jobs, adding, dashDeaths, unknown, cut, unlisted, left>>

(* _delete_device_remote_state: removed; refused, which counts as removed;  *)
(* or it raises, and the device is not among those to put back, though the  *)
(* node may have removed it.                                                *)
RemoveClient(d) ==
    /\ Unhanded(d)
    /\ \/ TakenOff(d) /\ UNCHANGED unknown
       \/ /\ CallFault /\ d \in enabled
          /\ del' = [del EXCEPT !.todo = @ \ {d}, !.off = @ \union {d}]
          /\ refused' = refused \union {d} /\ UNCHANGED <<enabled, unknown, raised>>
       \/ /\ CallFault /\ del' = [del EXCEPT !.step = "undo"] /\ UNCHANGED <<refused, raised>>
          /\ \/ UNCHANGED <<enabled, unknown>>
             \/ enabled' = enabled \ {d} /\ unknown' = unknown \union {d}
    /\ UNCHANGED <<account, rows, job, jobs, adding, dashDeaths, cut, unlisted, left>>

(* The rows go in one transaction: those of the devices the user has by now *)
(* (with the stage of the job before and in the middle of it).              *)
DeleteRows ==
    /\ del.step = "remove" /\ del.todo = {}
    /\ \/ account' = FALSE /\ rows' = {} /\ del' = [del EXCEPT !.step = "finish"] /\ NoFault
       \/ CallFault /\ del' = [del EXCEPT !.step = "undo"] /\ UNCHANGED <<account, rows>>
    /\ UNCHANGED <<enabled, job, jobs, adding, dashDeaths, history>>

(* The job is completed, or the failure of that puts the devices back.      *)
FinishDeletion ==
    /\ del.step = "finish"
    /\ \/ job' = "completed" /\ del' = Resting /\ NoFault
       \/ CallFault /\ del' = [del EXCEPT !.step = "undo"] /\ UNCHANGED job
    /\ UNCHANGED <<account, rows, enabled, jobs, adding, dashDeaths, history>>

(* A client that is there already is only updated: it stays there, whatever *)
(* the answer.                                                              *)
Raise(d) ==
    LET wanted == IF del.step = "remove" THEN rows \ del.off ELSE rows IN
    /\ enabled' = enabled \union {d}
    /\ raised' = IF d \in wanted THEN raised ELSE raised \union {d}
Unraised == UNCHANGED <<enabled, raised>>

(* _enqueue_device_compensation_job: one active job for each device.        *)
Enqueue(d) ==
    IF restores[d] \in {"none", "failed"}
    THEN /\ restores' = [restores EXCEPT ![d] = "pending"] /\ tries' = [tries EXCEPT ![d] = 0]
         /\ UNCHANGED merged
    ELSE /\ merged' = IF restores[d] = "done" THEN merged \union {d} ELSE merged
         /\ UNCHANGED <<restores, tries>>

Undoing(d) ==
    /\ del.step = "undo" /\ d \in del.off /\ d = Max(del.off)
    /\ del' = [del EXCEPT !.off = @ \ {d}]

(* Mutant: a device that cannot be put back is given up. *)
PutBackOnce(d) ==
    /\ Undoing(d)
    /\ \/ Raise(d) /\ NoFault
       \/ CallFault /\ (Raise(d) \/ Unraised)
    /\ UNCHANGED <<account, rows, job, jobs, adding, dashDeaths, unknown, refused, cut, unlisted, left>>

(* _restore_device_remote_state, or else a job of the compensation queue. *)
PutBack(d) ==
    /\ Undoing(d)
    /\ \/ Raise(d) /\ NoFault /\ UNCHANGED jobs
       \/ CallFault /\ (Raise(d) \/ Unraised) /\ Enqueue(d)
    /\ UNCHANGED <<account, rows, job, adding, dashDeaths, unknown, refused, cut, unlisted, left>>

FailDeletion ==
    /\ del.step = "undo" /\ del.off = {}
    /\ job' = "failed" /\ del' = Resting
    /\ UNCHANGED <<account, rows, enabled, jobs, adding, callFaults, dashDeaths, history>>

(* The process ends, at a call perhaps, or the handler of the failure       *)
(* raises: no pass looks for jobs that are still running.                   *)
DeletionDies ==
    /\ del # Resting /\ Death
    /\ \E gone \in {{}} \union {{d} : d \in {e \in del.todo : Unhanded(e)}} :
          enabled' = enabled \ gone /\ cut' = cut \union del.off \union gone
    /\ del' = Resting
    /\ UNCHANGED <<account, rows, job, jobs, adding, callFaults, unknown, refused, raised, unlisted, left>>

-----------------------------------------------------------------------------
(* The queue.  The worker claims a job, puts the device back whether or not *)
(* it has a row by now, and completes the job; when it cannot, it releases  *)
(* the job for another attempt or gives it up.                              *)
queueOnly == <<account, rows, job, del, adding, merged, unknown, refused, cut, unlisted, left>>

ClaimRestore(d) ==
    /\ restores[d] = "pending" /\ restores' = [restores EXCEPT ![d] = "running"]
    /\ Unraised /\ UNCHANGED <<queueOnly, tries, callFaults, dashDeaths>>
RunRestore(d) ==
    /\ restores[d] = "running"
    /\ \/ Raise(d) /\ NoFault /\ restores' = [restores EXCEPT ![d] = "done"] /\ UNCHANGED tries
       \/ /\ CallFault /\ (Raise(d) \/ Unraised)
          /\ tries' = [tries EXCEPT ![d] = @ + 1]
          /\ restores' = [restores EXCEPT ![d] =
                 IF tries[d] + 1 >= MaxRestoreTries THEN "failed" ELSE "pending"]
    /\ UNCHANGED <<queueOnly, dashDeaths>>
CompleteRestore(d) ==
    /\ restores[d] = "done" /\ restores' = [restores EXCEPT ![d] = "none"]
    /\ Unraised /\ UNCHANGED <<queueOnly, tries, callFaults, dashDeaths>>

(* The worker dies, or completing a job raises: the claimed jobs stay       *)
(* processing and no claim selects them again.                              *)
QueueDies ==
    LET claimed == {d \in AllDevices : restores[d] \in {"running", "done"}} IN
    /\ claimed # {} /\ Death
    /\ restores' = [d \in AllDevices |-> IF d \in claimed THEN "stuck" ELSE restores[d]]
    /\ Unraised /\ UNCHANGED <<queueOnly, tries, callFaults>>

-----------------------------------------------------------------------------
(* A device created meanwhile: its client first; its row, for which the     *)
(* user must exist, or else the client is removed again - or stays.         *)
AddClient(d) ==
    /\ d \in NewDevices \ (adding \union rows \union enabled) /\ account
    /\ adding' = adding \union {d} /\ enabled' = enabled \union {d}
    /\ UNCHANGED <<account, rows, job, jobs, del, callFaults, dashDeaths, history>>
AddRow(d) ==
    /\ d \in adding /\ adding' = adding \ {d}
    /\ \/ /\ account /\ rows' = rows \union {d} /\ NoFault
          /\ unlisted' = IF del.step = "remove" THEN unlisted \union {d} ELSE unlisted
          /\ UNCHANGED <<enabled, left>>
       \/ /\ (~account /\ NoFault) \/ CallFault
          /\ enabled' = enabled \ {d} /\ UNCHANGED <<rows, unlisted, left>>
       \/ CallFault /\ left' = left \union {d} /\ UNCHANGED <<rows, enabled, unlisted>>
    /\ UNCHANGED <<account, job, jobs, del, dashDeaths, unknown, refused, cut, raised>>

RestoreNext(d) == ClaimRestore(d) \/ RunRestore(d) \/ CompleteRestore(d)
DeletionNext ==
    \/ BeginDeletion \/ DeleteRows \/ FinishDeletion \/ FailDeletion \/ DeletionDies
    \/ \E d \in AllDevices : RemoveClient(d) \/ PutBack(d) \/ RestoreNext(d)
    \/ QueueDies
    \/ \E d \in NewDevices : AddClient(d) \/ AddRow(d)

DeletionSpec == DeletionInit /\ [][DeletionNext]_deletionVars
-----------------------------------------------------------------------------
DeletionTypeOK ==
    /\ account \in BOOLEAN /\ rows \union enabled \subseteq AllDevices
    /\ job \in {"none", "running", "failed", "completed"}
    /\ restores \in [AllDevices -> {"none", "pending", "running", "done", "stuck", "failed"}]
    /\ tries \in [AllDevices -> Nat]
    /\ del \in [step : {"rest", "remove", "finish", "undo"}, todo : SUBSET AllDevices,
                off : SUBSET AllDevices]
    /\ adding \subseteq NewDevices
    /\ unknown \union refused \union cut \union merged \union raised \union unlisted \union left
          \subseteq AllDevices

(* A deletion that is reported failed has taken no device of a user who is  *)
(* still there: each is on its node or its restore job is to be run, or was *)
(* given up at the limit, or hangs with a dead worker.  Exceptions: a       *)
(* device whose removal failed with the answer lost, one touched by a       *)
(* deletion that died, and one queued while a job of an earlier failure had *)
(* put it back but was not completed - the queue then takes that job for    *)
(* this one.                                                                *)
FailedDeletionUndone ==
    del = Resting /\ job = "failed" /\ account =>
        \A d \in rows \ (unknown \union cut \union merged) :
            d \in enabled \/ restores[d] \in {"pending", "running", "failed", "stuck"}

(* A client without a row is one whose creation is under way or could not   *)
(* remove it; whose row was saved behind the listing of a deletion that     *)
(* deleted it; whose removal a panel refused; or that was put back behind   *)
(* the commit: by a deletion whose last step failed, by the queue during or *)
(* after a second deletion.  A call that raises, an undoing that fails and  *)
(* a death leave none.                                                      *)
OrphansExplained ==
    enabled \ (rows \union adding) \subseteq left \union unlisted \union refused \union raised
=============================================================================
