------------------------------ MODULE EosUpdater ------------------------------
(***************************************************************************)
(* The eos-updater daemon: the D-Bus object com.endlessm.Updater, its main  *)
(* loop (the handlers of Poll, PollVolume, Fetch, Apply and Cancel, and the *)
(* callbacks that run when an operation is over) and the worker threads on  *)
(* which the operations run (GTask's g_task_run_in_thread).                 *)
(*                                                                         *)
(* A handler or a callback runs to its end on the main thread, so it is one *)
(* action.  A worker thread runs beside the main loop and is cut into steps *)
(* where it reads what the main thread writes, or writes the disk.  What a  *)
(* worker does inside a step is modelled by its outcomes; ContentFetch has  *)
(* the detail of a fetch.                                                   *)
(***************************************************************************)
EXTENDS Naturals, Sequences

CONSTANTS
    Commits,      \* checksums of OSTree commits
    NULL,         \* no object; also the empty string on D-Bus
    Refspec,      \* the refspec ("remote:ref") each commit is found on
    Workers,      \* the threads of GLib's task pool
    Cancellables  \* addresses at which a GCancellable may be allocated

ASSUME NullAssumption == NULL \notin Commits \cup Cancellables

VARIABLES
    running,      \* whether the daemon's process is alive
    liveBoot,     \* whether this boot is from a live image
    state,        \* D-Bus property State
    error,        \* D-Bus property ErrorName
    updateId,     \* D-Bus property UpdateID
    signals,      \* the StateChanged signals the last step emitted, in order
    data,         \* EosUpdaterData: what the last poll left for the fetch
    cancellable,  \* EosUpdaterData.cancellable: the address it holds
    cancelled,    \* the GCancellables that have been triggered
    task,         \* the GTask each worker runs, or Idle
    pulled,       \* on disk: commits complete in the local repository
    booted,       \* the commit the system runs, NULL if not OSTree
    deployed,     \* on disk: the commit the next boot will run
    history       \* what became of the operation in progress (no code reads it)

vars == <<running, liveBoot, state, error, updateId, signals, data, cancellable,
          cancelled, task, pulled, booted, deployed, history>>

disk == <<pulled, booted, deployed>>

-----------------------------------------------------------------------------

States == {"NONE", "READY", "ERROR", "POLLING", "UPDATE_AVAILABLE", "FETCHING",
           "UPDATE_READY", "APPLYING_UPDATE", "UPDATE_APPLIED"}

Busy == {"POLLING", "FETCHING", "APPLYING_UPDATE"}

(* The error names a client can be shown; "" is no error.                  *)
Errors == {"", "Cancelled", "LiveBoot", "NotOstreeSystem", "Fetching",
           "MeteredConnection", "Failed", "Other"}

(* Where a poll found the update: "offline" and "online" are results of the *)
(* repository finders (LAN or USB, and the internet), "main" is the older   *)
(* code, which leaves no finder results.                                    *)
Sources == {"offline", "online", "main"}

NoInfo == [checksum |-> NULL, source |-> "main"]
EosUpdateInfo == [checksum : Commits, source : Sources] \cup {NoInfo}

Kinds == {"idle", "poll", "poll_volume", "fetch", "apply"}

(* "run" is a task's first step, "returned" its last: the thread function   *)
(* is over and the callback is queued on the main loop.                     *)
Phases == {"run", "waiting", "pull", "refs", "returned"}

GTask == [kind : Kinds,
          phase : Phases,
          cancellable : Cancellables \cup {NULL},
          update : Commits \cup {NULL},  \* the copy of UpdateID it works on
          force : BOOLEAN,                   \* Fetch: do not ask the scheduler
          timeout : BOOLEAN,                 \* Fetch: the wait is bounded
          scheduled : BOOLEAN,               \* Fetch: holds a schedule entry
          error : Errors,
          info : EosUpdateInfo]

Data == [results : Commits \cup {NULL}, offline_results_only : BOOLEAN]
NoData == [results |-> NULL, offline_results_only |-> FALSE]

History == [cancel : BOOLEAN,    \* a Cancel call was accepted
            deployed : BOOLEAN]  \* the operation has written its deployment
NoHistory == [cancel |-> FALSE, deployed |-> FALSE]

NewTask(kind, c, update, force, timeout) ==
    [kind |-> kind, phase |-> "run", cancellable |-> c, update |-> update,
     force |-> force, timeout |-> timeout, scheduled |-> FALSE,
     error |-> "", info |-> NoInfo]

Idle == NewTask("idle", NULL, NULL, FALSE, FALSE)

Alive(w) == task[w].kind # "idle"

Serving == running /\ ~liveBoot

TaskCancelled(w) == task[w].cancellable \in cancelled

-----------------------------------------------------------------------------
(* Parts of the handlers.                                                  *)

eos_updater_clear_error(s) ==
    /\ state' = s
    /\ error' = ""
    /\ signals' = <<s>>

eos_updater_set_error(e) ==
    /\ state' = "ERROR"
    /\ error' = e
    /\ signals' = <<"ERROR">>

(* g_cancellable_new: an address no task holds a reference to.             *)
FreeCancellables ==
    Cancellables \ {task[w].cancellable : w \in {v \in Workers : Alive(v)}}

(* Called with the set of cancellables triggered so far: only a triggered   *)
(* one is replaced.  A new object starts untriggered.  (KeepCancellable, a    *)
(* faulty variant, never replaces it.)                                      *)
KeepCancellable(triggered) ==
    /\ cancellable' = cancellable
    /\ cancelled' = triggered

eos_updater_data_reset_cancellable(triggered) ==
    \/ /\ cancellable \notin triggered
       /\ cancellable' = cancellable
       /\ cancelled' = triggered
    \/ /\ cancellable \in triggered
       /\ \E c \in FreeCancellables :
             /\ cancellable' = c
             /\ cancelled' = triggered \ {c}

(* g_task_new and g_task_run_in_thread, at the end of every handler.        *)
StartTask(w, t) ==
    /\ ~Alive(w)
    /\ task' = [task EXCEPT ![w] = t]
    /\ history' = NoHistory

(* The states a poll may start from.  The faulty variant lets one in beside   *)
(* any operation in progress.                                               *)
PollStatesAndBusy == {"READY", "UPDATE_AVAILABLE", "UPDATE_READY", "ERROR"} \cup Busy

PollStates == {"READY", "UPDATE_AVAILABLE", "UPDATE_READY", "ERROR"}

-----------------------------------------------------------------------------
(* The D-Bus methods.  A call in a state its switch does not list is         *)
(* answered with WrongState and changes nothing, a step not told from        *)
(* stuttering.                                                               *)

handle_poll(w) ==
    /\ Serving
    /\ state \in PollStates
    /\ eos_updater_data_reset_cancellable(cancelled)
    /\ eos_updater_clear_error("POLLING")
    /\ StartTask(w, NewTask("poll", cancellable', NULL, FALSE, FALSE))
    /\ UNCHANGED <<running, liveBoot, updateId, data, disk>>

handle_poll_volume(w) ==
    /\ Serving
    /\ state \in PollStates
    /\ eos_updater_data_reset_cancellable(cancelled)
    /\ eos_updater_clear_error("POLLING")
    /\ StartTask(w, NewTask("poll_volume", cancellable', NULL, FALSE, FALSE))
    /\ UNCHANGED <<running, liveBoot, updateId, data, disk>>

handle_fetch_full(w, force, timeout) ==
    /\ Serving
    /\ state = "UPDATE_AVAILABLE"
    /\ eos_updater_data_reset_cancellable(cancelled)
    /\ eos_updater_clear_error("FETCHING")
    /\ StartTask(w, NewTask("fetch", cancellable', updateId, force, timeout))
    /\ UNCHANGED <<running, liveBoot, updateId, data, disk>>

(* Fetch is FetchFull without options: not forced, and no time limit.       *)
handle_fetch(w) == handle_fetch_full(w, FALSE, FALSE)

handle_apply(w) ==
    /\ Serving
    /\ state = "UPDATE_READY"
    /\ eos_updater_data_reset_cancellable(cancelled)
    /\ eos_updater_clear_error("APPLYING_UPDATE")
    /\ StartTask(w, NewTask("apply", cancellable', updateId, FALSE, FALSE))
    /\ UNCHANGED <<running, liveBoot, updateId, data, disk>>

(* Cancel triggers the cancellable and replaces it at once; the state stays *)
(* busy until the worker's callback runs.                                   *)
handle_cancel ==
    /\ Serving
    /\ state \in Busy
    /\ eos_updater_data_reset_cancellable(cancelled \cup {cancellable})
    /\ history' = [history EXCEPT !.cancel = TRUE]
    /\ signals' = <<>>
    /\ UNCHANGED <<running, liveBoot, state, error, updateId, data, task, disk>>

-----------------------------------------------------------------------------
(* The worker threads.                                                     *)

AtPhase(w, kinds, p) == running /\ task[w].kind \in kinds /\ task[w].phase = p

GoTo(w, p) == task' = [task EXCEPT ![w].phase = p]

(* g_task_return_error.                                                    *)
ReturnError(w, e) ==
    task' = [task EXCEPT ![w].phase = "returned", ![w].error = e]

(* g_task_return_boolean, or g_task_return_pointer with @info.              *)
ReturnInfo(w, i) ==
    task' = [task EXCEPT ![w].phase = "returned", ![w].info = i]

ReturnOk(w) == ReturnInfo(w, NoInfo)

(* The errors an I/O operation of the worker may fail with: it looks at the *)
(* cancellable at moments of its own choosing.                              *)
IOErrors(w) ==
    {"Failed", "Other"} \cup (IF TaskCancelled(w) THEN {"Cancelled"} ELSE {})

WorkerOnly == UNCHANGED <<running, liveBoot, state, error, updateId, data,
                          cancellable, cancelled, booted>> /\ signals' = <<>>

(* Only the older code looks at the main source without finder results, and *)
(* a volume is given to the finders as an override URI, which counts as     *)
(* online.                                                                  *)
PollSources(kind) == IF kind = "poll" THEN Sources ELSE {"online"}

(* is_checksum_an_update: what is booted already is no update.              *)
FoundInfos(kind) ==
    [checksum : Commits \ {booted}, source : PollSources(kind)]

metadata_fetch(w) ==
    /\ AtPhase(w, {"poll", "poll_volume"}, "run")
    /\ \/ booted = NULL /\ ReturnError(w, "NotOstreeSystem")
       \/ /\ booted # NULL
          /\ \/ \E e \in IOErrors(w) : ReturnError(w, e)
             \/ \E i \in FoundInfos(task[w].kind) \cup {NoInfo} : ReturnInfo(w, i)
    /\ WorkerOnly
    /\ UNCHANGED <<pulled, deployed, history>>

(* check_scheduler up to its wait.  It reads @data, which it shares with    *)
(* the main thread.                                                         *)
check_scheduler(w) ==
    /\ AtPhase(w, {"fetch"}, "run")
    /\ \/ /\ task[w].force \/ data.offline_results_only
          /\ GoTo(w, "pull")
       \/ /\ ~(task[w].force \/ data.offline_results_only)
          /\ \/ GoTo(w, "waiting")
             \/ \E e \in IOErrors(w) : ReturnError(w, e)
    /\ WorkerOnly
    /\ UNCHANGED <<pulled, deployed, history>>

(* The scheduler allows the download.                                      *)
SchedulerPermits(w) ==
    /\ AtPhase(w, {"fetch"}, "waiting")
    /\ task' = [task EXCEPT ![w].phase = "pull", ![w].scheduled = TRUE]
    /\ WorkerOnly
    /\ UNCHANGED <<pulled, deployed, history>>

(* The entry is invalidated.                                               *)
SchedulerInvalidates(w) ==
    /\ AtPhase(w, {"fetch"}, "waiting")
    /\ ReturnError(w, "MeteredConnection")
    /\ WorkerOnly
    /\ UNCHANGED <<pulled, deployed, history>>

(* The wait ends by itself: its time limit has passed, or the operation is  *)
(* cancelled.  The faulty variant knows no time limit.                      *)
WaitIgnoresTimeout(w) ==
    /\ AtPhase(w, {"fetch"}, "waiting")
    /\ TaskCancelled(w) /\ ReturnError(w, "Cancelled")
    /\ WorkerOnly
    /\ UNCHANGED <<pulled, deployed, history>>

SchedulerWaitEnds(w) ==
    /\ AtPhase(w, {"fetch"}, "waiting")
    /\ \/ task[w].timeout /\ ReturnError(w, "MeteredConnection")
       \/ TaskCancelled(w) /\ ReturnError(w, "Cancelled")
    /\ WorkerOnly
    /\ UNCHANGED <<pulled, deployed, history>>

(* While it holds a schedule entry, the scheduler can cancel the download.  *)
PullErrors(w) ==
    IOErrors(w) \cup (IF task[w].scheduled THEN {"Cancelled"} ELSE {})

(* What a pull may complete: the commit of the finder results (content_     *)
(* fetch_new), or the copied update_id (content_fetch_old) when there are   *)
(* no results or they fail.                                                 *)
PullTargets(w) == {data.results, task[w].update} \ {NULL}

(* The rest of content_fetch.  Reading the commit's list of flatpaks needs   *)
(* the commit update_id; an error may come after the pull as well as        *)
(* before.                                                                  *)
content_fetch(w) ==
    /\ AtPhase(w, {"fetch"}, "pull")
    /\ \/ \E c \in PullTargets(w) :
             /\ pulled' = pulled \cup {c}
             /\ \/ task[w].update \in pulled' /\ ReturnOk(w)
                \/ \E e \in PullErrors(w) : ReturnError(w, e)
       \/ /\ \E e \in PullErrors(w) : ReturnError(w, e)
          /\ UNCHANGED pulled
    /\ WorkerOnly
    /\ UNCHANGED <<deployed, history>>

(* apply_internal up to the new deployment, which needs the whole commit.   *)
apply_deploy(w) ==
    /\ AtPhase(w, {"apply"}, "run")
    /\ \/ /\ booted # NULL
          /\ task[w].update \in pulled
          /\ deployed' = task[w].update
          /\ history' = [history EXCEPT !.deployed = TRUE]
          /\ GoTo(w, "refs")
       \/ /\ \E e \in IOErrors(w) : ReturnError(w, e)
          /\ UNCHANGED <<deployed, history>>
    /\ WorkerOnly
    /\ UNCHANGED pulled

(* Pruning the repository keeps what is deployed; of the rest it may remove   *)
(* anything, or fail.                                                       *)
Prune(kept) == pulled' \in {left \in SUBSET pulled : kept \subseteq left}

(* The rest of apply_internal.  Deleting the ref the system was on, which is *)
(* done when the update is on another, is its last step that may fail;       *)
(* whether ostree_sysroot_cleanup fails makes no difference.                 *)
apply_refs(w) ==
    /\ AtPhase(w, {"apply"}, "refs")
    /\ \/ ReturnOk(w) /\ Prune({booted, deployed})
       \/ /\ Refspec[task[w].update] # Refspec[booted]
          /\ \E e \in IOErrors(w) : ReturnError(w, e)
          /\ UNCHANGED pulled
    /\ WorkerOnly
    /\ UNCHANGED <<deployed, history>>

-----------------------------------------------------------------------------
(* The callbacks of the tasks, on the main thread.                          *)

(* g_task_propagate_*: GTask reports Cancelled whenever its cancellable is   *)
(* triggered, whatever the thread returned.  The faulty variants lose the    *)
(* cancellation, and the thread's error.                                    *)
PropagatedNoCancel(w) == task[w].error
PropagatedNoError(w) == IF TaskCancelled(w) THEN "Cancelled" ELSE ""

Propagated(w) == IF TaskCancelled(w) THEN "Cancelled" ELSE task[w].error

TaskOver(w) == task' = [task EXCEPT ![w] = Idle]

(* What the poll leaves in EosUpdaterData.  (The faulty variant does not      *)
(* clear the results of an earlier poll.)                                    *)
DataKeepingResults(info) ==
    [results |-> IF info.source = "main" THEN data.results ELSE info.checksum,
     offline_results_only |-> info.source = "offline"]

DataFrom(info) ==
    [results |-> IF info.source = "main" THEN NULL ELSE info.checksum,
     offline_results_only |-> info.source = "offline"]

(* A poll that found nothing and a poll that failed both pass through READY. *)
(* get_commit_sizes may fail after the update has been announced.            *)
metadata_fetch_finished(w) ==
    /\ AtPhase(w, {"poll", "poll_volume"}, "returned")
    /\ LET e == Propagated(w)
           info == IF e = "" THEN task[w].info ELSE NoInfo
       IN  \/ /\ info # NoInfo
              /\ data' = DataFrom(info)
              /\ updateId' = info.checksum
              /\ \/ eos_updater_clear_error("UPDATE_AVAILABLE")
                 \/ /\ state' = "ERROR"
                    /\ error' = "Other"
                    /\ signals' = <<"UPDATE_AVAILABLE", "ERROR">>
           \/ /\ info = NoInfo
              /\ e = ""
              /\ eos_updater_clear_error("READY")
              /\ UNCHANGED <<data, updateId>>
           \/ /\ info = NoInfo
              /\ e # ""
              /\ state' = "ERROR"
              /\ error' = e
              /\ signals' = <<"READY", "ERROR">>
              /\ UNCHANGED <<data, updateId>>
    /\ TaskOver(w)
    /\ UNCHANGED <<running, liveBoot, cancellable, cancelled, disk, history>>

content_fetch_finished(w) ==
    /\ AtPhase(w, {"fetch"}, "returned")
    /\ LET e == Propagated(w)
       IN  \/ e = "" /\ eos_updater_clear_error("UPDATE_READY")
           \/ e = "Failed" /\ eos_updater_set_error("Fetching")
           \/ e \notin {"", "Failed"} /\ eos_updater_set_error(e)
    /\ TaskOver(w)
    /\ UNCHANGED <<running, liveBoot, updateId, data, cancellable, cancelled,
                   disk, history>>

apply_finished(w) ==
    /\ AtPhase(w, {"apply"}, "returned")
    /\ LET e == Propagated(w)
       IN  \/ e = "" /\ eos_updater_clear_error("UPDATE_APPLIED")
           \/ e # "" /\ eos_updater_set_error(e)
    /\ TaskOver(w)
    /\ UNCHANGED <<running, liveBoot, updateId, data, cancellable, cancelled,
                   disk, history>>

-----------------------------------------------------------------------------
(* The process.                                                            *)

(* main and on_bus_acquired.  The object is exported after its state is set, *)
(* so no client hears of the signals.                                       *)
main ==
    /\ ~running
    /\ running' = TRUE
    /\ \/ ~liveBoot /\ booted # NULL /\ state' = "READY" /\ error' = ""
       \/ ~liveBoot /\ booted = NULL /\ state' = "ERROR" /\ error' = "NotOstreeSystem"
       \/ ~liveBoot /\ state' = "ERROR" /\ error' = "Other"
       \/ liveBoot /\ state' = "ERROR" /\ error' = "LiveBoot"
    /\ signals' = <<>>
    /\ updateId' = NULL
    /\ data' = NoData
    /\ \E c \in Cancellables : cancellable' = c
    /\ cancelled' = {}
    /\ UNCHANGED <<liveBoot, task, disk, history>>

(* The process ends, its threads with it, whatever they were doing.          *)
ProcessEnds ==
    /\ running' = FALSE
    /\ state' = "NONE"
    /\ error' = ""
    /\ signals' = <<>>
    /\ updateId' = NULL
    /\ data' = NoData
    /\ cancellable' = NULL
    /\ cancelled' = {}
    /\ task' = [w \in Workers |-> Idle]
    /\ history' = NoHistory
    /\ UNCHANGED liveBoot

(* Another process takes the bus name, or this one is killed.               *)
on_name_lost == running /\ ProcessEnds /\ UNCHANGED disk

(* The quit file of the tests: not during an operation.                     *)
check_and_quit ==
    /\ running
    /\ state \notin Busy
    /\ ProcessEnds
    /\ UNCHANGED disk

(* The next boot runs the deployed commit, and prunes the repository; a       *)
(* staged deployment that cannot be finalised at shutdown is lost.           *)
Reboot ==
    /\ ProcessEnds
    /\ booted' \in {booted, deployed}
    /\ deployed' = booted'
    /\ Prune({booted'} \ {NULL})

-----------------------------------------------------------------------------

(* The system was installed with its commit complete, and deployed.         *)
Init ==
    /\ running = FALSE
    /\ liveBoot \in BOOLEAN
    /\ state = "NONE"
    /\ error = ""
    /\ updateId = NULL
    /\ signals = <<>>
    /\ data = NoData
    /\ cancellable = NULL
    /\ cancelled = {}
    /\ task = [w \in Workers |-> Idle]
    /\ booted \in Commits \cup {NULL}
    /\ deployed = booted
    /\ pulled = {booted} \ {NULL}
    /\ history = NoHistory

MainLoop(w) ==
    metadata_fetch_finished(w) \/ content_fetch_finished(w) \/ apply_finished(w)

Calls(w) ==
    \/ handle_poll(w)
    \/ handle_poll_volume(w)
    \/ handle_fetch(w)
    \/ \E force, timeout \in BOOLEAN : handle_fetch_full(w, force, timeout)
    \/ handle_apply(w)

(* The steps of a thread; what the scheduler does is none of them.           *)
Worker(w) ==
    \/ metadata_fetch(w)
    \/ check_scheduler(w)
    \/ SchedulerWaitEnds(w)
    \/ content_fetch(w)
    \/ apply_deploy(w)
    \/ apply_refs(w)

Scheduler(w) == SchedulerPermits(w) \/ SchedulerInvalidates(w)

Next ==
    \/ \E w \in Workers : Calls(w) \/ MainLoop(w) \/ Worker(w) \/ Scheduler(w)
    \/ handle_cancel
    \/ main
    \/ on_name_lost
    \/ check_and_quit
    \/ Reboot

Spec == Init /\ [][Next]_vars

(* The kernel runs the threads and the main loop dispatches what is queued;  *)
(* calls to the scheduler are answered or time out, timers fire, and I/O on   *)
(* the disk ends (other programs give back the lock of the sysroot).  A poll   *)
(* and a download may take for ever (the network, and rebases that lead in a   *)
(* circle), unless they are cancelled.  Nobody has to call, to allow a         *)
(* download or to restart the daemon.                                       *)
Fairness ==
    \A w \in Workers :
        /\ WF_vars(MainLoop(w))
        /\ WF_vars(TaskCancelled(w) /\ metadata_fetch(w))
        /\ WF_vars(check_scheduler(w)) /\ WF_vars(SchedulerWaitEnds(w))
        /\ WF_vars(TaskCancelled(w) /\ content_fetch(w))
        /\ WF_vars(apply_deploy(w)) /\ WF_vars(apply_refs(w))

FairSpec == Spec /\ Fairness

-----------------------------------------------------------------------------
(* Properties.                                                             *)

(* Every variable holds what its declaration in the code allows.            *)
TypeOK ==
    /\ running \in BOOLEAN
    /\ liveBoot \in BOOLEAN
    /\ state \in States
    /\ error \in Errors
    /\ updateId \in Commits \cup {NULL}
    /\ signals \in Seq(States)
    /\ data \in Data
    /\ cancellable \in Cancellables \cup {NULL}
    /\ cancelled \in SUBSET Cancellables
    /\ task \in [Workers -> GTask]
    /\ pulled \in SUBSET Commits
    /\ booted \in Commits \cup {NULL}
    /\ deployed \in Commits \cup {NULL}
    /\ history \in History

BusyState(kind) ==
    CASE kind \in {"poll", "poll_volume"} -> "POLLING"
      [] kind = "fetch" -> "FETCHING"
      [] kind = "apply" -> "APPLYING_UPDATE"
      [] OTHER -> "NONE"

(* "only one worker thread must be alive at once, mutexed on this state"     *)
(* (object.c): there is never a second worker, and the state says which      *)
(* operation the one there is carries out.                                  *)
OneWorker ==
    /\ \A v, w \in Workers : Alive(v) /\ Alive(w) => v = w
    /\ \A w \in Workers : Alive(w) => running /\ state = BusyState(task[w].kind)
    /\ state \in Busy => \E w \in Workers : Alive(w)

(* The update a client is told is ready, being applied or applied is the one *)
(* UpdateID names and its commit is complete in the repository: whichever    *)
(* code pulled it, whatever polls and failures came before.                  *)
ReadyIsPulled ==
    state \in {"UPDATE_READY", "APPLYING_UPDATE", "UPDATE_APPLIED"} =>
        updateId \in pulled

(* The finder results a fetch would pull from, and the flag that lets it      *)
(* bypass the metered-data scheduler, are those of the update UpdateID names, *)
(* not of an earlier poll.                                                   *)
ResultsDescribeUpdate ==
    /\ data.results \in {updateId, NULL}
    /\ data.offline_results_only => data.results # NULL

(* No boot runs a commit that is not complete on disk, and an update said to  *)
(* be applied is the one deployed.                                           *)
DeployedIsPulled ==
    /\ {booted, deployed} \ {NULL} \subseteq pulled
    /\ state = "UPDATE_APPLIED" => deployed = updateId

(* EosUpdaterData is shared with the fetch worker without a lock (fetch.c     *)
(* FIXME, T15923): the main thread never writes it, and never replaces the    *)
(* update, while a worker that uses them is alive.                            *)
SharedDataStable ==
    [][(\E w \in Workers : task[w].kind \in {"fetch", "apply"} /\ task'[w] # Idle) =>
           data' = data /\ updateId' = updateId]_vars

(* An accepted Cancel is never lost: the operation it was for ends in Error   *)
(* with the error Cancelled, even when its thread had finished its work.      *)
CancelHonoured ==
    [][running' /\ history.cancel /\ state \in Busy /\ state' \notin Busy =>
           state' = "ERROR" /\ error' = "Cancelled"]_vars

(* A Cancel is for the operation it was called in: no later operation ends    *)
(* with the error Cancelled by itself, unless the scheduler withdrew its      *)
(* permission for a download.                                                *)
NoStaleCancel ==
    [][error' = "Cancelled" /\ state \in Busy /\ state' \notin Busy =>
           history.cancel \/ (\E w \in Workers : task[w].scheduled)]_vars

(* What the next boot runs changes only in an apply, to the update the client *)
(* was shown when it called Apply; or when a reboot loses a deployment.       *)
DeployOnlyAdvertised ==
    [][deployed' # deployed =>
           \/ state = "APPLYING_UPDATE" /\ deployed' = updateId
           \/ ~running' /\ deployed' = booted]_vars

(* An apply ends, and so does every operation that a client has cancelled, at  *)
(* whatever point and though nothing else would end it; or the daemon does.    *)
CancelledEnds ==
    \A w \in Workers :
        Alive(w) /\ (task[w].kind = "apply" \/ TaskCancelled(w)) ~> ~Alive(w)

(* A fetch comes to its download, or ends, though the scheduler may never       *)
(* answer: one that need not ask it, or has a time limit to wait for it.        *)
Undecided(w) ==
    /\ task[w].kind = "fetch" /\ task[w].phase \in {"run", "waiting"}
    /\ task[w].force \/ task[w].timeout \/ data.offline_results_only
FetchDecided == \A w \in Workers : Undecided(w) ~> ~Undecided(w)

(* No operation keeps the daemon busy for ever that need not: what is not       *)
(* promised is that a poll or a download which nobody cancels ends.            *)
OperationEnds == CancelledEnds /\ FetchDecided

(* What a client can tell of the operations in progress.                     *)
OpName(kind) == IF kind = "poll_volume" THEN "poll" ELSE kind

Ops == {OpName(task[w].kind) : w \in {v \in Workers : Alive(v)}}

Cancelling == \E w \in Workers : Alive(w) /\ TaskCancelled(w)

Interface == INSTANCE UpdaterInterface WITH
    Updates <- Commits,
    NoUpdate <- NULL,
    up <- running,
    update <- updateId,
    ops <- Ops,
    cancel <- Cancelling

(* The daemon implements what its D-Bus interface promises: one operation at  *)
(* a time, each from and to the states the interface lists, a Cancel never    *)
(* lost and never one too many.                                              *)
InterfaceSpec == Interface!Spec

-----------------------------------------------------------------------------
(* The inductive invariant: what the properties rest on.                     *)

(* A worker works on the update the client is shown, and what it has returned *)
(* or done so far is on the disk.                                            *)
TaskConsistent ==
    \A w \in Workers : Alive(w) =>
        /\ task[w].kind \in {"fetch", "apply"} => task[w].update = updateId
        /\ task[w].kind = "fetch" /\ task[w].phase = "returned" /\ task[w].error = ""
               => task[w].update \in pulled
        /\ task[w].kind = "apply" /\
           (task[w].phase = "refs" \/ (task[w].phase = "returned" /\ task[w].error = ""))
               => deployed = task[w].update
        /\ task[w].error = "Cancelled" => history.cancel \/ task[w].scheduled

(* The next task's cancellable is never a triggered one, and the worker's is  *)
(* the one Cancel would trigger until Cancel has triggered it.               *)
CancelConsistent ==
    /\ running => cancellable \in Cancellables \ cancelled
    /\ \A w \in Workers : Alive(w) =>
          IF history.cancel THEN TaskCancelled(w)
                            ELSE task[w].cancellable = cancellable

(* Nothing of a daemon that is not running is left.                          *)
StoppedIsBlank == ~running => state = "NONE" /\ updateId = NULL /\ data = NoData

IInv ==
    /\ TypeOK
    /\ OneWorker
    /\ ReadyIsPulled
    /\ ResultsDescribeUpdate
    /\ DeployedIsPulled
    /\ TaskConsistent
    /\ CancelConsistent
    /\ StoppedIsBlank

-----------------------------------------------------------------------------
(* What the interface's description says and the daemon does not do.         *)

(* com.endlessm.Updater.xml: UpdateID is the empty string if no update is     *)
(* available.                                                               *)
NoUpdateNoId == state = "READY" => updateId = NULL

(* com.endlessm.Updater.xml, Poll: Ready if no update is available, Error if  *)
(* there was an error checking for one.                                     *)
ReadySignalMeansReady ==
    \A i \in 1..Len(signals) : signals[i] = "READY" => state = "READY"

(* com.endlessm.Updater.xml, Cancel: it cancels the operation in progress.    *)
CancelledApplyNotDeployed ==
    state = "ERROR" /\ error = "Cancelled" => ~history.deployed

(* com.endlessm.Updater.xml, Apply: UpdateApplied if the update is            *)
(* successfully applied, Error if there was an error.                        *)
FailedApplyNotDeployed ==
    state = "ERROR" /\ error # "Cancelled" => ~history.deployed
=============================================================================
