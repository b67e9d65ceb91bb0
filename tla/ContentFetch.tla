----------------------------- MODULE ContentFetch -----------------------------
(***************************************************************************)
(* The fetch worker of the eos-updater daemon in detail: content_fetch in    *)
(* fetch.c, the download scheduler (Mogwai) it asks for permission, and the  *)
(* notifications the scheduler sends it.  One fetch, from its start on its   *)
(* thread to its return; EosUpdater is the daemon around it.                 *)
(*                                                                         *)
(* The thread receives the scheduler's notifications only when it iterates   *)
(* its main context: while it waits, and while it pulls the OSTree commit.   *)
(***************************************************************************)
EXTENDS Integers, Sequences, SequencesExt

CONSTANTS
    MaxNotices,   \* bound: notifications the scheduler sends about an entry
    MaxFlatpaks   \* bound: flatpaks the update wants pulled

ASSUME BoundsAssumption == MaxNotices \in Nat /\ MaxFlatpaks \in Nat

VARIABLES
    options,      \* what the fetch was called with and what its poll found
    pc,           \* where the thread is
    cancelled,    \* the task's cancellable has been triggered
    entry,        \* FetchData.schedule_entry: the thread holds one
    slot,         \* what the scheduler has: no entry, or one it has queued,
                  \* granted or dropped
    inbox,        \* its notifications not yet dispatched in the thread
    sent,         \* how many it has sent
    download_now, \* check_scheduler's variables of these names
    timed_out,
    invalidated_error,
    timer,        \* the timeout source is ready
    permitted,    \* check_scheduler has returned TRUE after its wait
    entryCancelled, \* scheduled_entry_cancellable has been triggered
    pulled,       \* the commit is complete in the repository
    flatpaks,     \* how many flatpaks are still to be pulled
    error,        \* what the thread will return, "" for success
    callFailed    \* a D-Bus call that may have created or left an entry failed

vars == <<options, pc, cancelled, entry, slot, inbox, sent, download_now,
          timed_out, invalidated_error, timer, permitted, entryCancelled,
          pulled, flatpaks, error, callFailed>>

wait == <<download_now, timed_out, invalidated_error, timer>>
scheduler == <<slot, inbox, sent>>
content == <<pulled, flatpaks>>

-----------------------------------------------------------------------------

Options == [force : BOOLEAN,                 \* FetchFull's option
            timeout : BOOLEAN,               \* a time limit was given
            results : BOOLEAN,               \* the poll left finder results
            offline_results_only : BOOLEAN]

Asking == {"connecting", "scheduling"}
Waiting == {"testing", "iterating"}
PullingOld == {"pull_old", "pull_old_no_deltas"}
Pulling == {"pull_new"} \cup PullingOld
Over == {"returned", "crashed"}
PC == {"start"} \cup Asking \cup Waiting \cup Pulling \cup {"flatpaks", "unscheduling"} \cup Over

Notices == {"download", "stop", "invalidated"}
Slots == {"none", "queued", "granted", "dropped"}
FetchErrors == {"", "Cancelled", "MeteredConnection", "Other"}

GoTo(p) == pc' = p

Return(e) == pc' = "returned" /\ error' = e

(* The thread leaves through unschedule_download.                           *)
LeaveWith(e) == pc' = "unscheduling" /\ error' = e

(* The cancellable the content is fetched with: the one connected to the     *)
(* schedule entry, if there is an entry.                                     *)
FetchCancelled == IF permitted THEN entryCancelled ELSE cancelled

(* A forced fetch, and a fetch of offline results, do not ask the scheduler.  *)
Unasked == options.force \/ options.offline_results_only

(* What a call made with the task's cancellable may fail with.              *)
CallErrors == {"Other"} \cup (IF cancelled THEN {"Cancelled"} ELSE {})
PullErrors == {"Other"} \cup (IF FetchCancelled THEN {"Cancelled"} ELSE {})

-----------------------------------------------------------------------------
(* check_scheduler.                                                        *)

BeginPull == GoTo(IF options.results THEN "pull_new" ELSE "pull_old")

check_scheduler ==
    /\ pc = "start"
    /\ \/ Unasked /\ BeginPull
       \/ ~Unasked /\ GoTo("connecting")
    /\ UNCHANGED <<options, cancelled, entry, scheduler, wait, permitted,
                   entryCancelled, content, error, callFailed>>

(* schedule_download: connect to the scheduler.                             *)
Connect ==
    /\ pc = "connecting"
    /\ \/ GoTo("scheduling") /\ UNCHANGED error
       \/ \E e \in CallErrors : Return(e)
    /\ UNCHANGED <<options, cancelled, entry, scheduler, wait, permitted,
                   entryCancelled, content, callFailed>>

(* schedule_download: the entry may be granted from the beginning.  A call    *)
(* that fails may have been carried out all the same, and the thread then    *)
(* has no entry to remove.                                                  *)
Schedule ==
    /\ pc = "scheduling"
    /\ \/ /\ slot' \in {"queued", "granted"}
          /\ entry' = TRUE
          /\ download_now' = (slot' = "granted")
          /\ GoTo("testing")
          /\ UNCHANGED <<error, callFailed>>
       \/ /\ slot' \in {"none", "queued", "granted"}
          /\ \E e \in CallErrors : Return(e)
          /\ callFailed' = (slot' # "none")
          /\ UNCHANGED <<entry, download_now>>
    /\ UNCHANGED <<options, cancelled, inbox, sent, timed_out, invalidated_error,
                   timer, permitted, entryCancelled, content>>

(* The test of the waiting loop and what follows it: permission counts more   *)
(* than a time-out, that more than an invalidation, and that more than a      *)
(* cancellation.  Connecting the entry's cancellable to the task's triggers   *)
(* it if the latter is triggered already.                                   *)
WaitTest ==
    /\ pc = "testing"
    /\ \/ /\ download_now
          /\ permitted' = TRUE
          /\ entryCancelled' = cancelled
          /\ BeginPull
          /\ UNCHANGED error
       \/ /\ ~download_now
          /\ \/ timed_out /\ LeaveWith("MeteredConnection")
             \/ ~timed_out /\ invalidated_error /\ LeaveWith("MeteredConnection")
             \/ ~timed_out /\ ~invalidated_error /\ cancelled /\ LeaveWith("Cancelled")
             \/ /\ ~timed_out /\ ~invalidated_error /\ ~cancelled
                /\ GoTo("iterating")
                /\ UNCHANGED error
          /\ UNCHANGED <<permitted, entryCancelled>>
    /\ UNCHANGED <<options, cancelled, entry, scheduler, wait, content, callFailed>>

(* Whether to download, by the last of the notifications that says so, or as  *)
(* before if none does.                                                     *)
LastWord(notices, before) ==
    \/ \E i \in 1..Len(notices) :
          /\ notices[i] = "download"
          /\ \A j \in i+1..Len(notices) : notices[j] = "invalidated"
    \/ before /\ \A i \in 1..Len(notices) : notices[i] = "invalidated"

(* The thread sleeps until one of its sources is ready: a notification, the   *)
(* timeout, or the task's cancellable.                                      *)
SourceReady == inbox # <<>> \/ timer \/ cancelled

(* One iteration dispatches everything that is ready.                       *)
WaitIterate ==
    /\ pc = "iterating"
    /\ SourceReady
    /\ download_now' = LastWord(inbox, download_now)
    /\ invalidated_error' = (invalidated_error \/ Contains(inbox, "invalidated"))
    /\ timed_out' = timer
    /\ inbox' = <<>>
    /\ GoTo("testing")
    /\ UNCHANGED <<options, cancelled, entry, slot, sent, timer, permitted,
                   entryCancelled, content, error, callFailed>>

-----------------------------------------------------------------------------
(* The pull.                                                               *)

PullOnly == UNCHANGED <<options, cancelled, entry, scheduler, wait, permitted,
                        entryCancelled, callFailed>>

(* After any other error of content_fetch_new than Cancelled.  The faulty      *)
(* variant takes the error for a warning.                                    *)
NoFallBack == GoTo("flatpaks")
FallBack == GoTo("pull_old")

(* content_fetch_new.  When an object is not found, the warning about trying  *)
(* again without static deltas reads the message of the error it has just     *)
(* cleared.                                                                 *)
content_fetch_new ==
    /\ pc = "pull_new"
    /\ \/ pulled' = TRUE /\ GoTo("flatpaks") /\ UNCHANGED error
       \/ FetchCancelled /\ LeaveWith("Cancelled") /\ UNCHANGED pulled
       \/ GoTo("crashed") /\ UNCHANGED <<error, pulled>>
       \/ FallBack /\ UNCHANGED <<error, pulled>>
    /\ PullOnly
    /\ UNCHANGED flatpaks

(* content_fetch_old: repo_pull tries again without static deltas when an     *)
(* object is not found; then the commit is read back.                        *)
content_fetch_old ==
    /\ pc \in PullingOld
    /\ \/ pulled' = TRUE /\ GoTo("flatpaks") /\ UNCHANGED error
       \/ pc = "pull_old" /\ GoTo("pull_old_no_deltas") /\ UNCHANGED <<error, pulled>>
       \/ /\ \E e \in PullErrors : LeaveWith(e)
          /\ pulled' \in {pulled, TRUE}
    /\ PullOnly
    /\ UNCHANGED flatpaks

(* Off by one, in the faulty variant.                                       *)
OneMore(n) == n >= 0
More(n) == n > 0

(* prepare_flatpaks_to_deploy: one flatpak after another.                    *)
prepare_flatpaks_to_deploy ==
    /\ pc = "flatpaks"
    /\ \/ /\ More(flatpaks)
          /\ flatpaks' = flatpaks - 1
          /\ UNCHANGED <<pc, error>>
       \/ /\ ~More(flatpaks)
          /\ LeaveWith("")
          /\ UNCHANGED flatpaks
       \/ /\ \E e \in PullErrors : LeaveWith(e)
          /\ UNCHANGED flatpaks
    /\ PullOnly
    /\ UNCHANGED pulled

(* The notifications during a pull: cancel_if_download_forbidden_cb and       *)
(* cancel_on_entry_invalidated_cb.  The faulty variant does not connect the   *)
(* first.                                                                   *)
CancelsOnInvalid(notice) == notice = "invalidated"
CancelsPull(notice) == notice \in {"stop", "invalidated"}

PullIterate ==
    /\ pc \in Pulling
    /\ permitted
    /\ inbox # <<>>
    /\ inbox' = <<>>
    /\ entryCancelled' = (entryCancelled \/ \E i \in 1..Len(inbox) : CancelsPull(inbox[i]))
    /\ UNCHANGED <<options, pc, cancelled, entry, slot, sent, wait, permitted,
                   content, error, callFailed>>

(* unschedule_download, whose failure is only logged.  An entry the scheduler *)
(* has dropped is removed already.  The faulty variant is what a fetch did    *)
(* without it.                                                              *)
NoUnschedule ==
    /\ pc = "unscheduling"
    /\ Return(error)
    /\ UNCHANGED <<options, cancelled, entry, slot, inbox, sent, wait, permitted,
                   entryCancelled, content, callFailed>>

unschedule_download ==
    /\ pc = "unscheduling"
    /\ Return(error)
    /\ entry' = FALSE
    /\ \/ /\ slot' = IF entry THEN "none" ELSE slot
          /\ UNCHANGED callFailed
       \/ /\ entry /\ slot # "dropped"
          /\ callFailed' = TRUE
          /\ UNCHANGED slot
    /\ UNCHANGED <<options, cancelled, inbox, sent, wait, permitted,
                   entryCancelled, content>>

-----------------------------------------------------------------------------
(* What happens to the thread.                                             *)

(* The task is cancelled (the daemon's Cancel method): the handler connected  *)
(* to the task's cancellable triggers the entry's at once.  The faulty       *)
(* variant does not connect it.                                             *)
CancelNotConnected(connected) == FALSE
CancelReachesEntry(connected) == connected

handle_cancel ==
    /\ pc \notin Over
    /\ ~cancelled
    /\ cancelled' = TRUE
    /\ entryCancelled' = (entryCancelled \/ CancelReachesEntry(permitted))
    /\ UNCHANGED <<options, pc, entry, scheduler, wait, permitted, content, error,
                   callFailed>>

timeout_cb ==
    /\ pc \in Waiting
    /\ options.timeout
    /\ ~timer
    /\ timer' = TRUE
    /\ UNCHANGED <<options, pc, cancelled, entry, scheduler, download_now, timed_out,
                   invalidated_error, permitted, entryCancelled, content, error,
                   callFailed>>

(* The scheduler grants or withdraws its permission, or drops the entry (or   *)
(* leaves the bus), and tells the thread.                                   *)
Notify(from, to, notice) ==
    /\ pc \notin Over
    /\ slot \in from
    /\ slot' = to
    /\ sent < MaxNotices
    /\ sent' = sent + 1
    /\ inbox' = IF entry THEN Append(inbox, notice) ELSE inbox
    /\ UNCHANGED <<options, pc, cancelled, entry, wait, permitted, entryCancelled,
                   content, error, callFailed>>

Mogwai ==
    \/ Notify({"queued"}, "granted", "download")
    \/ Notify({"granted"}, "queued", "stop")
    \/ Notify({"queued", "granted"}, "dropped", "invalidated")

-----------------------------------------------------------------------------

Init ==
    /\ options \in {o \in Options : o.offline_results_only => o.results}
    /\ pc = "start"
    /\ cancelled = FALSE
    /\ entry = FALSE
    /\ slot = "none"
    /\ inbox = <<>>
    /\ sent = 0
    /\ download_now = FALSE
    /\ timed_out = FALSE
    /\ invalidated_error = FALSE
    /\ timer = FALSE
    /\ permitted = FALSE
    /\ entryCancelled = FALSE
    /\ pulled = FALSE
    /\ flatpaks \in 0..MaxFlatpaks
    /\ error = ""
    /\ callFailed = FALSE

Steps ==
    \/ check_scheduler
    \/ Connect
    \/ Schedule
    \/ WaitTest
    \/ WaitIterate
    \/ PullIterate
    \/ unschedule_download

Download == content_fetch_new \/ content_fetch_old \/ prepare_flatpaks_to_deploy

Done == pc \in Over /\ UNCHANGED vars

Next == Steps \/ Download \/ handle_cancel \/ timeout_cb \/ Mogwai \/ Done

Spec == Init /\ [][Next]_vars

(* Calls are answered or time out, a source that is ready is dispatched, time *)
(* passes.  A download may take for ever, unless it is cancelled.             *)
Fairness ==
    /\ WF_vars(Steps)
    /\ WF_vars(PullIterate)
    /\ WF_vars(FetchCancelled /\ Download)
    /\ WF_vars(FetchCancelled /\ Download /\ pc' = "unscheduling")
    /\ WF_vars(timeout_cb)

FairSpec == Spec /\ Fairness

-----------------------------------------------------------------------------
(* Properties.                                                             *)

(* Every variable holds what its declaration in the code allows.            *)
TypeOK ==
    /\ options \in Options
    /\ pc \in PC
    /\ slot \in Slots
    /\ inbox \in Seq(Notices) /\ Len(inbox) <= MaxNotices
    /\ sent \in 0..MaxNotices
    /\ flatpaks \in 0..MaxFlatpaks
    /\ error \in FetchErrors
    /\ {cancelled, entry, download_now, timed_out, invalidated_error, timer,
        permitted, entryCancelled, pulled, callFailed} \subseteq BOOLEAN

(* A fetch that is over leaves the scheduler no entry that would hold back     *)
(* other downloads, on whichever of its ways out, unless the scheduler did    *)
(* not answer a call.                                                       *)
EntryGivenBack ==
    pc = "returned" => ~entry /\ (slot \in {"queued", "granted"} => callFailed)

(* A permission that has been withdrawn while a pull runs has either          *)
(* cancelled the pull or is about to: none of the notifications falls between *)
(* the wait and the pull, which listen to them with different handlers.       *)
WithdrawalNotLost ==
    pc \in Pulling /\ permitted /\ slot = "queued" =>
        entryCancelled \/ Contains(inbox, "stop")

(* A pull the scheduler no longer permits ends.                              *)
WithdrawnDownloadStops ==
    (pc \in Pulling /\ permitted /\ slot = "queued") ~> (pc \notin Pulling)

(* A fetch that is cancelled ends, wherever it is: asleep, in a call or in a  *)
(* download.                                                                *)
CancelEndsFetch == cancelled ~> (pc \in Over)

(* A fetch with a time limit does not wait for ever.                         *)
TimeoutEndsWait == (pc \in Waiting /\ options.timeout) ~> (pc \notin Waiting)

(* Whatever the scheduler does, or does not, a fetch that is to end ends.    *)
FetchEnds == CancelEndsFetch /\ TimeoutEndsWait

-----------------------------------------------------------------------------
(* The inductive invariant: what the properties rest on.                     *)

(* The thread holds an entry from the answer of the scheduler on, and without *)
(* it there is nothing the scheduler could have or tell.                      *)
EntryHeld ==
    /\ pc \in {"start"} \cup Asking => ~entry /\ ~permitted
    /\ pc \in Waiting => entry /\ ~permitted
    /\ permitted /\ pc \notin Over => entry
    /\ ~entry /\ pc \notin Over => slot = "none" /\ inbox = <<>>

(* Every notification was sent, and nothing but a drop invalidates an entry.  *)
NoticesSent ==
    /\ Len(inbox) <= sent
    /\ slot \in {"queued", "granted"} => ~Contains(inbox, "invalidated")

(* What the thread will think when it has heard everything is what the        *)
(* scheduler means.                                                         *)
WithdrawalHeard ==
    pc \in Waiting /\ slot = "queued" => ~LastWord(inbox, download_now)

(* Who asks waits for the answer before it pulls, and what a fetch will return *)
(* is what it has come to.                                                   *)
Outcome ==
    /\ pc \in Asking \cup Waiting => ~Unasked
    /\ pc \in Pulling \cup {"flatpaks"} => permitted \/ Unasked
    /\ pc \notin Over /\ ~permitted /\ ~Unasked => ~pulled
    /\ pc = "flatpaks" => pulled
    /\ pc = "unscheduling" =>
          /\ error = "" => pulled
          /\ error = "Cancelled" => cancelled \/ permitted
          /\ error = "MeteredConnection" => ~permitted /\ ~Unasked
          /\ error \in {"", "Other"} => permitted \/ Unasked

IInv ==
    /\ TypeOK
    /\ EntryGivenBack
    /\ WithdrawalNotLost
    /\ EntryHeld
    /\ NoticesSent
    /\ WithdrawalHeard
    /\ Outcome

-----------------------------------------------------------------------------
(* The worker of EosUpdater: a daemon in the state FETCHING the update "new", *)
(* with this fetch as its one task.                                         *)

Phase ==
    CASE pc \in {"start"} \cup Asking -> "run"
      [] pc \in Waiting -> "waiting"
      [] pc \in Pulling \cup {"flatpaks"} -> "pull"
      [] pc = "unscheduling" -> IF permitted \/ Unasked THEN "pull" ELSE "waiting"
      [] OTHER -> "returned"

InProgress == pc # "crashed"

TheTask ==
    IF InProgress
      THEN [kind |-> "fetch",
            phase |-> Phase,
            cancellable |-> "first",
            update |-> "new",
            force |-> options.force,
            timeout |-> options.timeout,
            scheduled |-> permitted,
            error |-> IF pc = "returned" THEN error ELSE "",
            info |-> [checksum |-> "", source |-> "main"]]
      ELSE [kind |-> "idle", phase |-> "run", cancellable |-> "", update |-> "",
            force |-> FALSE, timeout |-> FALSE, scheduled |-> FALSE, error |-> "",
            info |-> [checksum |-> "", source |-> "main"]]

D == INSTANCE EosUpdater WITH
    Commits <- {"old", "new"},
    NULL <- "",
    Refspec <- [c \in {"old", "new"} |-> "ref"],
    Workers <- {"thread"},
    Cancellables <- {"first", "second"},
    running <- InProgress,
    liveBoot <- FALSE,
    state <- IF InProgress THEN "FETCHING" ELSE "NONE",
    error <- "",
    updateId <- IF InProgress THEN "new" ELSE "",
    signals <- <<>>,
    data <- [results |-> IF InProgress /\ options.results THEN "new" ELSE "",
             offline_results_only |-> InProgress /\ options.offline_results_only],
    cancellable <- IF InProgress THEN IF cancelled THEN "second" ELSE "first" ELSE "",
    cancelled <- IF InProgress /\ cancelled THEN {"first"} ELSE {},
    task <- [w \in {"thread"} |-> TheTask],
    pulled <- IF pc = "returned" /\ pulled THEN {"old", "new"} ELSE {"old"},
    booted <- "old",
    deployed <- "old",
    history <- IF InProgress /\ cancelled THEN [cancel |-> TRUE, deployed |-> FALSE]
               ELSE [cancel |-> FALSE, deployed |-> FALSE]

(* Every step of the fetch is one the daemon's fetch worker may take, so that *)
(* what is shown of the daemon is true of it with this worker: it returns     *)
(* success only with the update complete, Cancelled only when it or the       *)
(* scheduler cancelled it, and downloads unasked only when it may.            *)
FetchRefines == [][D!Next]_(D!vars)

-----------------------------------------------------------------------------
(* What the comments say and the code does not do.                           *)

FromInternet == pc \in PullingOld \/ (pc = "pull_new" /\ ~options.offline_results_only)

(* check_scheduler: without the scheduler's permission nothing is downloaded  *)
(* over a connection that may be metered, unless the caller forces it.        *)
PermissionForInternet == FromInternet => options.force \/ permitted

(* repo_pull_from_remotes: a pull that misses an object is tried again,       *)
(* without static deltas.                                                   *)
BrokenDeltaSurvived == pc # "crashed"
=============================================================================
