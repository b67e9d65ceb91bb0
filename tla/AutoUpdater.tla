------------------------------ MODULE AutoUpdater ------------------------------
(***************************************************************************)
(* eos-autoupdater (eos-autoupdater/main.c): a program started by a timer    *)
(* that drives the daemon's interface as far as it is configured to, once    *)
(* every Interval days, and holds user visible updates back.  The daemon is  *)
(* the one UpdaterInterface specifies; it has other clients too.             *)
(*                                                                         *)
(* The program follows the daemon through notifications that arrive later    *)
(* and are coalesced: the daemon emits its properties, all that changed at    *)
(* once, from an idle source of its main loop.                              *)
(***************************************************************************)
EXTENDS Integers, Sequences, SequencesExt

CONSTANTS
    Updates,            \* what UpdateID can announce
    UserVisible,        \* the updates that are marked user visible
    Interval,           \* IntervalDays
    RandomizedDelay,    \* RandomizedDelayDays
    UserVisibleDelay,   \* UserVisibleUpdateDelayDays
    LastSteps,          \* the values of LastAutomaticStep considered
    MaxTime,            \* bound: days
    MaxDisturbances     \* bound: calls of other clients, ends of the daemon or
                        \* the program, and I/O errors

ASSUME UpdatesAssumption == UserVisible \subseteq Updates /\ "" \notin Updates
ASSUME ConfigAssumption ==
    /\ {Interval, RandomizedDelay, UserVisibleDelay} \subseteq Nat
    /\ LastSteps \subseteq 0..3
    /\ {MaxTime, MaxDisturbances} \subseteq Nat

VARIABLES
    up, state, error, update, ops, cancel,  \* the daemon
    pending,      \* its changed properties wait to be emitted
    ahead,        \* how many calls the main loop will dispatch before that
    emitted,      \* the properties as last emitted
    now,          \* the day
    bound,        \* how many calls of other clients and faults there were
    found,        \* when a poll first announced each visible update, -1 for never
    stamp,        \* mtime of the stamp file, -1 if there is none
    success,      \* when a run last wrote it at its end, -1 for never
    results,      \* the poll results file
    lastStep,     \* last_automatic_step
    running,      \* the program runs
    force,        \* force_update
    proxy,        \* what the proxy has cached of the properties
    calls,        \* its calls on their way to the daemon
    inbox,        \* what is on its way to it
    idle,         \* initial_poll_idle_func has still to run
    previous,     \* previous_state
    polled,       \* polled_already
    known,        \* poll_results
    failed,       \* should_exit_failure
    quit          \* the state in which it last quit its main loop, "" if not yet

daemon == <<up, state, error, update, ops, cancel>>
emission == <<pending, ahead, emitted>>
files == <<stamp, success, results>>
program == <<running, force, proxy, idle, previous, polled, known, failed, quit>>

vars == <<daemon, emission, now, bound, found, files, lastStep, program, calls, inbox>>

D == INSTANCE UpdaterInterface WITH NoUpdate <- ""

States == {"NONE", "READY", "POLLING", "UPDATE_AVAILABLE", "FETCHING", "UPDATE_READY",
           "APPLYING_UPDATE", "UPDATE_APPLIED", "ERROR"}
NoResults == [since |-> -1, update |-> ""]
Blank == [state |-> "NONE", update |-> ""]
Exposed == [state |-> state, update |-> update]

(* update_step_callback's and on_name_owner_changed's messages carry nothing. *)
Message(kind) == [kind |-> kind, props |-> Blank]
Changed(props) == [kind |-> "changed", props |-> props]

Disturbance == bound < MaxDisturbances /\ bound' = bound + 1
Smooth == UNCHANGED bound

-----------------------------------------------------------------------------
(* The daemon, its other clients, and the bus.                               *)

(* Changed properties are emitted by an idle source that the change attaches.  *)
(* The main loop dispatches sources in the order they were attached: calls    *)
(* that had arrived come first, calls sent since come later.                  *)
Touched ==
    /\ pending' = TRUE
    /\ ahead' = IF pending THEN ahead ELSE Len(calls')
    /\ UNCHANGED emitted

(* What comes once the main loop has been quit is not dispatched any more.     *)
Send(messages) == inbox' = IF running /\ quit = "" THEN inbox \o messages ELSE inbox

(* Calls are handled in the order they come; one the state does not allow     *)
(* fails, and the caller is told if it is still there.                        *)
Method(step) == CASE step = 1 -> D!Poll
                  [] step = 2 -> D!Fetch
                  [] step = 3 -> D!Apply

Allowed(step) == ops = {} /\ (CASE step = 1 -> state \in {"READY", "UPDATE_AVAILABLE",
                                                          "UPDATE_READY", "ERROR"}
                                [] step = 2 -> state = "UPDATE_AVAILABLE"
                                [] step = 3 -> state = "UPDATE_READY")

HandleCall ==
    /\ calls # <<>>
    /\ calls' = Tail(calls)
    /\ pending => ahead > 0
    /\ LET call == Head(calls) IN
       \/ /\ up /\ Allowed(call.step)
          /\ Method(call.step)
          /\ pending' = TRUE
          /\ ahead' = IF pending THEN ahead - 1 ELSE Len(calls')
          /\ UNCHANGED <<emitted, inbox>>
       \/ /\ ~(up /\ Allowed(call.step))
          /\ Send(IF call.waiting THEN <<Message("refused")>> ELSE <<>>)
          /\ ahead' = IF pending THEN ahead - 1 ELSE ahead
          /\ UNCHANGED <<daemon, pending, emitted>>
    /\ UNCHANGED <<now, bound, found, files, lastStep, program>>

OtherClient ==
    /\ Disturbance
    /\ \/ D!Poll \/ D!Fetch \/ D!Apply
       \/ ~cancel /\ D!Cancel
    /\ UNCHANGED <<now, found, files, lastStep, program, calls, inbox>>
    /\ Touched

(* The callback of a task is dispatched after the emission the start of the   *)
(* task has attached.                                                       *)
Finish ==
    /\ ~pending
    /\ update' \in Updates \cup {""}
    /\ error' \in IF cancel THEN {"Cancelled"} ELSE {"", "Other"}
    /\ D!End
    /\ UNCHANGED <<now, bound, files, lastStep, program, calls, inbox>>
    /\ Touched
    /\ found' = [u \in UserVisible |->
          IF u = update' /\ found[u] = -1 THEN now ELSE found[u]]

Emit ==
    /\ up
    /\ pending
    /\ pending' = FALSE
    /\ ahead' = 0
    /\ emitted' = Exposed
    /\ Send(IF Exposed # emitted THEN <<Changed(Exposed)>> ELSE <<>>)
    /\ UNCHANGED <<daemon, now, bound, found, files, lastStep, program, calls>>

DaemonStarts ==
    /\ error' \in {"", "Other"}
    /\ D!Start
    /\ pending' = FALSE
    /\ ahead' = 0
    /\ emitted' = Exposed'
    /\ Send(<<Changed(Exposed')>>)
    /\ UNCHANGED <<now, bound, found, files, lastStep, program, calls>>

(* A proxy whose service leaves forgets the properties and says so before it   *)
(* says that the owner is gone.                                             *)
DaemonStops ==
    /\ up
    /\ Disturbance
    /\ D!Stop
    /\ pending' = FALSE
    /\ ahead' = 0
    /\ emitted' = Blank
    /\ Send(<<Changed(Blank), Message("lost")>>)
    /\ UNCHANGED <<now, found, files, lastStep, program, calls>>

Tick ==
    /\ now < MaxTime
    /\ now' = now + 1
    /\ UNCHANGED <<daemon, emission, bound, found, files, lastStep, program, calls, inbox>>

-----------------------------------------------------------------------------
(* The stamp file.                                                          *)

(* update_stamp_file: the file is written, and then given its time with a      *)
(* random delay; either may fail, or not come to be done.                     *)
StampTimes(time) == {time + d : d \in 0..RandomizedDelay}

update_stamp_file(time) ==
    \/ Smooth /\ stamp' \in StampTimes(time)
    \/ Disturbance /\ stamp' \in {stamp, now}

(* A stamp file whose time cannot be told counts as due.                       *)
is_time_to_update ==
    \/ Smooth /\ stamp = -1 /\ RandomizedDelay = 0
    \/ Smooth /\ stamp # -1 /\ stamp + Interval <= now
    \/ Disturbance

-----------------------------------------------------------------------------
(* The start of the program (main).                                          *)

(* The first run on a computer is spread over the randomised delay by a stamp  *)
(* that pretends an update one interval ago.                                 *)
FirstRun ==
    /\ ~running
    /\ stamp = -1 /\ RandomizedDelay > 0
    /\ update_stamp_file(IF now >= Interval THEN now - Interval ELSE now)
    /\ UNCHANGED <<daemon, emission, now, found, success, results, lastStep,
                   program, calls, inbox>>

(* The proxy loads the properties; it is taken to do so when none of them      *)
(* waits to be emitted, so that it has what was emitted last.                 *)
main ==
    /\ ~running
    /\ up
    /\ ~pending
    /\ force' \in BOOLEAN
    /\ (force' /\ Smooth) \/ is_time_to_update
    /\ running' = TRUE
    /\ proxy' = Exposed
    /\ idle' = TRUE
    /\ previous' = "NONE"
    /\ polled' = FALSE
    /\ known' = NoResults
    /\ failed' = FALSE
    /\ quit' = ""
    /\ UNCHANGED <<daemon, emission, now, found, files, lastStep, calls, inbox>>

-----------------------------------------------------------------------------
(* What it does when the daemon's state changes.                             *)

(* What is remembered of a poll with this result, after what the file says.    *)
Latest(old) == IF old # NoResults /\ old.update = proxy'.update
               THEN old
               ELSE [since |-> now, update |-> proxy'.update]

(* The results are taken anew when a poll has ended, and when an update was    *)
(* found before this run.  The faulty variant trusts those of this run's poll. *)
RefreshOnce(s) == s \in {"UPDATE_AVAILABLE", "UPDATE_READY"} /\ known = NoResults
Refresh(s) == previous = "POLLING" \/ RefreshOnce(s)

(* The file may be unreadable or not be written; a new poll of its own makes   *)
(* the program forget what it knows, but not the file.                        *)
update_poll_results(s, forget) ==
    /\ \/ Smooth /\ results' = IF Refresh(s) THEN Latest(results) ELSE results
       \/ Refresh(s) /\ Disturbance /\ results' \in {results, Latest(NoResults)}
    /\ known' = CASE forget -> NoResults
                  [] ~forget /\ Refresh(s) -> Latest(results')
                  [] ~forget /\ ~Refresh(s) -> known

(* Off by one, in the faulty variant.                                       *)
NotPast(step) == step < lastStep
WithinConfig(step) == step <= lastStep

PollAgain == WithinConfig(1)
PollOnce == WithinConfig(1) /\ ~polled

(* A user visible update has to wait, unless forced.  The faulty variant lets   *)
(* it go a day early.                                                       *)
HeldBackOneDayLess ==
    /\ ~force
    /\ proxy'.update \in UserVisible
    /\ now + 1 < known'.since + UserVisibleDelay
HeldBack ==
    /\ ~force
    /\ proxy'.update \in UserVisible
    /\ now < known'.since + UserVisibleDelay

Call(step) == calls' = Append(calls, [step |-> step, waiting |-> TRUE])

(* do_update_step, where a FALSE quits the main loop.                          *)
do_update_step(s, step, goOn) ==
    \/ goOn /\ Call(step) /\ UNCHANGED quit
    \/ ~goOn /\ quit' = s /\ UNCHANGED calls

on_state_changed(s) ==
    \/ /\ s = previous
       /\ UNCHANGED <<previous, polled, known, results, failed, quit, calls, bound>>
    \/ /\ s # previous
       /\ previous' = s
       /\ \/ /\ s \in {"NONE", "POLLING", "FETCHING", "APPLYING_UPDATE"}
             /\ update_poll_results(s, FALSE)
             /\ UNCHANGED <<polled, failed, quit, calls>>
          \/ /\ s = "READY"
             /\ polled' = (polled \/ PollOnce)
             /\ update_poll_results(s, PollOnce)
             /\ do_update_step(s, 1, PollOnce)
             /\ UNCHANGED failed
          \/ /\ s = "ERROR"
             /\ update_poll_results(s, FALSE)
             /\ failed' = TRUE
             /\ quit' = s
             /\ UNCHANGED <<polled, calls>>
          \/ /\ s = "UPDATE_AVAILABLE"
             /\ update_poll_results(s, FALSE)
             /\ do_update_step(s, 2, WithinConfig(2))
             /\ UNCHANGED <<polled, failed>>
          \/ /\ s = "UPDATE_READY"
             /\ update_poll_results(s, FALSE)
             /\ do_update_step(s, 3, WithinConfig(3) /\ ~HeldBack)
             /\ UNCHANGED <<polled, failed>>
          \/ /\ s = "UPDATE_APPLIED"
             /\ update_poll_results(s, FALSE)
             /\ quit' = s
             /\ UNCHANGED <<polled, failed, calls>>

(* An error left by an earlier run is taken for readiness, so that it polls.   *)
(* The idle source has the lowest priority: it runs when nothing has arrived.  *)
initial_poll_idle_func ==
    /\ running
    /\ idle
    /\ quit = ""
    /\ idle' = FALSE
    /\ UNCHANGED proxy
    /\ on_state_changed(IF proxy.state = "ERROR" THEN "READY" ELSE proxy.state)
    /\ inbox' = IF quit' = "" THEN inbox ELSE <<>>
    /\ UNCHANGED <<daemon, emission, now, found, stamp, success, lastStep, running, force>>

(* on_state_changed_notify: only a changed State is notified.                *)
on_state_changed_notify ==
    /\ Head(inbox).kind = "changed"
    /\ proxy' = Head(inbox).props
    /\ \/ proxy'.state # proxy.state /\ on_state_changed(proxy'.state)
       \/ /\ proxy'.state = proxy.state
          /\ UNCHANGED <<previous, polled, known, results, failed, quit, calls, bound>>

(* on_name_owner_changed, and a failure in update_step_callback.              *)
Fail ==
    /\ Head(inbox).kind \in {"lost", "refused"}
    /\ failed' = TRUE
    /\ quit' = "ERROR"
    /\ UNCHANGED <<proxy, previous, polled, known, results, calls, bound>>

(* Messages that have arrived when the main loop is quit are still dispatched. *)
Dispatch ==
    /\ running
    /\ inbox # <<>>
    /\ on_state_changed_notify \/ Fail
    /\ \/ (quit # "" \/ quit' = "") /\ inbox' = Tail(inbox)
       \/ /\ quit = "" /\ quit' # ""
          /\ \E n \in 1..Len(inbox) : inbox' = SubSeq(inbox, 2, n)
    /\ UNCHANGED <<daemon, emission, now, found, stamp, success, lastStep, running,
                   force, idle>>

-----------------------------------------------------------------------------
(* The end of the program.                                                   *)

(* It forgets everything but the files; calls it has sent arrive, of those it  *)
(* has just made perhaps only the first ones.                                *)
Leave ==
    /\ running' = FALSE
    /\ inbox' = <<>>
    /\ \E n \in 0..Len(calls) :
          /\ n >= ahead
          /\ calls' = [i \in 1..n |-> [calls[i] EXCEPT !.waiting = FALSE]]
    /\ force' = FALSE
    /\ proxy' = Blank
    /\ idle' = FALSE
    /\ previous' = "NONE"
    /\ polled' = FALSE
    /\ known' = NoResults
    /\ failed' = FALSE
    /\ quit' = ""

Exit ==
    /\ running
    /\ quit # ""
    /\ inbox = <<>>
    /\ Leave
    /\ \/ failed /\ UNCHANGED <<stamp, success, bound>>
       \/ /\ ~failed
          /\ update_stamp_file(now)
          /\ success' = IF stamp' = stamp THEN success ELSE now
    /\ UNCHANGED <<daemon, emission, now, found, results, lastStep>>

Killed ==
    /\ running
    /\ Disturbance
    /\ Leave
    /\ UNCHANGED <<daemon, emission, now, found, files, lastStep>>

-----------------------------------------------------------------------------

Init ==
    /\ D!Init
    /\ pending = FALSE
    /\ ahead = 0
    /\ emitted = Blank
    /\ now = 0
    /\ bound = 0
    /\ found = [u \in UserVisible |-> -1]
    /\ stamp = -1
    /\ success = -1
    /\ results = NoResults
    /\ lastStep \in LastSteps
    /\ running = FALSE
    /\ force = FALSE
    /\ proxy = Blank
    /\ calls = <<>>
    /\ inbox = <<>>
    /\ idle = FALSE
    /\ previous = "NONE"
    /\ polled = FALSE
    /\ known = NoResults
    /\ failed = FALSE
    /\ quit = ""

Environment == OtherClient \/ DaemonStarts \/ DaemonStops \/ Tick \/ Killed
Daemon == HandleCall \/ Finish \/ Emit
Program == initial_poll_idle_func \/ Dispatch \/ Exit

Next == Environment \/ Daemon \/ FirstRun \/ main \/ Program

Spec == Init /\ [][Next]_vars

(* Both main loops dispatch what is ready, and an operation ends, which is       *)
(* assumed here: the daemon promises it only of some (EosUpdater, Fairness), and *)
(* the program, which calls without a time limit, waits as long as it takes.    *)
FairSpec == Spec /\ WF_vars(HandleCall) /\ WF_vars(Finish) /\ WF_vars(Emit) /\ WF_vars(Program)

-----------------------------------------------------------------------------
(* Properties.                                                             *)

Properties == [state : States, update : Updates \cup {""}]
Results == [since : -1..MaxTime, update : Updates \cup {""}]

(* Every variable holds what its declaration in the code allows.            *)
TypeOK ==
    /\ state \in States /\ update \in Updates \cup {""} /\ ops \subseteq {"poll", "fetch", "apply"}
    /\ {emitted, proxy} \subseteq Properties
    /\ now \in 0..MaxTime
    /\ bound \in 0..MaxDisturbances
    /\ found \in [UserVisible -> -1..MaxTime]
    /\ stamp \in -1..MaxTime + RandomizedDelay
    /\ success \in -1..MaxTime
    /\ {results, known} \subseteq Results
    /\ lastStep \in 0..3
    /\ calls \in Seq([step : 1..3, waiting : BOOLEAN])
    /\ inbox \in Seq([kind : {"changed", "lost", "refused"}, props : Properties])
    /\ ahead \in 0..Len(calls)
    /\ previous \in States
    /\ quit \in States \cup {""}
    /\ {up, cancel, pending, running, force, idle, polled, failed} \subseteq BOOLEAN

(* When the program is about to decide on an update, the poll results it       *)
(* decides by are there (the assertion in do_update_step) and are those of     *)
(* that update, whoever polled for it and however the notifications were       *)
(* coalesced.                                                               *)
ResultsAreOfUpdate ==
    running /\ known # NoResults
    /\ previous \in {"UPDATE_AVAILABLE", "FETCHING", "UPDATE_READY", "APPLYING_UPDATE"}
    => known.update = proxy.update

(* An update that is user visible is not applied, unforced, before the delay   *)
(* has passed since a poll first found it, over restarts of both processes.     *)
ApplyCalled == Len(calls') > Len(calls) /\ Last(calls').step = 3
DelayRespected ==
    [][ApplyCalled /\ ~force /\ proxy'.update \in UserVisible =>
          /\ known' # NoResults
          /\ now >= found[proxy'.update] + UserVisibleDelay]_vars

(* The stamp is written when the run has come as far as it is configured to    *)
(* take it: there is no update, or it is applied, or it is held back, or the    *)
(* last automatic step is done.  The next run is then due when the interval has *)
(* passed, or within the randomised delay after that.                         *)
Rest == CASE lastStep = 0 -> States
          [] lastStep = 1 -> {"READY", "UPDATE_AVAILABLE", "UPDATE_READY", "UPDATE_APPLIED"}
          [] lastStep = 2 -> {"READY", "UPDATE_READY", "UPDATE_APPLIED"}
          [] lastStep = 3 -> {"READY", "UPDATE_APPLIED"}
Held == quit = "UPDATE_READY" /\ ~force /\ UserVisible # {}
StampMeansDone ==
    [][success' # success =>
          /\ quit \in Rest \/ Held
          /\ stamp' \in now..now + RandomizedDelay]_vars

(* A run ends: whatever is coalesced, and whatever the other clients do, it    *)
(* does not wait for a change that has happened, or poll for ever.            *)
RunEnds == running ~> ~running

-----------------------------------------------------------------------------
(* What the documentation says and the code does not do.                     *)

(* A run that ends well has polled, or a policy has kept it from starting      *)
(* (eos-autoupdater(8), EXIT STATUS).                                        *)
SuccessMeansPolled == [][success' # success => polled \/ lastStep = 0]_vars

(* The wait of a user visible update counts from when it was seen             *)
(* (eos-autoupdater.conf(5)): a poll that fails, or is lost with the daemon,    *)
(* does not take back that it was seen.                                     *)
DelayCountsFromSight ==
    [][results' # results /\ results.update # "" => proxy'.state \notin {"ERROR", "NONE"}]_vars
=============================================================================
