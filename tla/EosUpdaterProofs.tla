--------------------------- MODULE EosUpdaterProofs ---------------------------
(***************************************************************************)
(* Proofs about EosUpdater, for any sets of commits, threads and            *)
(* cancellables.  The steps of the daemon fall in four groups - a handler   *)
(* starts a task, a worker takes a step, a callback ends a task, the        *)
(* process starts or ends - and a lemma shows for each group that IInv is   *)
(* preserved; the proof about Next shows which group each action is in.     *)
(***************************************************************************)
EXTENDS EosUpdater, SequenceTheorems, TLAPS

(* Two workers alive are one, so beside the one there is only idle ones.     *)
LEMMA OthersIdle ==
    ASSUME IInv, NEW w \in Workers, Alive(w)
    PROVE  \A v \in Workers : v # w => ~Alive(v)
  BY DEF IInv, OneWorker

(* Outside the busy states no worker is alive.                               *)
LEMMA NoneAlive ==
    ASSUME IInv, state \notin Busy
    PROVE  \A w \in Workers : ~Alive(w)
  BY DEF IInv, TypeOK, OneWorker, BusyState, Busy, GTask, Kinds, Alive

(* Nor is there one when the daemon is not running.                          *)
LEMMA NoneAliveWhenStopped ==
    ASSUME IInv, ~running
    PROVE  \A w \in Workers : ~Alive(w)
  BY DEF IInv, OneWorker

LEMMA IdleType == Idle \in GTask /\ Idle.kind = "idle"
  BY DEF Idle, NewTask, GTask, Kinds, Phases, Errors, EosUpdateInfo, NoInfo

LEMMA NoDataType == NoData \in Data /\ NoData.results = NULL
                    /\ NoData.offline_results_only = FALSE
  BY DEF NoData, Data

LEMMA NoHistoryType == NoHistory \in History /\ NoHistory.cancel = FALSE
  BY DEF NoHistory, History

(* The signals of a step are one or two states.                             *)
LEMMA SignalSeq ==
    ASSUME NEW S, NEW x \in S, NEW y \in S
    PROVE  <<>> \in Seq(S) /\ <<x>> \in Seq(S) /\ <<x, y>> \in Seq(S)
  OBVIOUS

LEMMA InitIInv == Init => IInv
<1> SUFFICES ASSUME Init PROVE IInv
  OBVIOUS
<1> USE DEF Init
<1>1. \A w \in Workers : ~Alive(w)
  BY IdleType DEF Alive
<1>2. TypeOK
  <2>1. signals \in Seq(States)
    BY EmptySeq
  <2>2. task \in [Workers -> GTask]
    BY IdleType
  <2>3. pulled \in SUBSET Commits
    OBVIOUS
  <2>4. deployed \in Commits \cup {NULL}
    OBVIOUS
  <2> QED
    BY <2>1, <2>2, <2>3, <2>4, NoDataType, NoHistoryType DEF TypeOK, States, Errors
<1>3. OneWorker
  BY <1>1 DEF OneWorker, Busy
<1>4. ReadyIsPulled /\ DeployedIsPulled /\ StoppedIsBlank
  BY DEF ReadyIsPulled, DeployedIsPulled, StoppedIsBlank
<1>5. ResultsDescribeUpdate
  BY NoDataType DEF ResultsDescribeUpdate
<1>6. TaskConsistent /\ CancelConsistent
  BY <1>1 DEF TaskConsistent, CancelConsistent
<1> QED
  BY <1>2, <1>3, <1>4, <1>5, <1>6 DEF IInv

-----------------------------------------------------------------------------
(* A handler: in a state that is not busy, @w is given a task of @kind for    *)
(* the update @u, and the state becomes @busy.                               *)
StartsTask(w, kind, u, force, timeout, busy) ==
    /\ running
    /\ state \notin Busy
    /\ eos_updater_clear_error(busy)
    /\ eos_updater_data_reset_cancellable(cancelled)
    /\ StartTask(w, NewTask(kind, cancellable', u, force, timeout))
    /\ UNCHANGED <<running, liveBoot, updateId, data, disk>>

LEMMA BusyStateIs ==
    /\ BusyState("poll") = "POLLING" /\ BusyState("poll_volume") = "POLLING"
    /\ BusyState("fetch") = "FETCHING"
    /\ BusyState("apply") = "APPLYING_UPDATE"
  BY DEF BusyState

LEMMA ResetIsNoop ==
    ASSUME IInv, running, eos_updater_data_reset_cancellable(cancelled)
    PROVE  cancellable' = cancellable /\ cancelled' = cancelled
           /\ cancellable \in Cancellables
  BY DEF IInv, CancelConsistent, eos_updater_data_reset_cancellable

LEMMA StartPreserves ==
    ASSUME IInv, NEW w \in Workers, NEW kind \in Kinds \ {"idle"},
           NEW u \in Commits \cup {NULL}, NEW f \in BOOLEAN, NEW to \in BOOLEAN,
           StartsTask(w, kind, u, f, to, BusyState(kind)),
           kind \in {"fetch", "apply"} => u = updateId,
           kind = "apply" => updateId \in pulled
    PROVE  IInv'
<1> DEFINE t == NewTask(kind, cancellable', u, f, to)
           busy == BusyState(kind)
<1> USE DEF StartsTask
<1>1. /\ cancellable' = cancellable
      /\ cancelled' = cancelled
      /\ cancellable \in Cancellables
  BY ResetIsNoop
<1>2. /\ t \in GTask /\ t.kind = kind /\ t.phase = "run" /\ t.error = ""
      /\ t.cancellable = cancellable /\ t.update = u
  BY <1>1 DEF NewTask, GTask, Phases, Errors, EosUpdateInfo, NoInfo
<1>3. state' = busy /\ error' = "" /\ signals' = <<busy>>
  BY DEF eos_updater_clear_error
<1>4. /\ busy \in States
      /\ busy \in Busy
      /\ busy = "APPLYING_UPDATE" <=> kind = "apply"
      /\ busy \notin {"UPDATE_READY", "UPDATE_APPLIED"}
  BY BusyStateIs DEF States, Busy, Kinds
<1>5. /\ task' = [task EXCEPT ![w] = t]
      /\ task \in [Workers -> GTask]
      /\ history' = NoHistory
  BY DEF StartTask, IInv, TypeOK
<1> HIDE DEF t, busy
<1>6. task' \in [Workers -> GTask] /\ task'[w] = t
  BY <1>2, <1>5
<1>7. \A v \in Workers : (Alive(v))' <=> v = w
  BY <1>2, <1>5, NoneAlive DEF Alive
<1>8. TypeOK'
  <2>1. signals' \in Seq(States)
    BY <1>3, <1>4, SignalSeq
  <2> QED
    BY <1>1, <1>3, <1>4, <1>5, <1>6, <2>1, NoHistoryType DEF TypeOK, IInv, disk, Errors
<1>9. OneWorker'
  BY <1>2, <1>3, <1>6, <1>7 DEF OneWorker, busy
<1>10. ReadyIsPulled'
  BY <1>3, <1>4 DEF ReadyIsPulled, disk
<1>11. ResultsDescribeUpdate'
  BY DEF IInv, ResultsDescribeUpdate
<1>12. DeployedIsPulled'
  BY <1>3, <1>4 DEF IInv, DeployedIsPulled, disk
<1>13. TaskConsistent'
  BY <1>2, <1>6, <1>7 DEF TaskConsistent
<1>14. CancelConsistent'
  BY <1>1, <1>2, <1>5, <1>6, <1>7, NoHistoryType DEF IInv, CancelConsistent
<1>15. StoppedIsBlank'
  BY DEF StoppedIsBlank
<1> QED
  BY <1>8, <1>9, <1>10, <1>11, <1>12, <1>13, <1>14, <1>15 DEF IInv

-----------------------------------------------------------------------------
(* A step of a worker: its task becomes @t, which is the same operation on   *)
(* the same update with the same cancellable; only the disk changes beside.  *)
(* What it removes from the repository is neither booted nor deployed.       *)
StepsTask(w, t) ==
    /\ running
    /\ Alive(w)
    /\ task' = [task EXCEPT ![w] = t]
    /\ t.kind = task[w].kind
    /\ t.cancellable = task[w].cancellable
    /\ t.update = task[w].update
    /\ t.error = "Cancelled" => history.cancel \/ t.scheduled
    /\ pulled' \subseteq Commits
    /\ \/ pulled \subseteq pulled'
       \/ t.kind = "apply" /\ deployed' = t.update /\ {booted, deployed'} \subseteq pulled'
    /\ t.kind = "fetch" /\ t.phase = "returned" /\ t.error = ""
           => t.update \in pulled'
    /\ \/ deployed' = deployed
       \/ t.kind = "apply" /\ deployed' = t.update /\ deployed' \in pulled
    /\ t.kind = "apply" /\ (t.phase = "refs" \/ (t.phase = "returned" /\ t.error = ""))
           => deployed' = t.update
    /\ history' \in History
    /\ history'.cancel = history.cancel
    /\ WorkerOnly

LEMMA StepPreserves ==
    ASSUME IInv, NEW w \in Workers, NEW t \in GTask, StepsTask(w, t)
    PROVE  IInv'
<1> USE DEF StepsTask, WorkerOnly
<1>1. /\ \A v \in Workers : v # w => task'[v] = task[v]
      /\ task'[w] = t
      /\ task \in [Workers -> GTask]
      /\ task' \in [Workers -> GTask]
  BY DEF IInv, TypeOK
<1>2. \A v \in Workers : (Alive(v))' <=> v = w
  BY <1>1, OthersIdle DEF Alive
<1>3. \A v \in Workers : Alive(v) <=> v = w
  BY OthersIdle
<1>4. state = BusyState(t.kind) /\ state' = state /\ state \in Busy
  <2>1. state = BusyState(t.kind) /\ state' = state
    BY DEF IInv, OneWorker
  <2>2. t.kind \in {"poll", "poll_volume", "fetch", "apply"}
    BY DEF Alive, GTask, Kinds
  <2> QED
    BY <2>1, <2>2, BusyStateIs DEF Busy
<1>5. TypeOK'
  <2>1. deployed' \in Commits \cup {NULL}
    BY <1>1 DEF IInv, TypeOK, GTask
  <2> QED
    BY <1>1, <2>1, SignalSeq, EmptySeq DEF IInv, TypeOK
<1>6. OneWorker'
  BY <1>1, <1>2, <1>4 DEF OneWorker, BusyState
<1>7. ReadyIsPulled'
  <2>1. updateId' = updateId /\ (t.kind = "apply" => t.update = updateId)
    BY DEF IInv, TaskConsistent
  <2>2. CASE pulled \subseteq pulled'
    BY <1>4, <2>1, <2>2 DEF IInv, ReadyIsPulled
  <2>3. CASE t.kind = "apply" /\ deployed' = t.update /\ {booted, deployed'} \subseteq pulled'
    BY <2>1, <2>3 DEF ReadyIsPulled
  <2> QED
    BY <2>2, <2>3
<1>8. ResultsDescribeUpdate'
  BY DEF IInv, ResultsDescribeUpdate
<1>9. DeployedIsPulled'
  <2>1. booted' = booted /\ state' # "UPDATE_APPLIED"
    BY <1>4 DEF Busy
  <2>2. CASE pulled \subseteq pulled'
    BY <2>1, <2>2 DEF IInv, DeployedIsPulled
  <2>3. CASE t.kind = "apply" /\ deployed' = t.update /\ {booted, deployed'} \subseteq pulled'
    BY <2>1, <2>3 DEF DeployedIsPulled
  <2> QED
    BY <2>2, <2>3
<1>10. TaskConsistent'
  BY <1>1, <1>2, <1>3 DEF IInv, TaskConsistent
<1>11. CancelConsistent'
  BY <1>1, <1>2, <1>3 DEF IInv, CancelConsistent, TaskCancelled
<1>12. StoppedIsBlank'
  BY DEF StoppedIsBlank
<1> QED
  BY <1>5, <1>6, <1>7, <1>8, <1>9, <1>10, <1>11, <1>12 DEF IInv

-----------------------------------------------------------------------------
(* A callback: the task of @w is over, and the state with it.                *)
EndsTask(w) ==
    /\ running
    /\ Alive(w)
    /\ TaskOver(w)
    /\ state' \in States \ Busy
    /\ error' \in Errors
    /\ signals' \in Seq(States)
    /\ updateId' \in Commits \cup {NULL}
    /\ data' \in Data
    /\ UNCHANGED <<running, liveBoot, cancellable, cancelled, disk, history>>

LEMMA EndPreserves ==
    ASSUME IInv, NEW w \in Workers, EndsTask(w), ResultsDescribeUpdate',
           state' \in {"UPDATE_READY", "UPDATE_APPLIED"} => updateId' \in pulled,
           state' = "UPDATE_APPLIED" => deployed = updateId'
    PROVE  IInv'
<1> USE DEF EndsTask, disk
<1>1. /\ \A v \in Workers : v # w => task'[v] = task[v]
      /\ task'[w] = Idle
      /\ task' \in [Workers -> GTask]
  BY IdleType DEF IInv, TypeOK, TaskOver
<1>2. \A v \in Workers : ~(Alive(v))'
  BY <1>1, OthersIdle, IdleType DEF Alive
<1>3. TypeOK'
  BY <1>1 DEF IInv, TypeOK
<1>4. OneWorker'
  BY <1>2 DEF OneWorker
<1>5. ReadyIsPulled'
  BY DEF ReadyIsPulled, Busy
<1>6. DeployedIsPulled'
  BY DEF IInv, DeployedIsPulled
<1>7. TaskConsistent' /\ CancelConsistent'
  BY <1>2 DEF IInv, TaskConsistent, CancelConsistent
<1>8. StoppedIsBlank'
  BY DEF StoppedIsBlank
<1> QED
  BY <1>3, <1>4, <1>5, <1>6, <1>7, <1>8 DEF IInv

-----------------------------------------------------------------------------
(* The process ends, with or without a reboot.                               *)
LEMMA ProcessEndsPreserves ==
    ASSUME IInv, ProcessEnds, pulled' \subseteq Commits,
           booted' \in {booted, deployed}, deployed' \in {deployed, booted'},
           {booted', deployed'} \ {NULL} \subseteq pulled'
    PROVE  IInv'
<1> USE DEF ProcessEnds
<1>1. \A v \in Workers : ~(Alive(v))'
  BY IdleType DEF Alive
<1>2. TypeOK'
  <2>1. task' \in [Workers -> GTask]
    BY IdleType
  <2>2. signals' \in Seq(States)
    BY EmptySeq
  <2> QED
    BY <2>1, <2>2, NoDataType, NoHistoryType DEF IInv, TypeOK, States, Errors
<1>3. OneWorker'
  BY <1>1 DEF OneWorker, Busy
<1>4. ReadyIsPulled' /\ StoppedIsBlank'
  BY DEF ReadyIsPulled, StoppedIsBlank
<1>5. ResultsDescribeUpdate'
  BY NoDataType DEF ResultsDescribeUpdate
<1>6. DeployedIsPulled'
  BY DEF IInv, DeployedIsPulled
<1>7. TaskConsistent' /\ CancelConsistent'
  BY <1>1 DEF TaskConsistent, CancelConsistent
<1> QED
  BY <1>2, <1>3, <1>4, <1>5, <1>6, <1>7 DEF IInv

-----------------------------------------------------------------------------
(* The handlers start a task.                                                *)
LEMMA CallsPreserve ==
    ASSUME IInv, NEW w \in Workers, Calls(w)
    PROVE  IInv'
<1>1. updateId \in Commits \cup {NULL}
  BY DEF IInv, TypeOK
<1>2. CASE handle_poll(w)
  <2>1. StartsTask(w, "poll", NULL, FALSE, FALSE, "POLLING")
    BY <1>2 DEF handle_poll, StartsTask, Serving, PollStates, Busy
  <2> QED
    BY <2>1, BusyStateIs, StartPreserves DEF Kinds
<1>3. CASE handle_poll_volume(w)
  <2>1. StartsTask(w, "poll_volume", NULL, FALSE, FALSE, "POLLING")
    BY <1>3 DEF handle_poll_volume, StartsTask, Serving, PollStates, Busy
  <2> QED
    BY <2>1, BusyStateIs, StartPreserves DEF Kinds
<1>4. ASSUME NEW f \in BOOLEAN, NEW t \in BOOLEAN, handle_fetch_full(w, f, t)
      PROVE  IInv'
  <2>1. StartsTask(w, "fetch", updateId, f, t, "FETCHING")
    BY <1>4 DEF handle_fetch_full, StartsTask, Serving, Busy
  <2> QED
    BY <1>1, <2>1, BusyStateIs, StartPreserves DEF Kinds
<1>5. CASE handle_fetch(w)
  BY <1>4, <1>5 DEF handle_fetch
<1>6. CASE handle_apply(w)
  <2>1. StartsTask(w, "apply", updateId, FALSE, FALSE, "APPLYING_UPDATE")
    BY <1>6 DEF handle_apply, StartsTask, Serving, Busy
  <2>2. updateId \in pulled
    BY <1>6 DEF handle_apply, IInv, ReadyIsPulled
  <2> QED
    BY <1>1, <2>1, <2>2, BusyStateIs, StartPreserves DEF Kinds
<1> QED
  BY <1>2, <1>3, <1>4, <1>5, <1>6 DEF Calls

-----------------------------------------------------------------------------
(* Cancel: the worker's cancellable is triggered and the next task's is not. *)
LEMMA CancelPreserves ==
    ASSUME IInv, handle_cancel
    PROVE  IInv'
<1> USE DEF handle_cancel, Serving, disk
<1>1. /\ cancellable \in Cancellables
      /\ cancellable' \in Cancellables
      /\ cancelled' = (cancelled \cup {cancellable}) \ {cancellable'}
      /\ \A w \in Workers : Alive(w) => task[w].cancellable # cancellable'
  BY DEF eos_updater_data_reset_cancellable, FreeCancellables, IInv, CancelConsistent
<1>2. \A w \in Workers : (Alive(w))' <=> Alive(w)
  BY DEF Alive
<1>3. history' \in History /\ history'.cancel = TRUE
  BY DEF IInv, TypeOK, History
<1>4. TypeOK'
  BY <1>1, <1>3, EmptySeq DEF IInv, TypeOK
<1>5. OneWorker'
  BY <1>2 DEF IInv, OneWorker
<1>6. ReadyIsPulled' /\ ResultsDescribeUpdate' /\ DeployedIsPulled' /\ StoppedIsBlank'
  BY DEF IInv, ReadyIsPulled, ResultsDescribeUpdate, DeployedIsPulled, StoppedIsBlank
<1>7. TaskConsistent'
  BY <1>2, <1>3 DEF IInv, TaskConsistent
<1>8. CancelConsistent'
  BY <1>1, <1>2, <1>3 DEF IInv, CancelConsistent, TaskCancelled
<1> QED
  BY <1>4, <1>5, <1>6, <1>7, <1>8 DEF IInv

-----------------------------------------------------------------------------
(* The process starts.                                                       *)
LEMMA MainPreserves ==
    ASSUME IInv, main
    PROVE  IInv'
<1> USE DEF main, disk
<1>1. \A w \in Workers : ~(Alive(w))'
  BY NoneAliveWhenStopped DEF Alive
<1>2. state' \in {"READY", "ERROR"} /\ error' \in Errors
  BY DEF Errors
<1>3. TypeOK'
  BY <1>2, EmptySeq, NoDataType DEF IInv, TypeOK, States
<1>4. OneWorker'
  BY <1>1, <1>2 DEF OneWorker, Busy
<1>5. ReadyIsPulled' /\ StoppedIsBlank'
  BY <1>2 DEF ReadyIsPulled, StoppedIsBlank
<1>6. ResultsDescribeUpdate'
  BY NoDataType DEF ResultsDescribeUpdate
<1>7. DeployedIsPulled'
  BY <1>2 DEF IInv, DeployedIsPulled
<1>8. TaskConsistent' /\ CancelConsistent'
  BY <1>1 DEF TaskConsistent, CancelConsistent
<1> QED
  BY <1>3, <1>4, <1>5, <1>6, <1>7, <1>8 DEF IInv

-----------------------------------------------------------------------------
(* The steps of the worker threads.                                          *)

(* @t is the task of @w a little further on.                                 *)
Advances(w, t, p, e, sched) ==
    /\ t \in GTask
    /\ task' = [task EXCEPT ![w] = t]
    /\ t.kind = task[w].kind
    /\ t.cancellable = task[w].cancellable
    /\ t.update = task[w].update
    /\ t.phase = p
    /\ t.error = e
    /\ t.scheduled = sched

LEMMA GoToAdvances ==
    ASSUME IInv, NEW w \in Workers, NEW p \in Phases, GoTo(w, p)
    PROVE  \E t : Advances(w, t, p, task[w].error, task[w].scheduled)
<1> DEFINE t == [task[w] EXCEPT !.phase = p]
<1>1. Advances(w, t, p, task[w].error, task[w].scheduled)
  BY DEF IInv, TypeOK, GTask, GoTo, Advances
<1> QED
  BY <1>1

LEMMA ErrorAdvances ==
    ASSUME IInv, NEW w \in Workers, NEW e \in Errors, ReturnError(w, e)
    PROVE  \E t : Advances(w, t, "returned", e, task[w].scheduled)
<1> DEFINE t == [task[w] EXCEPT !.phase = "returned", !.error = e]
<1>1. Advances(w, t, "returned", e, task[w].scheduled)
  BY DEF IInv, TypeOK, GTask, ReturnError, Advances, Phases
<1> QED
  BY <1>1

LEMMA InfoAdvances ==
    ASSUME IInv, NEW w \in Workers, NEW i \in EosUpdateInfo, ReturnInfo(w, i)
    PROVE  \E t : Advances(w, t, "returned", task[w].error, task[w].scheduled)
<1> DEFINE t == [task[w] EXCEPT !.phase = "returned", !.info = i]
<1>1. Advances(w, t, "returned", task[w].error, task[w].scheduled)
  BY DEF IInv, TypeOK, GTask, ReturnInfo, Advances, Phases
<1> QED
  BY <1>1

(* A worker reports Cancelled only if a Cancel has been accepted.            *)
LEMMA IOErrorsType ==
    ASSUME IInv, NEW w \in Workers, running, Alive(w), NEW e \in PullErrors(w)
    PROVE  /\ e \in Errors
           /\ e # ""
           /\ e = "Cancelled" => history.cancel \/ task[w].scheduled
           /\ e \in IOErrors(w) /\ e = "Cancelled" => history.cancel
  BY DEF IInv, CancelConsistent, TaskCancelled, IOErrors, PullErrors, Errors

(* A step that only moves the task on, to a phase that asserts nothing.      *)
LEMMA QuietStep ==
    ASSUME IInv, NEW w \in Workers, running, Alive(w), WorkerOnly,
           UNCHANGED <<pulled, deployed, history>>,
           NEW t, NEW p, NEW e, NEW sched \in BOOLEAN,
           Advances(w, t, p, e, sched),
           e = "Cancelled" => history.cancel \/ sched,
           task[w].kind = "fetch" /\ p = "returned" => e # "",
           task[w].kind = "apply" /\ p = "refs" => deployed = task[w].update,
           task[w].kind = "apply" /\ p = "returned" =>
               e # "" \/ deployed = task[w].update
    PROVE  IInv'
<1> USE DEF Advances
<1>1. t \in GTask
  OBVIOUS
<1>2. StepsTask(w, t)
  <2>1. pulled' \subseteq Commits /\ history' \in History
    BY DEF IInv, TypeOK
  <2> QED
    BY <2>1 DEF StepsTask
<1> QED
  BY <1>1, <1>2, StepPreserves

(* An error returned is such a step.                                         *)
LEMMA ErrorPreserves ==
    ASSUME IInv, NEW w \in Workers, running, Alive(w), WorkerOnly,
           UNCHANGED <<pulled, deployed, history>>,
           NEW e \in Errors, e # "", ReturnError(w, e),
           e = "Cancelled" => history.cancel \/ task[w].scheduled
    PROVE  IInv'
<1>1. PICK t : Advances(w, t, "returned", e, task[w].scheduled)
  BY ErrorAdvances
<1>2. task[w].scheduled \in BOOLEAN
  BY DEF IInv, TypeOK, GTask
<1> QED
  BY <1>1, <1>2, QuietStep

LEMMA GoToPreserves ==
    ASSUME IInv, NEW w \in Workers, running, Alive(w), WorkerOnly,
           UNCHANGED <<pulled, deployed, history>>,
           NEW p \in Phases, p # "returned", GoTo(w, p), task[w].kind # "apply"
    PROVE  IInv'
<1>1. PICK t : Advances(w, t, p, task[w].error, task[w].scheduled)
  BY GoToAdvances
<1>2. /\ task[w].scheduled \in BOOLEAN
      /\ task[w].error = "Cancelled" => history.cancel \/ task[w].scheduled
  BY DEF IInv, TypeOK, GTask, TaskConsistent
<1> QED
  BY <1>1, <1>2, QuietStep

LEMMA WorkerPreserves ==
    ASSUME IInv, NEW w \in Workers, Worker(w) \/ Scheduler(w)
    PROVE  IInv'
<1> USE DEF AtPhase
<1>1. /\ running
      /\ Alive(w)
      /\ WorkerOnly
      /\ task[w] \in GTask
      /\ task[w].scheduled \in BOOLEAN
      /\ task[w].error = "Cancelled" => history.cancel \/ task[w].scheduled
  BY DEF Worker, Scheduler, metadata_fetch, check_scheduler, SchedulerWaitEnds,
     SchedulerPermits, SchedulerInvalidates, content_fetch, apply_deploy,
     apply_refs, Alive, IInv, TypeOK, GTask, TaskConsistent
<1>2. \A e \in PullErrors(w) :
         /\ e \in Errors /\ e # ""
         /\ e = "Cancelled" => history.cancel \/ task[w].scheduled
  BY <1>1, IOErrorsType
<1>3. IOErrors(w) \subseteq PullErrors(w)
  BY DEF PullErrors
<1>4. CASE metadata_fetch(w)
  <2> USE <1>4 DEF metadata_fetch
  <2>1. CASE ReturnError(w, "NotOstreeSystem")
    BY <1>1, <2>1, ErrorPreserves DEF Errors
  <2>2. CASE \E e \in IOErrors(w) : ReturnError(w, e)
    BY <1>1, <1>2, <1>3, <2>2, ErrorPreserves
  <2>3. CASE \E i \in FoundInfos(task[w].kind) \cup {NoInfo} : ReturnInfo(w, i)
    <3>1. PICK i \in EosUpdateInfo : ReturnInfo(w, i)
      BY <2>3 DEF FoundInfos, EosUpdateInfo, NoInfo, PollSources, Sources
    <3>2. PICK t : Advances(w, t, "returned", task[w].error, task[w].scheduled)
      BY <3>1, InfoAdvances
    <3> QED
      BY <1>1, <3>2, QuietStep
  <2> QED
    BY <2>1, <2>2, <2>3
<1>5. CASE check_scheduler(w)
  <2> USE <1>5 DEF check_scheduler
  <2>1. CASE GoTo(w, "pull")
    BY <1>1, <2>1, GoToPreserves DEF Phases
  <2>2. CASE GoTo(w, "waiting")
    BY <1>1, <2>2, GoToPreserves DEF Phases
  <2>3. CASE \E e \in IOErrors(w) : ReturnError(w, e)
    BY <1>1, <1>2, <1>3, <2>3, ErrorPreserves
  <2> QED
    BY <2>1, <2>2, <2>3
<1>6. CASE SchedulerWaitEnds(w)
  <2> USE <1>6 DEF SchedulerWaitEnds
  <2>1. CASE ReturnError(w, "MeteredConnection")
    BY <1>1, <2>1, ErrorPreserves DEF Errors
  <2>2. CASE TaskCancelled(w) /\ ReturnError(w, "Cancelled")
    <3>1. "Cancelled" \in PullErrors(w)
      BY <2>2 DEF PullErrors, IOErrors
    <3> QED
      BY <1>1, <1>2, <2>2, <3>1, ErrorPreserves
  <2> QED
    BY <2>1, <2>2
<1>7. CASE SchedulerPermits(w)
  <2> DEFINE t == [task[w] EXCEPT !.phase = "pull", !.scheduled = TRUE]
  <2>1. Advances(w, t, "pull", task[w].error, TRUE)
    BY <1>1, <1>7 DEF SchedulerPermits, Advances, IInv, TypeOK, GTask, Phases
  <2> QED
    BY <1>1, <1>7, <2>1, QuietStep DEF SchedulerPermits
<1>8. CASE SchedulerInvalidates(w)
  BY <1>1, <1>8, ErrorPreserves DEF SchedulerInvalidates, Errors
<1>9. CASE content_fetch(w)
  <2> USE <1>9 DEF content_fetch
  <2>1. ASSUME UNCHANGED pulled, NEW e \in PullErrors(w), ReturnError(w, e)
        PROVE  IInv'
    BY <1>1, <1>2, <2>1, ErrorPreserves
  <2>2. ASSUME NEW c \in PullTargets(w), pulled' = pulled \cup {c},
               NEW t, NEW e, Advances(w, t, "returned", e, task[w].scheduled),
               e = "Cancelled" => history.cancel \/ task[w].scheduled,
               e = "" => task[w].update \in pulled'
        PROVE  IInv'
    <3>1. pulled' \subseteq Commits /\ history \in History
      BY <1>1, <2>2 DEF PullTargets, IInv, TypeOK, Data, GTask
    <3>2. t \in GTask /\ StepsTask(w, t)
      BY <1>1, <2>2, <3>1 DEF Advances, StepsTask
    <3> QED
      BY <3>2, StepPreserves
  <2>3. ASSUME NEW c \in PullTargets(w), pulled' = pulled \cup {c},
               task[w].update \in pulled', ReturnOk(w)
        PROVE  IInv'
    <3>1. PICK t : Advances(w, t, "returned", task[w].error, task[w].scheduled)
      BY <2>3, InfoAdvances DEF ReturnOk, EosUpdateInfo
    <3> QED
      BY <1>1, <2>2, <2>3, <3>1
  <2>4. ASSUME NEW c \in PullTargets(w), pulled' = pulled \cup {c},
               NEW e \in PullErrors(w), ReturnError(w, e)
        PROVE  IInv'
    <3>1. PICK t : Advances(w, t, "returned", e, task[w].scheduled)
      BY <1>2, <2>4, ErrorAdvances
    <3> QED
      BY <1>2, <2>2, <2>4, <3>1
  <2> QED
    BY <2>1, <2>3, <2>4
<1>10. CASE apply_deploy(w)
  <2> USE <1>10 DEF apply_deploy
  <2>1. CASE \E e \in IOErrors(w) : ReturnError(w, e) /\ UNCHANGED <<deployed, history>>
    BY <1>1, <1>2, <1>3, <2>1, ErrorPreserves
  <2>2. CASE /\ task[w].update \in pulled
             /\ deployed' = task[w].update
             /\ history' = [history EXCEPT !.deployed = TRUE]
             /\ GoTo(w, "refs")
    <3>1. PICK t : Advances(w, t, "refs", task[w].error, task[w].scheduled)
      BY <2>2, GoToAdvances DEF Phases
    <3>2. /\ history' \in History /\ history'.cancel = history.cancel
          /\ pulled' \subseteq Commits
      BY <2>2 DEF IInv, TypeOK, History
    <3>3. t \in GTask /\ StepsTask(w, t)
      BY <1>1, <2>2, <3>1, <3>2 DEF Advances, StepsTask
    <3> QED
      BY <3>3, StepPreserves
  <2> QED
    BY <2>1, <2>2
<1>11. CASE apply_refs(w)
  <2> USE <1>11 DEF apply_refs
  <2>1. CASE (\E e \in IOErrors(w) : ReturnError(w, e)) /\ UNCHANGED pulled
    BY <1>1, <1>2, <1>3, <2>1, ErrorPreserves
  <2>2. CASE ReturnOk(w) /\ Prune({booted, deployed})
    <3>1. PICK t : Advances(w, t, "returned", task[w].error, task[w].scheduled)
      BY <2>2, InfoAdvances DEF ReturnOk, EosUpdateInfo
    <3>2. deployed = task[w].update /\ task[w].kind = "apply" /\ history \in History
          /\ (task[w].error = "Cancelled" => history.cancel \/ task[w].scheduled)
      BY <1>1 DEF IInv, TypeOK, TaskConsistent
    <3>3. pulled' \subseteq Commits /\ {booted, deployed} \subseteq pulled'
      BY <2>2 DEF Prune, IInv, TypeOK
    <3>4. t \in GTask /\ StepsTask(w, t)
      BY <1>1, <3>1, <3>2, <3>3 DEF Advances, StepsTask
    <3> QED
      BY <3>4, StepPreserves
  <2> QED
    BY <2>1, <2>2
<1> QED
  BY <1>4, <1>5, <1>6, <1>7, <1>8, <1>9, <1>10, <1>11 DEF Worker, Scheduler

-----------------------------------------------------------------------------
(* The callbacks end a task.                                                 *)
LEMMA MainLoopPreserves ==
    ASSUME IInv, NEW w \in Workers, MainLoop(w)
    PROVE  IInv'
<1> USE DEF AtPhase, Busy
<1>1. /\ running
      /\ Alive(w)
      /\ task[w] \in GTask
      /\ Propagated(w) \in Errors
  BY DEF MainLoop, metadata_fetch_finished, content_fetch_finished,
     apply_finished, Alive, IInv, TypeOK, GTask, Propagated, Errors
<1>2. Propagated(w) = "" => task[w].error = ""
  BY DEF Propagated
<1>3. CASE metadata_fetch_finished(w)
  <2> DEFINE info == IF Propagated(w) = "" THEN task[w].info ELSE NoInfo
  <2> USE <1>3 DEF metadata_fetch_finished, eos_updater_clear_error
  <2>1. CASE info # NoInfo
    <3>1. info \in [checksum : Commits, source : Sources]
      BY <1>1, <2>1 DEF GTask, EosUpdateInfo
    <3>2. updateId' = info.checksum /\ data' = DataFrom(info)
      BY <2>1
    <3>3. data' \in Data /\ updateId' \in Commits /\ ResultsDescribeUpdate'
      BY <3>1, <3>2, NullAssumption DEF DataFrom, Data, ResultsDescribeUpdate
    <3>4. state' \in {"UPDATE_AVAILABLE", "ERROR"} /\ error' \in Errors
      BY <2>1 DEF Errors
    <3>5. signals' \in Seq(States)
      BY <2>1, SignalSeq DEF States
    <3>6. EndsTask(w)
      BY <1>1, <3>3, <3>4, <3>5 DEF EndsTask, States
    <3> QED
      BY <3>3, <3>4, <3>6, EndPreserves
  <2>2. CASE info = NoInfo
    <3>1. UNCHANGED <<data, updateId>> /\ state' \in {"READY", "ERROR"} /\ error' \in Errors
      BY <1>1, <2>2 DEF Errors
    <3>2. signals' \in Seq(States)
      BY <2>2, SignalSeq DEF States
    <3>3. EndsTask(w)
      BY <1>1, <3>1, <3>2 DEF EndsTask, States, IInv, TypeOK
    <3>4. ResultsDescribeUpdate'
      BY <3>1 DEF IInv, ResultsDescribeUpdate
    <3> QED
      BY <3>1, <3>3, <3>4, EndPreserves
  <2> QED
    BY <2>1, <2>2
<1>4. CASE content_fetch_finished(w)
  <2> USE <1>4 DEF content_fetch_finished, eos_updater_clear_error, eos_updater_set_error
  <2>1. EndsTask(w)
    BY <1>1, SignalSeq DEF EndsTask, States, Errors, IInv, TypeOK
  <2>2. ResultsDescribeUpdate'
    BY DEF IInv, ResultsDescribeUpdate
  <2>3. state' \in {"UPDATE_READY", "UPDATE_APPLIED"} => updateId' \in pulled
    BY <1>1, <1>2 DEF IInv, TaskConsistent
  <2>4. state' # "UPDATE_APPLIED"
    OBVIOUS
  <2> QED
    BY <2>1, <2>2, <2>3, <2>4, EndPreserves
<1>5. CASE apply_finished(w)
  <2> USE <1>5 DEF apply_finished, eos_updater_clear_error, eos_updater_set_error
  <2>1. EndsTask(w)
    BY <1>1, SignalSeq DEF EndsTask, States, Errors, IInv, TypeOK
  <2>2. ResultsDescribeUpdate'
    BY DEF IInv, ResultsDescribeUpdate
  <2>3. state = "APPLYING_UPDATE"
    BY <1>1, BusyStateIs DEF IInv, OneWorker
  <2>4. state' = "UPDATE_APPLIED" => deployed = updateId'
    <3>1. task[w].update = updateId /\ (task[w].error = "" => deployed = task[w].update)
      BY <1>1 DEF IInv, TaskConsistent
    <3>2. state' = "UPDATE_APPLIED" => Propagated(w) = ""
      OBVIOUS
    <3> QED
      BY <1>2, <3>1, <3>2
  <2> QED
    BY <1>1, <2>1, <2>2, <2>3, <2>4, EndPreserves DEF IInv, ReadyIsPulled
<1> QED
  BY <1>3, <1>4, <1>5 DEF MainLoop

-----------------------------------------------------------------------------
(* IInv is inductive.                                                        *)
LEMMA NextPreservesIInv == IInv /\ [Next]_vars => IInv'
<1> SUFFICES ASSUME IInv, [Next]_vars
             PROVE  IInv'
  OBVIOUS
<1>1. ASSUME NEW w \in Workers, Calls(w) \/ MainLoop(w) \/ Worker(w) \/ Scheduler(w)
      PROVE  IInv'
  BY <1>1, CallsPreserve, MainLoopPreserves, WorkerPreserves
<1>2. CASE handle_cancel
  BY <1>2, CancelPreserves
<1>3. CASE main
  BY <1>3, MainPreserves
<1>4. CASE on_name_lost
  BY <1>4, ProcessEndsPreserves DEF on_name_lost, disk, IInv, TypeOK, DeployedIsPulled
<1>5. CASE check_and_quit
  BY <1>5, ProcessEndsPreserves DEF check_and_quit, disk, IInv, TypeOK, DeployedIsPulled
<1>6. CASE Reboot
  BY <1>6, ProcessEndsPreserves DEF Reboot, Prune, IInv, TypeOK
<1>7. CASE UNCHANGED vars
  <2> USE <1>7 DEF vars
  <2>1. TypeOK'
    BY DEF IInv, TypeOK
  <2>2. OneWorker'
    BY DEF IInv, OneWorker, Alive
  <2>3. ReadyIsPulled' /\ ResultsDescribeUpdate' /\ DeployedIsPulled'
    BY DEF IInv, ReadyIsPulled, ResultsDescribeUpdate, DeployedIsPulled
  <2>4. TaskConsistent'
    BY DEF IInv, TaskConsistent, Alive
  <2>5. CancelConsistent' /\ StoppedIsBlank'
    BY DEF IInv, CancelConsistent, StoppedIsBlank, Alive, TaskCancelled
  <2> QED
    BY <2>1, <2>2, <2>3, <2>4, <2>5 DEF IInv
<1> QED
  BY <1>1, <1>2, <1>3, <1>4, <1>5, <1>6, <1>7 DEF Next

(* Every reachable state satisfies the inductive invariant.                  *)
THEOREM Invariance == Spec => []IInv
  BY InitIInv, NextPreservesIInv, PTL DEF Spec

(* The variables hold what the code declares them to hold.                   *)
THEOREM TypeCorrect == Spec => []TypeOK
<1>1. IInv => TypeOK
  BY DEF IInv
<1> QED
  BY <1>1, Invariance, PTL

(* There is never more than one worker alive, and the state says which       *)
(* operation it carries out: the comment of object.c, for any task pool.     *)
THEOREM MutualExclusion == Spec => []OneWorker
<1>1. IInv => OneWorker
  BY DEF IInv
<1> QED
  BY <1>1, Invariance, PTL

(* An update announced as ready, being applied or applied is complete in the *)
(* repository.                                                               *)
THEOREM ReadyUpdateComplete == Spec => []ReadyIsPulled
<1>1. IInv => ReadyIsPulled
  BY DEF IInv
<1> QED
  BY <1>1, Invariance, PTL

(* The results a fetch pulls from are those of the update announced.         *)
THEOREM ResultsOfUpdate == Spec => []ResultsDescribeUpdate
<1>1. IInv => ResultsDescribeUpdate
  BY DEF IInv
<1> QED
  BY <1>1, Invariance, PTL

(* No boot runs an incomplete commit.                                        *)
THEOREM BootIsComplete == Spec => []DeployedIsPulled
<1>1. IInv => DeployedIsPulled
  BY DEF IInv
<1> QED
  BY <1>1, Invariance, PTL

-----------------------------------------------------------------------------
(* Action properties.  Which of the groups a step is in decides what it may  *)
(* change.                                                                   *)
LEMMA CallsFrame ==
    ASSUME NEW w \in Workers, Calls(w)
    PROVE  state \notin Busy /\ error' = "" /\ UNCHANGED <<data, updateId, deployed>>
  BY DEF Calls, handle_poll, handle_poll_volume, handle_fetch, handle_fetch_full,
     handle_apply, eos_updater_clear_error, PollStates, Busy, disk

LEMMA WorkerFrame ==
    ASSUME NEW w \in Workers, Worker(w) \/ Scheduler(w)
    PROVE  UNCHANGED <<state, error, data, updateId>>
  BY DEF Worker, Scheduler, metadata_fetch, check_scheduler, SchedulerWaitEnds,
     SchedulerPermits, SchedulerInvalidates, content_fetch, apply_deploy,
     apply_refs, WorkerOnly

LEMMA MainLoopFrame ==
    ASSUME NEW w \in Workers, MainLoop(w)
    PROVE  /\ running /\ Alive(w) /\ TaskOver(w)
           /\ deployed' = deployed
           /\ Propagated(w) = "Cancelled" <=> error' = "Cancelled"
           /\ error' = "Cancelled" => state' = "ERROR"
           /\ task[w].kind \in {"fetch", "apply"} => UNCHANGED <<data, updateId>>
<1> USE DEF AtPhase, Alive, disk, eos_updater_clear_error, eos_updater_set_error
<1>1. CASE metadata_fetch_finished(w)
  BY <1>1 DEF metadata_fetch_finished
<1>2. CASE content_fetch_finished(w)
  BY <1>2 DEF content_fetch_finished
<1>3. CASE apply_finished(w)
  BY <1>3 DEF apply_finished
<1> QED
  BY <1>1, <1>2, <1>3 DEF MainLoop

(* An accepted Cancel is never lost: whenever an operation is over, the       *)
(* callback finds the cancellable of the operation triggered.                *)
THEOREM CancelIsHonoured == Spec => CancelHonoured
<1> DEFINE Honours == running' /\ history.cancel /\ state \in Busy /\ state' \notin Busy =>
                          state' = "ERROR" /\ error' = "Cancelled"
<1>1. IInv /\ [Next]_vars => [Honours]_vars
  <2> SUFFICES ASSUME IInv, Next, running', history.cancel, state \in Busy,
                      state' \notin Busy
               PROVE  state' = "ERROR" /\ error' = "Cancelled"
    BY DEF vars
  <2>1. ASSUME NEW w \in Workers, MainLoop(w)
        PROVE  state' = "ERROR" /\ error' = "Cancelled"
    BY <2>1, MainLoopFrame DEF IInv, CancelConsistent, Propagated
  <2>2. \A w \in Workers : ~Calls(w) /\ ~Worker(w) /\ ~Scheduler(w)
    BY CallsFrame, WorkerFrame
  <2>3. ~handle_cancel
    BY DEF handle_cancel
  <2>4. ~main
    BY DEF main, IInv, StoppedIsBlank, Busy
  <2>5. ~on_name_lost /\ ~check_and_quit /\ ~Reboot
    BY DEF on_name_lost, check_and_quit, Reboot, ProcessEnds
  <2> QED
    BY <2>1, <2>2, <2>3, <2>4, <2>5 DEF Next
<1> QED
  BY <1>1, Invariance, PTL DEF Spec, CancelHonoured

(* No operation ends Cancelled because of a Cancel meant for another one.     *)
THEOREM NoOtherCancel == Spec => NoStaleCancel
<1> DEFINE Own == error' = "Cancelled" /\ state \in Busy /\ state' \notin Busy =>
                      history.cancel \/ (\E w \in Workers : task[w].scheduled)
<1>1. IInv /\ [Next]_vars => [Own]_vars
  <2> SUFFICES ASSUME IInv, Next, state \in Busy, state' \notin Busy, error' = "Cancelled"
               PROVE  history.cancel \/ (\E w \in Workers : task[w].scheduled)
    BY DEF vars
  <2>1. ASSUME NEW w \in Workers, MainLoop(w)
        PROVE  history.cancel \/ task[w].scheduled
    <3>1. CASE TaskCancelled(w)
      BY <2>1, <3>1, MainLoopFrame DEF IInv, CancelConsistent, TaskCancelled
    <3>2. CASE ~TaskCancelled(w)
      BY <2>1, <3>2, MainLoopFrame DEF IInv, TaskConsistent, Propagated
    <3> QED
      BY <3>1, <3>2
  <2>2. \A w \in Workers : ~Calls(w) /\ ~Worker(w) /\ ~Scheduler(w)
    BY CallsFrame, WorkerFrame
  <2>3. ~handle_cancel
    BY DEF handle_cancel
  <2>4. ~main /\ ~on_name_lost /\ ~check_and_quit /\ ~Reboot
    BY DEF main, IInv, StoppedIsBlank, Busy, on_name_lost, check_and_quit, Reboot,
       ProcessEnds
  <2> QED
    BY <2>1, <2>2, <2>3, <2>4 DEF Next
<1> QED
  BY <1>1, Invariance, PTL DEF Spec, NoStaleCancel

(* The main thread leaves alone what a fetch or an apply in progress uses.    *)
THEOREM SharedDataIsStable == Spec => SharedDataStable
<1> DEFINE Stable == (\E w \in Workers : task[w].kind \in {"fetch", "apply"} /\ task'[w] # Idle)
                         => data' = data /\ updateId' = updateId
<1>1. IInv /\ [Next]_vars => [Stable]_vars
  <2> SUFFICES ASSUME IInv, Next, NEW v \in Workers,
                      task[v].kind \in {"fetch", "apply"}, task'[v] # Idle
               PROVE  data' = data /\ updateId' = updateId
    BY DEF vars
  <2>1. ASSUME NEW w \in Workers, MainLoop(w)
        PROVE  data' = data /\ updateId' = updateId
    BY <2>1, MainLoopFrame, OthersIdle DEF TaskOver, Alive, IInv, TypeOK
  <2>2. ASSUME NEW w \in Workers, Calls(w) \/ Worker(w) \/ Scheduler(w)
        PROVE  data' = data /\ updateId' = updateId
    BY <2>2, CallsFrame, WorkerFrame
  <2>3. CASE handle_cancel
    BY <2>3 DEF handle_cancel
  <2>4. ~main
    BY NoneAliveWhenStopped DEF main, Alive
  <2>5. ~on_name_lost /\ ~check_and_quit /\ ~Reboot
    BY DEF on_name_lost, check_and_quit, Reboot, ProcessEnds
  <2> QED
    BY <2>1, <2>2, <2>3, <2>4, <2>5 DEF Next
<1> QED
  BY <1>1, Invariance, PTL DEF Spec, SharedDataStable

(* The next boot changes only to the update that was announced, in an apply,  *)
(* or back to the running system when a reboot loses a deployment.           *)
THEOREM DeploysWhatIsAdvertised == Spec => DeployOnlyAdvertised
<1> DEFINE Advertised == deployed' # deployed =>
                             \/ state = "APPLYING_UPDATE" /\ deployed' = updateId
                             \/ ~running' /\ deployed' = booted
<1>1. IInv /\ [Next]_vars => [Advertised]_vars
  <2> SUFFICES ASSUME IInv, Next, deployed' # deployed
               PROVE  \/ state = "APPLYING_UPDATE" /\ deployed' = updateId
                      \/ ~running' /\ deployed' = booted
    BY DEF vars
  <2>1. ASSUME NEW w \in Workers, apply_deploy(w)
        PROVE  state = "APPLYING_UPDATE" /\ deployed' = updateId
    <3>1. task[w].kind = "apply" /\ Alive(w) /\ deployed' = task[w].update
      BY <2>1 DEF apply_deploy, AtPhase, Alive
    <3> QED
      BY <3>1, BusyStateIs DEF IInv, OneWorker, TaskConsistent
  <2>2. ASSUME NEW w \in Workers,
               Calls(w) \/ MainLoop(w) \/ (Worker(w) /\ ~apply_deploy(w)) \/ Scheduler(w)
        PROVE  FALSE
    <3>1. ~Calls(w) /\ ~MainLoop(w)
      BY CallsFrame, MainLoopFrame
    <3> QED
      BY <2>2, <3>1 DEF Worker, Scheduler, metadata_fetch, check_scheduler,
         SchedulerWaitEnds, SchedulerPermits, SchedulerInvalidates,
         content_fetch, apply_refs
  <2>3. ~handle_cancel /\ ~main /\ ~on_name_lost /\ ~check_and_quit
    BY DEF handle_cancel, main, on_name_lost, check_and_quit, disk
  <2>4. CASE Reboot
    BY <2>4 DEF Reboot, ProcessEnds
  <2> QED
    BY <2>1, <2>2, <2>3, <2>4 DEF Next
<1> QED
  BY <1>1, Invariance, PTL DEF Spec, DeployOnlyAdvertised

-----------------------------------------------------------------------------
(* Refinement: the operations in progress, and whether they are cancelled,    *)
(* read off the tasks.                                                       *)
NoOpsAre ==
    (\A w \in Workers : ~Alive(w)) => Ops = {} /\ Cancelling = FALSE

OpIs ==
    IInv => \A w \in Workers : Alive(w) => /\ Ops = {OpName(task[w].kind)}
                                           /\ Cancelling <=> TaskCancelled(w)

LEMMA NoOps == NoOpsAre
  BY DEF NoOpsAre, Ops, Cancelling

LEMMA TheOp == OpIs
<1> SUFFICES ASSUME IInv, NEW w \in Workers, Alive(w)
             PROVE  Ops = {OpName(task[w].kind)} /\ (Cancelling <=> TaskCancelled(w))
  BY DEF OpIs
<1>1. \A v \in Workers : Alive(v) <=> v = w
  BY OthersIdle
<1>2. Ops = {OpName(task[w].kind)}
  BY <1>1 DEF Ops
<1>3. Cancelling <=> TaskCancelled(w)
  BY <1>1 DEF Cancelling
<1> QED
  BY <1>2, <1>3

LEMMA InitRefines == Init => Interface!Init
<1> SUFFICES ASSUME Init PROVE Interface!Init
  OBVIOUS
<1>1. \A w \in Workers : ~Alive(w)
  BY IdleType DEF Init, Alive
<1>2. Ops = {} /\ Cancelling = FALSE
  BY <1>1, NoOps DEF NoOpsAre
<1> QED
  BY <1>2 DEF Init, Interface!Init

(* A call begins the operation: in the state it leads to, an operation of its *)
(* kind is in progress and it is not cancelled.                              *)
LEMMA StartRefines ==
    ASSUME IInv, IInv', OpIs', NEW w \in Workers, NEW kind \in Kinds \ {"idle"},
           NEW u, NEW f, NEW to, NEW busy,
           StartsTask(w, kind, u, f, to, busy)
    PROVE  /\ Ops = {}
           /\ Cancelling = FALSE
           /\ Ops' = {OpName(kind)}
           /\ Cancelling' = FALSE
<1> USE DEF StartsTask, StartTask
<1>1. Ops = {} /\ Cancelling = FALSE
  BY NoneAlive, NoOps DEF NoOpsAre
<1>2. task'[w].kind = kind /\ (Alive(w))'
  BY DEF NewTask, Alive, IInv, TypeOK
<1>3. Ops' = {OpName(kind)} /\ (Cancelling' <=> (TaskCancelled(w))')
  BY <1>2 DEF OpIs
<1>4. (~TaskCancelled(w))'
  <2>1. ~history'.cancel
    BY NoHistoryType
  <2>2. running' /\ task'[w].cancellable = cancellable'
    BY <1>2, <2>1 DEF IInv, CancelConsistent
  <2> QED
    BY <2>2 DEF IInv, CancelConsistent, TaskCancelled
<1>5. Cancelling' = FALSE
  BY <1>3, <1>4 DEF Cancelling
<1> QED
  BY <1>1, <1>3, <1>5

LEMMA CallsRefine ==
    ASSUME IInv, IInv', OpIs', NEW w \in Workers, Calls(w)
    PROVE  Interface!Poll \/ Interface!Fetch \/ Interface!Apply
<1> USE StartRefines DEF OpName, Kinds, StartsTask, Serving, Busy,
        eos_updater_clear_error
<1>1. CASE handle_poll(w)
  <2>1. StartsTask(w, "poll", NULL, FALSE, FALSE, "POLLING")
    BY <1>1 DEF handle_poll, PollStates
  <2>2. Interface!Poll
    BY <1>1, <2>1 DEF handle_poll, PollStates, Interface!Poll, Interface!Begin
  <2> QED
    BY <2>2
<1>2. CASE handle_poll_volume(w)
  <2>1. StartsTask(w, "poll_volume", NULL, FALSE, FALSE, "POLLING")
    BY <1>2 DEF handle_poll_volume, PollStates
  <2>2. Interface!Poll
    BY <1>2, <2>1 DEF handle_poll_volume, PollStates, Interface!Poll, Interface!Begin
  <2> QED
    BY <2>2
<1>3. ASSUME NEW f \in BOOLEAN, NEW t \in BOOLEAN, handle_fetch_full(w, f, t)
      PROVE  Interface!Fetch
  <2>1. StartsTask(w, "fetch", updateId, f, t, "FETCHING")
    BY <1>3 DEF handle_fetch_full
  <2> QED
    BY <1>3, <2>1 DEF handle_fetch_full, Interface!Fetch, Interface!Begin
<1>4. CASE handle_apply(w)
  <2>1. StartsTask(w, "apply", updateId, FALSE, FALSE, "APPLYING_UPDATE")
    BY <1>4 DEF handle_apply
  <2>2. Interface!Apply
    BY <1>4, <2>1 DEF handle_apply, Interface!Apply, Interface!Begin
  <2> QED
    BY <2>2
<1> QED
  BY <1>1, <1>2, <1>3, <1>4 DEF Calls, handle_fetch

(* Cancel is Cancel, whichever operation it finds.                           *)
LEMMA CancelRefines ==
    ASSUME IInv, IInv', OpIs, OpIs', handle_cancel
    PROVE  Interface!Cancel
<1> USE DEF handle_cancel, Serving
<1>1. PICK w \in Workers : Alive(w)
  BY DEF IInv, OneWorker
<1>2. (Alive(w))'
  BY <1>1 DEF Alive
<1>3. Ops = {OpName(task[w].kind)} /\ Ops' = Ops
  BY <1>1, <1>2 DEF OpIs
<1>4. history'.cancel
  BY DEF IInv, TypeOK, History
<1>5. Cancelling' <=> (TaskCancelled(w))'
  BY <1>2 DEF OpIs
<1>6. Cancelling' = TRUE
  BY <1>2, <1>4, <1>5 DEF IInv, CancelConsistent, Cancelling
<1> QED
  BY <1>3, <1>6 DEF Interface!Cancel

(* No client can tell what a worker does.                                    *)
LEMMA WorkerRefines ==
    ASSUME IInv, NEW w \in Workers, Worker(w) \/ Scheduler(w)
    PROVE  UNCHANGED Interface!vars
<1>1. task \in [Workers -> GTask]
  BY DEF IInv, TypeOK
<1>2. PICK t : /\ task' = [task EXCEPT ![w] = t]
               /\ t.kind = task[w].kind
               /\ t.cancellable = task[w].cancellable
  <2> USE <1>1 DEF GTask, GoTo, ReturnError, ReturnInfo, ReturnOk
  <2>1. CASE metadata_fetch(w)
    BY <2>1 DEF metadata_fetch
  <2>2. CASE check_scheduler(w)
    BY <2>2 DEF check_scheduler
  <2>3. CASE SchedulerWaitEnds(w) \/ SchedulerPermits(w) \/ SchedulerInvalidates(w)
    BY <2>3 DEF SchedulerWaitEnds, SchedulerPermits, SchedulerInvalidates
  <2>4. CASE content_fetch(w)
    BY <2>4 DEF content_fetch
  <2>5. CASE apply_deploy(w) \/ apply_refs(w)
    BY <2>5 DEF apply_deploy, apply_refs
  <2> QED
    BY <2>1, <2>2, <2>3, <2>4, <2>5 DEF Worker, Scheduler
<1>3. \A v \in Workers : /\ task'[v].kind = task[v].kind
                         /\ task'[v].cancellable = task[v].cancellable
  BY <1>1, <1>2
<1>4. UNCHANGED <<running, state, error, updateId, cancelled>>
  BY DEF Worker, Scheduler, metadata_fetch, check_scheduler, SchedulerWaitEnds,
     SchedulerPermits, SchedulerInvalidates, content_fetch, apply_deploy,
     apply_refs, WorkerOnly
<1>5. Ops' = Ops
  BY <1>3 DEF Ops, Alive
<1>6. Cancelling' = Cancelling
  BY <1>3, <1>4 DEF Cancelling, Alive, TaskCancelled
<1> QED
  BY <1>4, <1>5, <1>6 DEF Interface!vars

(* The process starts and stops.                                             *)
LEMMA MainRefines ==
    ASSUME IInv, NoOpsAre', main
    PROVE  Interface!Start
<1>1. \A v \in Workers : ~(Alive(v))'
  BY NoneAliveWhenStopped DEF main, Alive
<1> QED
  BY <1>1 DEF NoOpsAre, main, Interface!Start

LEMMA EndRefines ==
    ASSUME NoOpsAre', ProcessEnds
    PROVE  Interface!Stop
<1>1. \A v \in Workers : ~(Alive(v))'
  BY IdleType DEF ProcessEnds, Alive
<1> QED
  BY <1>1 DEF NoOpsAre, ProcessEnds, Interface!Stop

(* The callbacks end the operation as the interface allows.                  *)
LEMMA MainLoopRefines ==
    ASSUME IInv, OpIs, NoOpsAre', NEW w \in Workers, MainLoop(w)
    PROVE  Interface!End
<1> USE DEF AtPhase, eos_updater_clear_error, eos_updater_set_error, Interface!EndInError
<1>1. running /\ running' = running /\ Alive(w)
  BY MainLoopFrame DEF MainLoop, metadata_fetch_finished, content_fetch_finished,
     apply_finished
<1>2. Ops = {OpName(task[w].kind)} /\ (Cancelling <=> TaskCancelled(w))
  BY <1>1 DEF OpIs
<1>3. Ops' = {} /\ Cancelling' = FALSE
  <2>1. \A v \in Workers : ~(Alive(v))'
    BY MainLoopFrame, OthersIdle, IdleType DEF Alive, TaskOver, IInv, TypeOK
  <2> QED
    BY <2>1 DEF NoOpsAre
<1>4. /\ Cancelling => Propagated(w) = "Cancelled"
      /\ Propagated(w) = "" => ~Cancelling
      /\ ~Cancelling => Propagated(w) = task[w].error
  BY <1>2 DEF Propagated
<1>5. CASE metadata_fetch_finished(w)
  <2> USE <1>5 DEF metadata_fetch_finished
  <2>1. Ops = {"poll"}
    BY <1>2 DEF OpName
  <2> DEFINE info == IF Propagated(w) = "" THEN task[w].info ELSE NoInfo
  <2>2. CASE info # NoInfo
    <3>1. updateId' \in Commits /\ ~Cancelling
      <4>1. info \in [checksum : Commits, source : Sources]
        BY <1>1, <2>2 DEF GTask, EosUpdateInfo, IInv, TypeOK
      <4> QED
        BY <1>4, <2>2, <4>1
    <3>2. Interface!EndPoll
      BY <2>1, <2>2, <3>1 DEF Interface!EndPoll
    <3> QED
      BY <1>1, <1>3, <3>2 DEF Interface!End
  <2>3. CASE info = NoInfo
    <3>1. Interface!EndPoll
      BY <1>4, <2>1, <2>3 DEF Interface!EndPoll
    <3> QED
      BY <1>1, <1>3, <3>1 DEF Interface!End
  <2> QED
    BY <2>2, <2>3
<1>6. CASE content_fetch_finished(w)
  <2>1. Interface!EndFetch
    BY <1>2, <1>4, <1>6 DEF content_fetch_finished, Interface!EndFetch, OpName
  <2> QED
    BY <1>1, <1>3, <2>1 DEF Interface!End
<1>7. CASE apply_finished(w)
  <2>1. Interface!EndApply
    BY <1>2, <1>4, <1>7 DEF apply_finished, Interface!EndApply, OpName
  <2> QED
    BY <1>1, <1>3, <2>1 DEF Interface!End
<1> QED
  BY <1>5, <1>6, <1>7 DEF MainLoop

LEMMA NextRefines ==
    ASSUME IInv, IInv', OpIs, OpIs', NoOpsAre', [Next]_vars
    PROVE  [Interface!Next]_Interface!vars
<1> USE DEF Interface!Next
<1>1. ASSUME NEW w \in Workers, Calls(w) \/ MainLoop(w)
      PROVE  Interface!Next
  BY <1>1, CallsRefine, MainLoopRefines
<1>2. ASSUME NEW w \in Workers, Worker(w) \/ Scheduler(w)
      PROVE  UNCHANGED Interface!vars
  BY <1>2, WorkerRefines
<1>3. CASE handle_cancel
  BY <1>3, CancelRefines
<1>4. CASE main
  BY <1>4, MainRefines
<1>5. CASE on_name_lost \/ check_and_quit \/ Reboot
  BY <1>5, EndRefines DEF on_name_lost, check_and_quit, Reboot
<1>6. CASE UNCHANGED vars
  BY <1>6 DEF vars, Interface!vars, Ops, Cancelling, Alive, TaskCancelled
<1> QED
  BY <1>1, <1>2, <1>3, <1>4, <1>5, <1>6 DEF Next

(* The daemon implements its D-Bus interface.                                *)
THEOREM Refinement == Spec => InterfaceSpec
<1>1. IInv /\ IInv' /\ OpIs /\ OpIs' /\ NoOpsAre' /\ [Next]_vars
          => [Interface!Next]_Interface!vars
  BY NextRefines
<1> QED
  BY <1>1, InitRefines, Invariance, TheOp, NoOps, PTL DEF Spec, InterfaceSpec,
     Interface!Spec
=============================================================================
