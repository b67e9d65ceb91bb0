-------------------------- MODULE ContentFetchProofs --------------------------
(* Proofs about ContentFetch, for any number of notifications and flatpaks:  *)
(* type correctness, that the schedule entry is given back, that no           *)
(* withdrawal of the permission is lost, and that a fetch is one of the        *)
(* daemon's worker in EosUpdater.                                            *)
EXTENDS ContentFetch, TLAPS

(* The invariant holds when the fetch begins.                              *)
LEMMA InitIInv == Init => IInv
  <1> SUFFICES ASSUME Init PROVE IInv
    OBVIOUS
  <1>0. inbox = <<>> /\ sent = 0
    BY DEF Init
  <1>1. TypeOK
    <2>1. options \in Options
      BY DEF Init
    <2>2. inbox \in Seq(Notices) /\ Len(inbox) <= MaxNotices /\ sent \in 0..MaxNotices
      BY <1>0, BoundsAssumption
    <2>3. pc \in PC /\ slot \in Slots /\ error \in FetchErrors /\ flatpaks \in 0..MaxFlatpaks
      BY DEF Init, PC, Asking, Slots, FetchErrors
    <2>4. {cancelled, entry, download_now, timed_out, invalidated_error, timer,
           permitted, entryCancelled, pulled, callFailed} \subseteq BOOLEAN
      BY DEF Init
    <2> QED
      BY <2>1, <2>2, <2>3, <2>4 DEF TypeOK
  <1>2. EntryGivenBack /\ WithdrawalNotLost /\ EntryHeld /\ WithdrawalHeard
    BY DEF Init, EntryGivenBack, WithdrawalNotLost, EntryHeld, WithdrawalHeard,
           Pulling, PullingOld, Asking, Waiting, Over
  <1>3. NoticesSent
    BY <1>0 DEF NoticesSent, Contains
  <1>4. Outcome
    BY DEF Init, Outcome, Pulling, PullingOld, Asking, Waiting, Over
  <1> QED BY <1>1, <1>2, <1>3, <1>4 DEF IInv

(* No step breaks the types.                                               *)
LEMMA TypePreserved == IInv /\ [Next]_vars => TypeOK'
  <1> SUFFICES ASSUME IInv, [Next]_vars PROVE TypeOK'
    OBVIOUS
  <1> USE BoundsAssumption DEF IInv, TypeOK, GoTo, Return, LeaveWith, scheduler, wait,
      content
  <1>1. CASE check_scheduler
    BY <1>1 DEF check_scheduler, BeginPull, PC, Asking, Pulling, PullingOld
  <1>2. CASE Connect
    BY <1>2 DEF Connect, CallErrors, PC, Asking, Over, FetchErrors
  <1>3. CASE Schedule
    <2>1. callFailed' \in BOOLEAN
      BY <1>3 DEF Schedule
    <2>2. download_now' \in BOOLEAN
      BY <1>3 DEF Schedule
    <2> QED
      BY <1>3, <2>1, <2>2 DEF Schedule, CallErrors, PC, Waiting, Over, FetchErrors, Slots
  <1>4. CASE WaitTest
    BY <1>4 DEF WaitTest, BeginPull, PC, Waiting, Pulling, PullingOld, FetchErrors
  <1>5. CASE WaitIterate
    <2>1. download_now' \in BOOLEAN
      BY <1>5 DEF WaitIterate, LastWord
    <2>2. invalidated_error' \in BOOLEAN
      BY <1>5 DEF WaitIterate
    <2>3. timed_out' \in BOOLEAN
      BY <1>5 DEF WaitIterate
    <2>4. inbox' \in Seq(Notices) /\ Len(inbox') <= MaxNotices
      BY <1>5 DEF WaitIterate
    <2> QED BY <1>5, <2>1, <2>2, <2>3, <2>4 DEF WaitIterate, PC, Waiting
  <1>6. CASE PullIterate
    <2>1. entryCancelled' \in BOOLEAN
      BY <1>6 DEF PullIterate
    <2>2. inbox' \in Seq(Notices) /\ Len(inbox') <= MaxNotices
      BY <1>6 DEF PullIterate
    <2> QED BY <1>6, <2>1, <2>2 DEF PullIterate
  <1>7. CASE unschedule_download
    BY <1>7 DEF unschedule_download, PC, Over, Slots
  <1>8. CASE content_fetch_new
    BY <1>8 DEF content_fetch_new, FallBack, PullOnly, PC, Pulling, PullingOld, Over,
                FetchErrors
  <1>9. CASE content_fetch_old
    BY <1>9 DEF content_fetch_old, PullErrors, PullOnly, PC, Pulling, PullingOld,
                FetchErrors
  <1>10. CASE prepare_flatpaks_to_deploy
    <2>0. flatpaks' = flatpaks \/ (More(flatpaks) /\ flatpaks' = flatpaks - 1)
      BY <1>10, Zenon DEF prepare_flatpaks_to_deploy
    <2>1. flatpaks' \in 0..MaxFlatpaks
      BY <2>0 DEF More
    <2>2. pc' \in PC /\ error' \in FetchErrors
      BY <1>10 DEF prepare_flatpaks_to_deploy, PullErrors, PC, FetchErrors
    <2> QED
      BY <1>10, <2>1, <2>2 DEF prepare_flatpaks_to_deploy, PullOnly
  <1>11. CASE handle_cancel
    <2>1. entryCancelled' \in BOOLEAN
      BY <1>11 DEF handle_cancel
    <2> QED BY <1>11, <2>1 DEF handle_cancel
  <1>12. CASE timeout_cb
    BY <1>12 DEF timeout_cb
  <1>13. CASE Mogwai
    <2>1. PICK from \in SUBSET Slots, to \in Slots, notice \in Notices :
            Notify(from, to, notice)
      BY <1>13 DEF Mogwai, Slots, Notices
    <2>2. inbox' \in Seq(Notices) /\ Len(inbox') <= MaxNotices
      BY <2>1 DEF Notify, NoticesSent
    <2> QED BY <2>1, <2>2 DEF Notify
  <1>14. CASE UNCHANGED vars
    BY <1>14 DEF vars
  <1> QED
    BY <1>1, <1>2, <1>3, <1>4, <1>5, <1>6, <1>7, <1>8, <1>9, <1>10, <1>11, <1>12,
       <1>13, <1>14 DEF Next, Steps, Download, Done

(* No step breaks what is known of the notifications on their way.         *)
LEMMA NoticesPreserved == IInv /\ [Next]_vars => NoticesSent'
  <1> SUFFICES ASSUME IInv, [Next]_vars PROVE NoticesSent'
    OBVIOUS
  <1> USE DEF IInv, NoticesSent, scheduler
  <1>1. CASE Schedule
    BY <1>1 DEF Schedule, EntryHeld, Asking, Over, Contains
  <1>2. CASE WaitIterate \/ PullIterate
    BY <1>2 DEF WaitIterate, PullIterate, TypeOK, Contains
  <1>3. CASE unschedule_download
    BY <1>3 DEF unschedule_download
  <1>4. CASE Mogwai
    <2>1. CASE ~entry
      BY <1>4, <2>1 DEF Mogwai, Notify, TypeOK
    <2>2. CASE entry
      <3>1. PICK notice \in Notices :
              /\ inbox' = Append(inbox, notice)
              /\ slot' \in {"queued", "granted"} =>
                    notice # "invalidated" /\ slot \in {"queued", "granted"}
        BY <1>4, <2>2 DEF Mogwai, Notify, Notices
      <3>2. Len(inbox') <= sent'
        BY <1>4, <3>1 DEF Mogwai, Notify, TypeOK
      <3> QED
        BY <3>1, <3>2 DEF TypeOK, Contains
    <2> QED BY <2>1, <2>2
  <1>5. CASE UNCHANGED scheduler
    BY <1>5
  <1> QED
    BY <1>1, <1>2, <1>3, <1>4, <1>5
    DEF Next, Steps, Download, Done, vars, check_scheduler, Connect, WaitTest,
        content_fetch_new, content_fetch_old, prepare_flatpaks_to_deploy, PullOnly,
        handle_cancel, timeout_cb

(* The thread keeps track of its schedule entry, and gives it back.        *)
LEMMA EntryPreserved == IInv /\ [Next]_vars => EntryHeld' /\ EntryGivenBack'
  <1> SUFFICES ASSUME IInv, [Next]_vars PROVE EntryHeld' /\ EntryGivenBack'
    OBVIOUS
  <1> USE DEF IInv, EntryHeld, EntryGivenBack, GoTo, Return, LeaveWith, scheduler, Asking,
      Waiting, Pulling, PullingOld, Over
  <1>1. CASE check_scheduler
    BY <1>1 DEF check_scheduler, BeginPull
  <1>2. CASE Connect
    BY <1>2 DEF Connect
  <1>3. CASE Schedule
    <2>1. CASE pc' = "testing"
      BY <1>3, <2>1 DEF Schedule
    <2>2. CASE pc' = "returned"
      <3>1. ~entry' /\ ~permitted'
        BY <1>3, <2>2 DEF Schedule
      <3>2. callFailed' = (slot' # "none")
        BY <1>3, <2>2 DEF Schedule
      <3>3. slot' # "none" => callFailed'
        BY <3>2, Zenon
      <3> QED BY <2>2, <3>1, <3>3
    <2> QED BY <1>3, <2>1, <2>2 DEF Schedule
  <1>4. CASE WaitTest
    BY <1>4 DEF WaitTest, BeginPull
  <1>5. CASE WaitIterate
    BY <1>5 DEF WaitIterate
  <1>6. CASE PullIterate
    BY <1>6 DEF PullIterate
  <1>7. CASE unschedule_download
    BY <1>7 DEF unschedule_download, TypeOK, Slots
  <1>8. CASE content_fetch_new
    BY <1>8 DEF content_fetch_new, FallBack, PullOnly
  <1>9. CASE content_fetch_old
    BY <1>9 DEF content_fetch_old, PullOnly
  <1>10. CASE prepare_flatpaks_to_deploy
    BY <1>10 DEF prepare_flatpaks_to_deploy, PullOnly
  <1>11. CASE handle_cancel
    BY <1>11 DEF handle_cancel
  <1>12. CASE timeout_cb
    BY <1>12 DEF timeout_cb
  <1>13. CASE Mogwai
    BY <1>13 DEF Mogwai, Notify
  <1>14. CASE UNCHANGED vars
    BY <1>14 DEF vars
  <1> QED
    BY <1>1, <1>2, <1>3, <1>4, <1>5, <1>6, <1>7, <1>8, <1>9, <1>10, <1>11, <1>12,
       <1>13, <1>14 DEF Next, Steps, Download, Done

(* What has been heard of a queued entry that was granted before: "stop" is   *)
(* the last notification that waits.                                        *)
LEMMA StopIsWaiting ==
    ASSUME IInv, slot = "queued", ~LastWord(inbox, TRUE)
    PROVE  Contains(inbox, "stop")
  <1>1. inbox \in Seq(Notices) /\ ~Contains(inbox, "invalidated")
    BY DEF IInv, TypeOK, NoticesSent
  <1>2. Len(inbox) \in 1..Len(inbox)
    <2>1. CASE Len(inbox) = 0
      BY <1>1, <2>1 DEF LastWord
    <2> QED BY <1>1, <2>1
  <1>3. inbox[Len(inbox)] \in Notices \ {"download", "invalidated"}
    BY <1>1, <1>2 DEF LastWord, Contains
  <1> QED BY <1>2, <1>3 DEF Contains, Notices

(* No step of the thread, and none of the scheduler, loses a withdrawal.   *)
LEMMA WithdrawalPreserved ==
    IInv /\ [Next]_vars => WithdrawalHeard' /\ WithdrawalNotLost'
  <1> SUFFICES ASSUME IInv, [Next]_vars PROVE WithdrawalHeard' /\ WithdrawalNotLost'
    OBVIOUS
  <1> USE DEF IInv, EntryHeld, WithdrawalHeard, WithdrawalNotLost, GoTo, Return, LeaveWith,
      scheduler, wait, Asking, Waiting, Pulling, PullingOld, Over
  <1>1. CASE check_scheduler
    BY <1>1 DEF check_scheduler, BeginPull
  <1>2. CASE Connect
    BY <1>2 DEF Connect
  <1>3. CASE Schedule
    <2>1. inbox' = <<>> /\ (pc' \in Waiting /\ slot' = "queued" => ~download_now')
      BY <1>3 DEF Schedule
    <2>2. pc' \notin Pulling
      BY <1>3 DEF Schedule
    <2> QED BY <2>1, <2>2 DEF LastWord
  <1>4. CASE WaitTest
    <2>1. CASE download_now /\ slot = "queued"
      <3>1. ~LastWord(inbox, TRUE)
        BY <1>4, <2>1 DEF WaitTest, LastWord
      <3> QED
        BY <1>4, <2>1, <3>1, StopIsWaiting DEF WaitTest, BeginPull
    <2>2. CASE ~download_now \/ slot # "queued"
      BY <1>4, <2>2 DEF WaitTest, BeginPull
    <2> QED BY <2>1, <2>2
  <1>5. CASE WaitIterate
    BY <1>5 DEF WaitIterate, LastWord
  <1>6. CASE PullIterate
    BY <1>6 DEF PullIterate, CancelsPull, Contains
  <1>7. CASE unschedule_download
    BY <1>7 DEF unschedule_download
  <1>8. CASE content_fetch_new
    BY <1>8 DEF content_fetch_new, FallBack, PullOnly
  <1>9. CASE content_fetch_old
    BY <1>9 DEF content_fetch_old, PullOnly
  <1>10. CASE prepare_flatpaks_to_deploy
    BY <1>10 DEF prepare_flatpaks_to_deploy, PullOnly
  <1>11. CASE handle_cancel
    BY <1>11 DEF handle_cancel
  <1>12. CASE timeout_cb
    BY <1>12 DEF timeout_cb
  <1>13. CASE Mogwai
    BY <1>13 DEF Mogwai, Notify, LastWord, Contains, TypeOK
  <1>14. CASE UNCHANGED vars
    BY <1>14 DEF vars
  <1> QED
    BY <1>1, <1>2, <1>3, <1>4, <1>5, <1>6, <1>7, <1>8, <1>9, <1>10, <1>11, <1>12,
       <1>13, <1>14 DEF Next, Steps, Download, Done

(* What the thread is about to return is what it has come to.              *)
LEMMA OutcomePreserved == IInv /\ [Next]_vars => Outcome'
  <1> SUFFICES ASSUME IInv, [Next]_vars PROVE Outcome'
    OBVIOUS
  <1> USE DEF IInv, EntryHeld, Outcome, Unasked, GoTo, Return, LeaveWith, Asking, Waiting,
      Pulling, PullingOld, Over, content
  <1>1. CASE check_scheduler
    BY <1>1 DEF check_scheduler, BeginPull
  <1>2. CASE Connect
    BY <1>2 DEF Connect
  <1>3. CASE Schedule
    BY <1>3 DEF Schedule
  <1>4. CASE WaitTest
    <2>1. CASE permitted'
      BY <1>4, <2>1 DEF WaitTest, BeginPull
    <2>2. CASE ~permitted'
      <3>1. UNCHANGED <<options, cancelled, permitted, pulled>> /\ pc \in Waiting
        BY <1>4, <2>2 DEF WaitTest
      <3>2. \/ pc' = "iterating"
            \/ pc' = "unscheduling" /\ error' = "MeteredConnection"
            \/ pc' = "unscheduling" /\ error' = "Cancelled" /\ cancelled
        BY <1>4, <2>2 DEF WaitTest
      <3> QED BY <2>2, <3>1, <3>2
    <2> QED BY <2>1, <2>2
  <1>5. CASE WaitIterate
    BY <1>5 DEF WaitIterate
  <1>6. CASE PullIterate
    BY <1>6 DEF PullIterate
  <1>7. CASE unschedule_download
    BY <1>7 DEF unschedule_download
  <1>8. CASE content_fetch_new
    BY <1>8 DEF content_fetch_new, FetchCancelled, FallBack, PullOnly
  <1>9. CASE content_fetch_old
    BY <1>9 DEF content_fetch_old, PullErrors, FetchCancelled, PullOnly
  <1>10. CASE prepare_flatpaks_to_deploy
    BY <1>10 DEF prepare_flatpaks_to_deploy, PullErrors, FetchCancelled, PullOnly
  <1>11. CASE handle_cancel
    BY <1>11 DEF handle_cancel
  <1>12. CASE timeout_cb
    BY <1>12 DEF timeout_cb
  <1>13. CASE Mogwai
    <2>1. UNCHANGED <<options, pc, cancelled, permitted, pulled, error>>
      BY <1>13 DEF Mogwai, Notify
    <2> QED BY <2>1
  <1>14. CASE UNCHANGED vars
    BY <1>14 DEF vars
  <1> QED
    BY <1>1, <1>2, <1>3, <1>4, <1>5, <1>6, <1>7, <1>8, <1>9, <1>10, <1>11, <1>12,
       <1>13, <1>14 DEF Next, Steps, Download, Done

(* The inductive invariant holds in every reachable state.                    *)
THEOREM Invariance == Spec => []IInv
  <1>1. IInv /\ [Next]_vars => IInv'
    BY TypePreserved, NoticesPreserved, EntryPreserved, WithdrawalPreserved,
       OutcomePreserved DEF IInv
  <1> QED BY InitIInv, <1>1, PTL DEF Spec

(* Every variable keeps its type.                                            *)
THEOREM TypeCorrect == Spec => []TypeOK
  <1>1. IInv => TypeOK
    BY DEF IInv
  <1> QED BY Invariance, <1>1, PTL

(* Whatever ends a fetch, the scheduler's entry has been given back, unless   *)
(* the scheduler did not answer (unschedule_download).                        *)
THEOREM GivesEntryBack == Spec => []EntryGivenBack
  <1>1. IInv => EntryGivenBack
    BY DEF IInv
  <1> QED BY Invariance, <1>1, PTL

(* No withdrawal falls between the handlers of the wait and of the pull.      *)
THEOREM NoWithdrawalLost == Spec => []WithdrawalNotLost
  <1>1. IInv => WithdrawalNotLost
    BY DEF IInv
  <1> QED BY Invariance, <1>1, PTL

-----------------------------------------------------------------------------
(* The refinement: what each step of the fetch is for the daemon.             *)

(* A step the daemon's model does not tell from none.                      *)
LEMMA Stutter ==
    ASSUME InProgress, InProgress', UNCHANGED <<options, cancelled, permitted>>,
           Phase' = Phase, pc # "returned", pc' # "returned"
    PROVE  UNCHANGED D!vars
  BY DEF D!vars, TheTask, InProgress

(* A step of the thread leaves the daemon's main thread alone.             *)
LEMMA WorkerOnlyMaps ==
    ASSUME InProgress, InProgress', UNCHANGED <<options, cancelled>>
    PROVE  D!WorkerOnly
  BY DEF D!WorkerOnly, InProgress

(* The phase of the daemon's task is the phase of the fetch.               *)
LEMMA AtPhaseMaps ==
    ASSUME InProgress, NEW p, Phase = p
    PROVE  D!AtPhase("thread", {"fetch"}, p)
  BY DEF D!AtPhase, TheTask

(* A step into another phase of the fetch is one of the task's.              *)
LEMMA GoToMaps ==
    ASSUME InProgress, InProgress', UNCHANGED <<options, permitted>>,
           pc # "returned", pc' # "returned"
    PROVE  D!GoTo("thread", Phase')
  BY DEF D!GoTo, TheTask

(* The fetch returns what the task returns.                                  *)
LEMMA ReturnMaps ==
    ASSUME InProgress, InProgress', UNCHANGED <<options, permitted>>,
           pc # "returned", pc' = "returned"
    PROVE  /\ D!ReturnError("thread", error')
           /\ error' = "" => D!ReturnOk("thread")
  <1> DEFINE Record == [kind : {"fetch"}, phase : {Phase, "returned"}, cancellable : {"first"},
                        update : {"new"}, force : {options.force}, timeout : {options.timeout},
                        scheduled : {permitted}, error : {"", error'}, info : {D!NoInfo}]
  <1>1. Phase' = "returned"
    BY DEF Phase, Asking, Waiting, Pulling, PullingOld
  <1>2. TheTask' = [kind |-> "fetch", phase |-> "returned", cancellable |-> "first", update |-> "new",
                    force |-> options.force, timeout |-> options.timeout, scheduled |-> permitted,
                    error |-> error', info |-> D!NoInfo]
    BY <1>1 DEF TheTask, D!NoInfo
  <1>3. TheTask = [kind |-> "fetch", phase |-> Phase, cancellable |-> "first", update |-> "new",
                   force |-> options.force, timeout |-> options.timeout, scheduled |-> permitted,
                   error |-> "", info |-> D!NoInfo]
    BY DEF TheTask, D!NoInfo
  <1>4. TheTask \in Record /\ TheTask' \in Record
    BY ONLY <1>2, <1>3
  <1>5. /\ TheTask'.kind = TheTask.kind /\ TheTask'.phase = "returned" /\ TheTask'.update = TheTask.update
        /\ TheTask'.cancellable = TheTask.cancellable /\ TheTask'.force = TheTask.force
        /\ TheTask'.timeout = TheTask.timeout /\ TheTask'.scheduled = TheTask.scheduled
        /\ TheTask'.error = error' /\ TheTask.error = "" /\ TheTask'.info = TheTask.info
        /\ TheTask.info = D!NoInfo
    BY ONLY <1>2, <1>3
  <1>6. D!ReturnError("thread", error')
    <2>1. TheTask' = [TheTask EXCEPT !.phase = "returned", !.error = error']
      BY ONLY <1>4, <1>5
    <2> QED
      BY <2>1 DEF D!ReturnError
  <1>7. ASSUME error' = "" PROVE D!ReturnOk("thread")
    <2>1. TheTask'.error = TheTask.error
      BY <1>5, <1>7
    <2>2. TheTask' = [TheTask EXCEPT !.phase = "returned", !.info = D!NoInfo]
      BY ONLY <1>4, <1>5, <2>1
    <2> QED
      BY <2>2 DEF D!ReturnOk, D!ReturnInfo
  <1> QED
    BY <1>6, <1>7

(* The errors the daemon's worker may return here.                           *)
LEMMA ErrorsMap ==
    ASSUME InProgress
    PROVE  /\ "Other" \in D!IOErrors("thread")
           /\ cancelled => "Cancelled" \in D!IOErrors("thread")
           /\ D!IOErrors("thread") \subseteq D!PullErrors("thread")
           /\ permitted => "Cancelled" \in D!PullErrors("thread")
           /\ D!TaskCancelled("thread") <=> cancelled
  BY DEF D!IOErrors, D!PullErrors, D!TaskCancelled, TheTask

(* Nothing is pulled, on disk, before the fetch returns.                      *)
LEMMA DiskMaps ==
    ASSUME pc # "returned", pc' # "returned" \/ ~pulled'
    PROVE  UNCHANGED (IF pc = "returned" /\ pulled THEN {"old", "new"} ELSE {"old"})
  OBVIOUS

(* Asking, or not, is the daemon's check_scheduler.                          *)
LEMMA CheckSchedulerMaps ==
    ASSUME IInv, InProgress', UNCHANGED <<options, cancelled, permitted>>, Phase = "run",
           pc \in {"start"} \cup Asking,
           \/ Unasked /\ Phase' = "pull" /\ pc' # "returned"
           \/ ~Unasked /\ Phase' = "waiting" /\ pc' # "returned"
           \/ ~Unasked /\ pc' = "returned" /\ error' \in CallErrors /\ ~pulled'
    PROVE  D!check_scheduler("thread")
  <1>0. InProgress /\ pc # "returned"
    BY DEF InProgress, Asking
  <1>1. D!AtPhase("thread", {"fetch"}, "run") /\ D!WorkerOnly
    BY <1>0, AtPhaseMaps, WorkerOnlyMaps
  <1>2. CASE Unasked
    <2>1. D!GoTo("thread", "pull")
      BY <1>0, <1>2, GoToMaps
    <2> QED
      BY <1>0, <1>1, <1>2, <2>1, DiskMaps DEF D!check_scheduler, Unasked, TheTask
  <1>3. CASE ~Unasked /\ Phase' = "waiting" /\ pc' # "returned"
    <2>1. D!GoTo("thread", "waiting")
      BY <1>0, <1>3, GoToMaps
    <2> QED
      BY <1>0, <1>1, <1>3, <2>1, DiskMaps DEF D!check_scheduler, Unasked, TheTask
  <1>4. CASE ~Unasked /\ pc' = "returned"
    <2>1. D!ReturnError("thread", error') /\ error' \in D!IOErrors("thread")
      BY <1>0, <1>4, ReturnMaps, ErrorsMap DEF CallErrors
    <2> QED
      BY <1>0, <1>1, <1>4, <2>1, DiskMaps DEF D!check_scheduler, Unasked, TheTask
  <1> QED BY <1>2, <1>3, <1>4

(* A permission ends the daemon's wait.                                      *)
LEMMA SchedulerPermitsMaps ==
    ASSUME InProgress, Phase = "waiting", pc' \in Pulling, permitted',
           UNCHANGED <<options, cancelled>>
    PROVE  D!SchedulerPermits("thread")
  <1>0. InProgress' /\ pc # "returned" /\ pc' # "returned" /\ Phase' = "pull"
    BY DEF InProgress, Phase, Pulling, PullingOld, Asking, Waiting
  <1>1. D!AtPhase("thread", {"fetch"}, "waiting") /\ D!WorkerOnly
    BY <1>0, AtPhaseMaps, WorkerOnlyMaps
  <1> QED
    BY <1>0, <1>1, DiskMaps DEF D!SchedulerPermits, TheTask

(* A wait that ends without permission.                                      *)
LEMMA WaitEndsMaps ==
    ASSUME InProgress, Phase = "waiting", pc # "returned", pc' = "returned", ~pulled',
           error' = "MeteredConnection" \/ (error' = "Cancelled" /\ cancelled),
           UNCHANGED <<options, cancelled, permitted>>
    PROVE  D!SchedulerInvalidates("thread") \/ D!SchedulerWaitEnds("thread")
  <1>0. InProgress'
    BY DEF InProgress
  <1>1. D!AtPhase("thread", {"fetch"}, "waiting") /\ D!WorkerOnly /\ D!ReturnError("thread", error')
    BY <1>0, AtPhaseMaps, WorkerOnlyMaps, ReturnMaps
  <1>2. CASE error' = "MeteredConnection"
    BY <1>0, <1>1, <1>2, DiskMaps DEF D!SchedulerInvalidates
  <1>3. CASE error' = "Cancelled" /\ cancelled
    BY <1>0, <1>1, <1>3, DiskMaps, ErrorsMap DEF D!SchedulerWaitEnds
  <1> QED BY <1>2, <1>3

(* The end of a pull is the end of the daemon's content_fetch.               *)
LEMMA ContentFetchMaps ==
    ASSUME InProgress, Phase = "pull", pc # "returned", pc' = "returned",
           UNCHANGED <<options, cancelled, permitted>>,
           error' = "" => pulled',
           error' \in {"", "Other"} \/ (error' = "Cancelled" /\ (cancelled \/ permitted))
    PROVE  D!content_fetch("thread")
  <1>0. InProgress'
    BY DEF InProgress
  <1>1. D!AtPhase("thread", {"fetch"}, "pull") /\ D!WorkerOnly
    BY <1>0, AtPhaseMaps, WorkerOnlyMaps
  <1>2. D!ReturnError("thread", error') /\ (error' = "" => D!ReturnOk("thread"))
    BY <1>0, ReturnMaps
  <1>3. error' # "" => error' \in D!PullErrors("thread")
    BY ErrorsMap
  <1>4. "new" \in D!PullTargets("thread")
    BY DEF D!PullTargets, TheTask
  <1>5. CASE pulled'
    BY <1>0, <1>1, <1>2, <1>3, <1>4, <1>5 DEF D!content_fetch, TheTask
  <1>6. CASE ~pulled'
    BY <1>0, <1>1, <1>2, <1>3, <1>6, DiskMaps DEF D!content_fetch
  <1> QED BY <1>5, <1>6

(* What accepting a Cancel makes of the history.                             *)
LEMMA ExceptCancel ==
    ASSUME NEW r \in D!History, NEW s \in D!History, s.cancel, r.deployed = s.deployed
    PROVE  s = [r EXCEPT !.cancel = TRUE]
  BY DEF D!History

(* The Cancel call of the daemon triggers the task's cancellable.          *)
LEMMA CancelMaps ==
    ASSUME InProgress, InProgress', ~cancelled, cancelled' = TRUE,
           UNCHANGED <<options, pc, permitted, error, pulled>>
    PROVE  D!handle_cancel
  <1>1. UNCHANGED TheTask
    BY DEF TheTask, Phase, Unasked
  <1>2. "second" \in D!FreeCancellables
    BY DEF D!FreeCancellables, D!Alive, TheTask
  <1>3. D!eos_updater_data_reset_cancellable(
          (IF InProgress /\ cancelled THEN {"first"} ELSE {})
            \cup {IF InProgress THEN IF cancelled THEN "second" ELSE "first" ELSE ""})
    BY <1>2 DEF D!eos_updater_data_reset_cancellable
  <1>4. UNCHANGED <<InProgress, [w \in {"thread"} |-> TheTask], D!disk,
                    IF InProgress THEN "FETCHING" ELSE "NONE",
                    IF InProgress THEN "new" ELSE "",
                    [results |-> IF InProgress /\ options.results THEN "new" ELSE "",
                     offline_results_only |-> InProgress /\ options.offline_results_only]>>
    BY <1>1 DEF D!disk, InProgress
  <1>5. (IF InProgress /\ cancelled THEN [cancel |-> TRUE, deployed |-> FALSE]
           ELSE [cancel |-> FALSE, deployed |-> FALSE])' =
        [IF InProgress /\ cancelled THEN [cancel |-> TRUE, deployed |-> FALSE]
           ELSE [cancel |-> FALSE, deployed |-> FALSE] EXCEPT !.cancel = TRUE]
    <2>1. [cancel |-> TRUE, deployed |-> FALSE] \in D!History
            /\ [cancel |-> FALSE, deployed |-> FALSE] \in D!History
      BY DEF D!History
    <2> QED BY <2>1, ExceptCancel
  <1> QED
    BY <1>3, <1>4, <1>5 DEF D!handle_cancel, D!Serving, D!Busy

(* A crash of the thread is the end of the daemon's process.               *)
LEMMA CrashMaps ==
    ASSUME InProgress, pc # "returned", pc' = "crashed"
    PROVE  D!on_name_lost
  BY DEF D!on_name_lost, D!ProcessEnds, D!NoData, D!NoHistory, D!Idle, D!NewTask, D!NoInfo,
         D!disk, InProgress, TheTask

(* These are the daemon's steps that a fetch takes.                        *)
LEMMA DaemonSteps ==
    ASSUME \/ D!check_scheduler("thread")
           \/ D!SchedulerPermits("thread")
           \/ D!SchedulerInvalidates("thread")
           \/ D!SchedulerWaitEnds("thread")
           \/ D!content_fetch("thread")
           \/ D!handle_cancel
           \/ D!on_name_lost
    PROVE  D!Next
  BY DEF D!Next, D!Worker, D!Scheduler

(* Every step of the fetch is one of the daemon's, or none.                *)
LEMMA StepMaps == IInv /\ [Next]_vars => [D!Next]_(D!vars)
  <1> SUFFICES ASSUME IInv, [Next]_vars PROVE D!Next \/ UNCHANGED D!vars
    OBVIOUS
  <1> USE DEF InProgress, Phase, Asking, Waiting, Pulling, PullingOld
  <1>0. Outcome /\ (pc \in {"start"} \cup Asking \cup Waiting => ~permitted)
    BY DEF IInv, EntryHeld
  <1>1. CASE check_scheduler
    <2>1. CASE Unasked
      <3>1. pc' # "returned" /\ Phase' = "pull" /\ UNCHANGED <<options, cancelled, permitted>>
        BY <1>1, <2>1 DEF check_scheduler, BeginPull, GoTo
      <3>2. pc = "start"
        BY <1>1 DEF check_scheduler
      <3>7. D!check_scheduler("thread")
        BY <2>1, <3>1, <3>2, CheckSchedulerMaps
      <3> QED BY <3>7, DaemonSteps
    <2>2. CASE ~Unasked
      BY <1>1, <2>2, Stutter DEF check_scheduler, GoTo
    <2> QED BY <2>1, <2>2
  <1>2. CASE Connect
    <2>1. CASE pc' = "scheduling"
      BY <1>2, <2>1, Stutter DEF Connect
    <2>2. CASE pc' = "returned"
      <3>1. error' \in CallErrors /\ UNCHANGED <<options, cancelled, permitted, pulled>>
        BY <1>2, <2>2 DEF Connect, GoTo, Return, content
      <3>2. pc = "connecting"
        BY <1>2 DEF Connect
      <3>7. D!check_scheduler("thread")
        BY <1>0, <2>2, <3>1, <3>2, CheckSchedulerMaps DEF Outcome, Over
      <3> QED BY <3>7, DaemonSteps
    <2> QED BY <1>2, <2>1, <2>2 DEF Connect, GoTo, Return
  <1>3. CASE Schedule
    <2>0. pc = "scheduling" /\ UNCHANGED <<options, cancelled, permitted, pulled>>
      BY <1>3 DEF Schedule, content
    <2>1. CASE pc' = "testing"
      <3>7. D!check_scheduler("thread")
        BY <1>0, <2>0, <2>1, CheckSchedulerMaps DEF Outcome
      <3> QED BY <3>7, DaemonSteps
    <2>2. CASE pc' = "returned"
      <3>1. error' \in CallErrors
        BY <1>3, <2>2 DEF Schedule, GoTo, Return
      <3>7. D!check_scheduler("thread")
        BY <1>0, <2>0, <2>2, <3>1, CheckSchedulerMaps DEF Outcome, Over
      <3> QED BY <3>7, DaemonSteps
    <2> QED BY <1>3, <2>1, <2>2 DEF Schedule, GoTo, Return
  <1>4. CASE WaitTest
    <2>0. pc \in Waiting /\ UNCHANGED <<options, cancelled>>
      BY <1>4 DEF WaitTest
    <2>1. CASE permitted'
      <3>1. pc' \in Pulling
        BY <1>0, <1>4, <2>1 DEF WaitTest, BeginPull, GoTo
      <3>7. D!SchedulerPermits("thread")
        BY <2>0, <2>1, <3>1, SchedulerPermitsMaps
      <3> QED BY <3>7, DaemonSteps
    <2>2. CASE ~permitted'
      <3>1. pc' \in {"iterating", "unscheduling"} /\ UNCHANGED permitted
        BY <1>4, <2>2 DEF WaitTest, LeaveWith, GoTo
      <3>2. ~permitted /\ ~Unasked /\ ~Unasked'
        BY <1>0, <2>0 DEF Outcome, Unasked
      <3> QED BY <2>0, <2>2, <3>1, <3>2, Stutter
    <2> QED BY <2>1, <2>2
  <1>5. CASE WaitIterate \/ PullIterate \/ timeout_cb \/ Mogwai
    <2>1. pc \notin Over /\ Phase' = Phase /\ pc' \notin Over
            /\ UNCHANGED <<options, cancelled, permitted>>
      BY <1>5 DEF WaitIterate, PullIterate, timeout_cb, Mogwai, Notify, GoTo, Over, Unasked
    <2> QED BY <2>1, Stutter DEF Over
  <1>6. CASE unschedule_download
    <2>1. /\ pc = "unscheduling" /\ pc' = "returned"
          /\ UNCHANGED <<options, cancelled, permitted, pulled, error>>
      BY <1>6 DEF unschedule_download, Return, content
    <2>2. error \in {"", "Cancelled", "MeteredConnection", "Other"}
      BY DEF IInv, TypeOK, FetchErrors
    <2>3. CASE permitted \/ Unasked
      <3>7. D!content_fetch("thread")
        <4>1. /\ error' = "" => pulled'
              /\ error' \in {"", "Other"} \/ (error' = "Cancelled" /\ (cancelled \/ permitted))
          <5>1. (error = "" => pulled) /\ (error = "Cancelled" => cancelled \/ permitted)
            BY <1>0, <2>1 DEF Outcome
          <5>2. error # "MeteredConnection"
            BY <1>0, <2>1, <2>3 DEF Outcome
          <5> QED BY <2>1, <2>2, <5>1, <5>2
        <4>2. InProgress /\ Phase = "pull"
          BY <2>1, <2>3
        <4> QED BY <2>1, <4>1, <4>2, ContentFetchMaps
      <3> QED BY <3>7, DaemonSteps
    <2>4. CASE ~permitted /\ ~Unasked
      <3>7. D!SchedulerInvalidates("thread") \/ D!SchedulerWaitEnds("thread")
        <4>1. error' = "MeteredConnection" \/ (error' = "Cancelled" /\ cancelled)
          <5>1. error = "MeteredConnection" \/ (error = "Cancelled" /\ cancelled)
            BY <1>0, <2>1, <2>2, <2>4 DEF Outcome
          <5> QED BY <2>1, <5>1
        <4>2. InProgress /\ Phase = "waiting" /\ ~pulled'
          BY <1>0, <2>1, <2>4 DEF Outcome, Over
        <4> QED BY <2>1, <4>1, <4>2, WaitEndsMaps
      <3> QED BY <3>7, DaemonSteps
    <2> QED BY <2>3, <2>4
  <1>7. CASE Download
    <2>0. /\ pc \in Pulling \cup {"flatpaks"}
          /\ pc' \in Pulling \cup {"flatpaks", "unscheduling", "crashed"}
          /\ UNCHANGED <<options, cancelled, permitted>>
      BY <1>7 DEF Download, content_fetch_new, content_fetch_old, GoTo, LeaveWith, FallBack,
                  prepare_flatpaks_to_deploy, PullOnly
    <2>1. CASE pc' = "crashed"
      <3>7. D!on_name_lost
        BY <2>0, <2>1, CrashMaps
      <3> QED BY <3>7, DaemonSteps
    <2>2. CASE pc' # "crashed"
      <3>1. (permitted \/ Unasked) /\ (permitted' \/ Unasked')
        BY <1>0, <2>0 DEF Outcome, Unasked
      <3> QED BY <2>0, <2>2, <3>1, Stutter
    <2> QED BY <2>1, <2>2
  <1>8. CASE handle_cancel
    <2>7. D!handle_cancel
      BY <1>8, CancelMaps DEF handle_cancel, content, Over
    <2> QED BY <2>7, DaemonSteps
  <1>9. CASE UNCHANGED vars
    BY <1>9 DEF vars, D!vars, TheTask, Unasked
  <1> QED
    BY <1>1, <1>2, <1>3, <1>4, <1>5, <1>6, <1>7, <1>8, <1>9 DEF Next, Steps, Done

(* Every step of a fetch is one of the daemon's worker, so what is proved of  *)
(* the daemon is true of it with this worker.                                *)
THEOREM Refinement == Spec => FetchRefines
  BY Invariance, StepMaps, PTL DEF Spec, FetchRefines
=============================================================================
