-------------------------- MODULE AdvertisementProofs --------------------------
(***************************************************************************)
(* Proofs about Advertisement, for any refs, deployments, names and time        *)
(* stamps, and any number of changes and failures.                            *)
(***************************************************************************)
EXTENDS Advertisement, ServiceFileClient, TLAPS

(* What a run has read is what there is, unless it is to be run again or what     *)
(* changed is not watched for.                                               *)
Fresh == ~triggered /\ ~unseen

ReadIsCurrent ==
    /\ pc \in {"sysroot", "delete", "refs", "summary", "generate"} /\ Fresh =>
          config = (IF advertise_updates THEN "on" ELSE "off")
    /\ pc = "delete" /\ Fresh => Wanted = NoFile \/ failures > 0
    /\ pc \in {"refs", "summary", "generate"} /\ Fresh => Wanted = [refs |-> refs, timestamp |-> summary]
    /\ pc \in {"summary", "generate"} /\ Fresh => refs_read = refs
    /\ pc = "generate" /\ Fresh => timestamp_read = summary

IInv == TypeOK /\ ReadIsCurrent /\ FileIsWanted /\ SocketListens

-----------------------------------------------------------------------------

LEMMA FileIsName == file \in Name /\ IndexOf[file] = 0 /\ IndexOf[file] # NoIndex
  BY FileAssumption, IndexAssumption DEF file, service_file

LEMMA GeneratesFile == service_file(repository_index(NoOptions)) = file
  BY DEF file, repository_index, lookup, NoOptions, Option, Unset

(* A state that changes leave as it is keeps what is proved of it.             *)
LEMMA Changed ==
  ASSUME IInv, NEW what, Changes(what),
         config' \in {"on", "off", "broken"}, deployments' \in Deployed, refs' \subseteq Ref,
         summary' \in Timestamps \cup {Missing, Corrupt}
  PROVE  IInv'
<1>1. ~Fresh'
  BY DEF Changes, Fresh, Watched, IInv, TypeOK
<1>2. TypeOK'
  <2>1. triggered' \in BOOLEAN /\ unseen' \in BOOLEAN
    BY Zenon DEF Changes
  <2>2. changes' \in 0 .. MaxChanges
    <3>1. changes \in 0 .. MaxChanges /\ changes < MaxChanges /\ changes' = changes + 1
      BY Zenon DEF IInv, TypeOK, Changes
    <3> QED
      BY <3>1, BoundsAssumption
  <2>3. UNCHANGED <<directory, pc, advertise_updates, refs_read, timestamp_read, status, socket, serving, refused, failures>>
    BY DEF Changes, local, server
  <2> QED
    BY <2>1, <2>2, <2>3 DEF IInv, TypeOK, Contents
<1>3. ReadIsCurrent'
  BY <1>1 DEF ReadIsCurrent
<1>4. FileIsWanted'
  BY <1>1 DEF FileIsWanted, Fresh
<1>5. SocketListens'
  BY DEF IInv, SocketListens, Changes, server, file, TypeOK
<1> QED
  BY <1>2, <1>3, <1>4, <1>5 DEF IInv

(* What a step of a run may write keeps its type, with the rest as it was.         *)
LEMMA StepTypes ==
  ASSUME TypeOK, UNCHANGED <<config, deployments, refs, summary, unseen, changes, status, socket, serving>>,
         directory' \in [Name -> {NoFile, OldContent} \cup Contents],
         pc' \in {"idle", "config", "sysroot", "delete", "refs", "summary", "generate"},
         triggered' \in BOOLEAN, advertise_updates' \in BOOLEAN, refused' \in BOOLEAN,
         refs_read' \subseteq Ref, timestamp_read' \in Nat, failures' \in 0 .. MaxFailures
  PROVE  TypeOK'
<1>1. /\ config' \in {"on", "off", "broken"} /\ deployments' \in Deployed
      /\ refs' \subseteq Ref /\ summary' \in Timestamps \cup {Missing, Corrupt}
      /\ status' \in {"none", "ok", "failed", "bad configuration", "aborted"}
  BY DEF TypeOK
<1>2. socket' \in BOOLEAN /\ serving' \in BOOLEAN /\ unseen' \in BOOLEAN
  BY Zenon DEF TypeOK
<1>3. changes' \in 0 .. MaxChanges
  BY Zenon DEF TypeOK
<1>4. directory' \in [Name -> {NoFile, OldContent} \cup Contents']
  BY Zenon DEF Contents
<1> QED
  BY <1>1, <1>2, <1>3, <1>4, Zenon DEF TypeOK

(* A run that ends has the socket listened on if anything is advertised.          *)
LEMMA Exited ==
  ASSUME IInv, NEW s \in {"ok", "failed", "bad configuration", "aborted"}, Exit(s),
         directory' \in [Name -> {NoFile, OldContent} \cup Contents],
         UNCHANGED <<advertise_updates, commit, refs_read, timestamp_read>>,
         refused' \in BOOLEAN, failures' \in 0 .. MaxFailures
  PROVE  TypeOK' /\ ReadIsCurrent' /\ SocketListens'
<1>1. socket' \in BOOLEAN
  BY Zenon DEF IInv, TypeOK, Exit
<1>2. UNCHANGED <<triggered, config, deployments, refs, summary, unseen, changes, serving>>
  BY DEF Exit, world
<1>3. pc' = "idle" /\ status' = s
  BY DEF Exit
<1>4. TypeOK'
  BY <1>1, <1>2, <1>3 DEF IInv, TypeOK, Contents
<1>5. ReadIsCurrent'
  BY <1>3 DEF ReadIsCurrent
<1>6. SocketListens'
  <2>1. directory'[file] # NoFile => socket'
    BY FileIsName, Zenon DEF Exit
  <2> QED
    BY <2>1 DEF SocketListens, file
<1> QED
  BY <1>4, <1>5, <1>6

(* A run that ends otherwise than well is not spoken of.                        *)
LEMMA Failed ==
  ASSUME IInv, NEW s \in {"failed", "bad configuration", "aborted"}, Exit(s),
         directory' \in [Name -> {NoFile, OldContent} \cup Contents],
         UNCHANGED <<advertise_updates, commit, refs_read, timestamp_read>>,
         refused' \in BOOLEAN, failures' \in 0 .. MaxFailures
  PROVE  IInv'
<1>1. FileIsWanted'
  BY DEF Exit, FileIsWanted
<1> QED
  BY <1>1, Exited DEF IInv

(* One more failure is still within their bound.                               *)
LEMMA FailsInBound ==
  ASSUME TypeOK, Fails PROVE failures' \in 0 .. MaxFailures /\ failures' > 0
<1>1. failures \in 0 .. MaxFailures /\ failures < MaxFailures /\ failures' = failures + 1
  BY Zenon DEF TypeOK, Fails
<1> QED
  BY <1>1, BoundsAssumption

LEMMA StartKeeps == ASSUME IInv, Start PROVE IInv'
<1>1. /\ pc' = "config" /\ triggered' = FALSE /\ refused' = FALSE
      /\ UNCHANGED <<directory, config, deployments, refs, summary, unseen, changes, advertise_updates,
                     refs_read, timestamp_read, status, socket, serving, failures>>
  BY DEF Start, world, local, server
<1>2. advertise_updates' \in BOOLEAN /\ triggered' \in BOOLEAN /\ refused' \in BOOLEAN
  BY <1>1, Zenon DEF IInv, TypeOK
<1>3. directory' \in [Name -> {NoFile, OldContent} \cup Contents] /\ failures' \in 0 .. MaxFailures
  BY <1>1, Zenon DEF IInv, TypeOK
<1>4. refs_read' \subseteq Ref /\ timestamp_read' \in Nat
  BY <1>1, Zenon DEF IInv, TypeOK
<1>5. TypeOK'
  BY <1>1, <1>2, <1>3, <1>4, StepTypes DEF IInv
<1> QED
  BY <1>1, <1>5 DEF IInv, ReadIsCurrent, FileIsWanted, SocketListens

LEMMA ReadConfigKeeps == ASSUME IInv, ReadConfig PROVE IInv'
<1>1. CASE config = "broken"
  <2>1. Exit("bad configuration") /\ UNCHANGED <<directory, advertise_updates, commit, refs_read, timestamp_read, refused, failures>>
    BY <1>1 DEF ReadConfig, local
  <2> QED
    BY <2>1, Failed DEF IInv, TypeOK
<1>2. CASE config # "broken"
  <2>1. /\ advertise_updates' = (config = "on")
        /\ pc' = "sysroot"
        /\ UNCHANGED <<directory, config, deployments, refs, summary, unseen, changes, triggered, commit,
                       refs_read, timestamp_read, status, socket, serving, refused, failures>>
    BY <1>2 DEF ReadConfig, world, server
  <2>2. advertise_updates' \in BOOLEAN
    BY <2>1, Zenon
  <2>t. triggered' \in BOOLEAN /\ refused' \in BOOLEAN /\ failures' \in 0 .. MaxFailures
    BY <2>1, Zenon DEF IInv, TypeOK
  <2>u. directory' \in [Name -> {NoFile, OldContent} \cup Contents] /\ refs_read' \subseteq Ref /\ timestamp_read' \in Nat
    BY <2>1, Zenon DEF IInv, TypeOK
  <2>3. TypeOK'
    BY <2>1, <2>2, <2>t, <2>u, StepTypes DEF IInv
  <2>4. advertise_updates' => config = "on"
    BY <2>1, Zenon
  <2>5. ~advertise_updates' => config # "on"
    BY <2>1, Zenon
  <2>6. config' = (IF advertise_updates' THEN "on" ELSE "off")
    BY <1>2, <2>1, <2>4, <2>5 DEF IInv, TypeOK
  <2>7. ReadIsCurrent'
    BY <2>1, <2>6 DEF ReadIsCurrent
  <2> QED
    BY <2>1, <2>3, <2>7 DEF IInv, FileIsWanted, SocketListens
<1> QED
  BY <1>1, <1>2

(* The commit to advertise is found where one is wanted, but for a failure.       *)
LEMMA LoadSysrootKeeps == ASSUME IInv, LoadSysroot PROVE IInv'
<1>1. CASE Exit("aborted") /\ UNCHANGED <<directory, local, failures, refused>>
  BY <1>1, Failed DEF IInv, TypeOK, local
<1>2. CASE /\ pc = "sysroot"
           /\ \/ ~AssertionFails(deployments) /\ UNCHANGED failures
                 /\ commit' = IF advertisable(deployments).timestamp = 0 THEN NoCommit
                              ELSE advertisable(deployments)
              \/ commit' = NoCommit /\ Fails
           /\ directory' \in {directory, [directory EXCEPT ![OldFile] = NoFile]}
           /\ pc' = IF advertise_updates /\ commit' # NoCommit THEN "refs" ELSE "delete"
           /\ UNCHANGED <<world, triggered, advertise_updates, refs_read, timestamp_read, status, server, refused>>
  <2>1. failures' \in 0 .. MaxFailures /\ (commit' = NoCommit /\ Fails => failures' > 0)
    BY <1>2, FailsInBound DEF IInv, TypeOK
  <2>2. directory' \in [Name -> {NoFile, OldContent} \cup Contents]
    BY <1>2 DEF IInv, TypeOK
  <2>3. UNCHANGED <<config, deployments, refs, summary, unseen, changes, triggered, advertise_updates,
                    refs_read, timestamp_read, status, socket, serving, refused>>
    BY <1>2 DEF world, server
  <2>4. pc' \in {"refs", "delete"}
    BY <1>2
  <2>t. triggered' \in BOOLEAN /\ refused' \in BOOLEAN /\ advertise_updates' \in BOOLEAN
    BY <2>3, Zenon DEF IInv, TypeOK
  <2>u. refs_read' \subseteq Ref /\ timestamp_read' \in Nat
    BY <2>3, Zenon DEF IInv, TypeOK
  <2>5. TypeOK'
    BY <2>1, <2>2, <2>3, <2>4, <2>t, <2>u, StepTypes DEF IInv
  <2>6. Fresh' => Fresh /\ config = (IF advertise_updates THEN "on" ELSE "off")
    BY <1>2, <2>3 DEF Fresh, IInv, ReadIsCurrent
  <2>7. commit' # NoCommit => advertisable(deployments).timestamp # 0
    BY <1>2
  <2>8. ASSUME commit' = NoCommit, ~(failures' > 0) PROVE advertisable(deployments).timestamp = 0
    BY <1>2, <2>1, <2>8 DEF NoCommit
  <2>9. Wanted' = Wanted
    BY <2>3 DEF Wanted
  <2>10. ASSUME pc' = "refs", Fresh' PROVE Wanted' = [refs |-> refs', timestamp |-> summary']
    BY <1>2, <2>3, <2>6, <2>7, <2>9, <2>10 DEF Wanted
  <2>11. ASSUME pc' = "delete", Fresh', ~(failures' > 0) PROVE Wanted' = NoFile
    BY <1>2, <2>6, <2>8, <2>9, <2>11 DEF Wanted
  <2>12. ReadIsCurrent'
    BY <2>3, <2>4, <2>6, <2>10, <2>11 DEF ReadIsCurrent
  <2> QED
    BY <2>4, <2>5, <2>12 DEF IInv, FileIsWanted, SocketListens
<1> QED
  BY <1>1, <1>2 DEF LoadSysroot

LEMMA DeleteKeeps == ASSUME IInv, Delete PROVE IInv'
<1>1. CASE delete(0) /\ Exit("ok") /\ UNCHANGED <<refused, failures, local>>
  <2>1. directory' = [directory EXCEPT ![file] = NoFile]
    BY <1>1 DEF delete, file
  <2>2. directory' \in [Name -> {NoFile, OldContent} \cup Contents]
    BY <2>1 DEF IInv, TypeOK
  <2>3. TypeOK' /\ ReadIsCurrent' /\ SocketListens'
    BY <1>1, <2>2, Exited DEF IInv, TypeOK, local
  <2>4. directory'[file] = NoFile
    BY <2>1, FileIsName DEF IInv, TypeOK
  <2>5. Fresh' => Fresh /\ (Wanted = NoFile \/ failures > 0)
    BY <1>1 DEF Delete, Exit, world, Fresh, IInv, ReadIsCurrent
  <2>6. Wanted' = Wanted /\ failures' = failures
    BY <1>1 DEF Exit, world, Wanted
  <2>7. FileIsWanted'
    BY <2>4, <2>5, <2>6 DEF FileIsWanted, Fresh, file
  <2> QED
    BY <2>3, <2>7 DEF IInv
<1>2. CASE Fails /\ refused' = TRUE /\ Exit("failed") /\ UNCHANGED <<directory, local>>
  BY <1>2, Failed, FailsInBound DEF IInv, TypeOK, local
<1> QED
  BY <1>1, <1>2 DEF Delete

LEMMA ReadRefsKeeps == ASSUME IInv, ReadRefs PROVE IInv'
<1>1. CASE /\ pc = "refs" /\ refs_read' = refs /\ pc' = "summary"
           /\ UNCHANGED <<directory, world, triggered, advertise_updates, commit, timestamp_read, status, server, failures, refused>>
  <2>1. UNCHANGED <<directory, config, deployments, refs, summary, unseen, changes, triggered, advertise_updates,
                    timestamp_read, status, socket, serving, failures, refused>>
    BY <1>1 DEF world, server
  <2>2. triggered' \in BOOLEAN /\ refused' \in BOOLEAN /\ advertise_updates' \in BOOLEAN
    BY <2>1, Zenon DEF IInv, TypeOK
  <2>3. directory' \in [Name -> {NoFile, OldContent} \cup Contents] /\ failures' \in 0 .. MaxFailures
    BY <2>1, Zenon DEF IInv, TypeOK
  <2>4. refs_read' \subseteq Ref /\ timestamp_read' \in Nat
    BY <1>1, <2>1 DEF IInv, TypeOK
  <2>5. TypeOK'
    BY <1>1, <2>1, <2>2, <2>3, <2>4, StepTypes DEF IInv
  <2>6. Wanted' = Wanted /\ (Fresh' <=> Fresh)
    BY <2>1 DEF Wanted, Fresh
  <2>7. ReadIsCurrent'
    BY <1>1, <2>1, <2>6 DEF IInv, ReadIsCurrent
  <2> QED
    BY <1>1, <2>5, <2>7 DEF IInv, FileIsWanted, SocketListens
<1>2. CASE ((refs = {} /\ UNCHANGED failures) \/ Fails) /\ Exit("failed") /\ UNCHANGED <<directory, local, refused>>
  BY <1>2, Failed, FailsInBound DEF IInv, TypeOK, local
<1> QED
  BY <1>1, <1>2 DEF ReadRefs

LEMMA ReadSummaryKeeps == ASSUME IInv, ReadSummary PROVE IInv'
<1>1. CASE /\ pc = "summary" /\ summary \in Timestamps /\ summary >= 0 /\ timestamp_read' = summary /\ pc' = "generate"
           /\ UNCHANGED <<directory, world, triggered, advertise_updates, commit, refs_read, status, server, failures, refused>>
  <2>1. UNCHANGED <<directory, config, deployments, refs, summary, unseen, changes, triggered, advertise_updates,
                    refs_read, status, socket, serving, failures, refused>>
    BY <1>1 DEF world, server
  <2>2. triggered' \in BOOLEAN /\ refused' \in BOOLEAN /\ advertise_updates' \in BOOLEAN
    BY <2>1, Zenon DEF IInv, TypeOK
  <2>3. directory' \in [Name -> {NoFile, OldContent} \cup Contents] /\ failures' \in 0 .. MaxFailures
    BY <2>1, Zenon DEF IInv, TypeOK
  <2>4. timestamp_read' \in Nat
    BY <1>1, TimestampsAssumption
  <2>5. refs_read' \subseteq Ref
    BY <2>1, Zenon DEF IInv, TypeOK
  <2>6. TypeOK'
    BY <1>1, <2>1, <2>2, <2>3, <2>4, <2>5, StepTypes DEF IInv
  <2>7. Wanted' = Wanted /\ (Fresh' <=> Fresh)
    BY <2>1 DEF Wanted, Fresh
  <2>8. ReadIsCurrent'
    BY <1>1, <2>1, <2>7 DEF IInv, ReadIsCurrent
  <2> QED
    BY <1>1, <2>6, <2>8 DEF IInv, FileIsWanted, SocketListens
<1>2. CASE Exit("failed") /\ UNCHANGED <<directory, local, failures, refused>>
  BY <1>2, Failed DEF IInv, TypeOK, local
<1> QED
  BY <1>1, <1>2 DEF ReadSummary

LEMMA GenerateKeeps == ASSUME IInv, Generate PROVE IInv'
<1>1. CASE pc = "generate" /\ generate(NoOptions, refs_read, timestamp_read) /\ Exit("ok") /\ UNCHANGED <<refused, failures, local>>
  <2>1. directory' = [directory EXCEPT ![file] = [refs |-> refs_read, timestamp |-> timestamp_read]]
    BY <1>1, GeneratesFile DEF generate
  <2>2. directory' \in [Name -> {NoFile, OldContent} \cup Contents]
    BY <2>1 DEF IInv, TypeOK, Contents
  <2>3. TypeOK' /\ ReadIsCurrent' /\ SocketListens'
    BY <1>1, <2>2, Exited DEF IInv, TypeOK, local
  <2>4. directory'[file] = [refs |-> refs_read, timestamp |-> timestamp_read]
    BY <2>1, FileIsName DEF IInv, TypeOK
  <2>5. Fresh' => Wanted = [refs |-> refs_read, timestamp |-> timestamp_read]
    BY <1>1 DEF Exit, world, Fresh, IInv, ReadIsCurrent
  <2>6. Wanted' = Wanted
    BY <1>1 DEF Exit, world, Wanted
  <2>7. FileIsWanted'
    BY <2>4, <2>5, <2>6 DEF FileIsWanted, Fresh, file
  <2> QED
    BY <2>3, <2>7 DEF IInv
<1>2. CASE Fails /\ delete(0) /\ Exit("failed") /\ UNCHANGED <<refused, local>>
  <2>1. directory' \in [Name -> {NoFile, OldContent} \cup Contents]
    BY <1>2 DEF delete, IInv, TypeOK
  <2> QED
    BY <1>2, <2>1, Failed, FailsInBound DEF IInv, TypeOK, local
<1>3. CASE Fails /\ Exit("failed") /\ UNCHANGED <<directory, local>> /\ refused' = TRUE
  BY <1>3, Failed, FailsInBound DEF IInv, TypeOK, local
<1> QED
  BY <1>1, <1>2, <1>3 DEF Generate

LEMMA RebootKeeps == ASSUME IInv, Reboot PROVE IInv'
<1>1. changes' \in 0 .. MaxChanges
  <2>1. changes \in 0 .. MaxChanges /\ changes < MaxChanges /\ changes' = changes + 1
    BY Zenon DEF IInv, TypeOK, Reboot
  <2> QED
    BY <2>1, BoundsAssumption
<1> QED
  BY <1>1 DEF Reboot, IInv, TypeOK, ReadIsCurrent, FileIsWanted, SocketListens, Fresh, local, Contents

(* IInv does not speak of the server, nor of what was read of the deployments.     *)
LEMMA SameKeeps ==
  ASSUME IInv, serving' \in BOOLEAN,
         UNCHANGED <<directory, config, deployments, refs, summary, unseen, changes, triggered, pc,
                     advertise_updates, refs_read, timestamp_read, status, socket, refused, failures>>
  PROVE  IInv'
<1>1. TypeOK'
  <2>1. socket' \in BOOLEAN /\ triggered' \in BOOLEAN /\ advertise_updates' \in BOOLEAN
    BY Zenon DEF IInv, TypeOK
  <2> QED
    BY <2>1 DEF IInv, TypeOK, Contents
<1>2. Wanted' = Wanted /\ Fresh' = Fresh
  BY DEF Wanted, Fresh
<1>3. ReadIsCurrent'
  BY <1>2 DEF IInv, ReadIsCurrent
<1>4. FileIsWanted'
  BY <1>2 DEF IInv, FileIsWanted, file
<1>5. SocketListens'
  BY DEF IInv, SocketListens, file
<1> QED
  BY <1>1, <1>3, <1>4, <1>5 DEF IInv

LEMMA ServerKeeps == ASSUME IInv, Serve \/ Quit PROVE IInv'
  BY SameKeeps DEF Serve, Quit, IInv, TypeOK, world, local

LEMMA ChangeKeeps == ASSUME IInv, Configure \/ Deploy \/ ChangeRefs \/ ChangeSummary PROVE IInv'
<1>1. CASE Configure
  BY <1>1, Changed DEF Configure, IInv, TypeOK
<1>2. CASE Deploy
  BY <1>2, Changed DEF Deploy, IInv, TypeOK
<1>3. CASE ChangeRefs
  BY <1>3, Changed DEF ChangeRefs, IInv, TypeOK
<1>4. CASE ChangeSummary
  BY <1>4, Changed DEF ChangeSummary, IInv, TypeOK
<1> QED
  BY <1>1, <1>2, <1>3, <1>4

LEMMA StutterKeeps == ASSUME IInv, UNCHANGED vars PROVE IInv'
  BY SameKeeps DEF vars, IInv, TypeOK, world, local, server

LEMMA InitHolds == ASSUME Init PROVE IInv
<1>1. directory \in [Name -> {NoFile, OldContent} \cup Contents]
  BY DEF Init
<1>2. failures \in 0 .. MaxFailures /\ changes \in 0 .. MaxChanges
  BY BoundsAssumption DEF Init
<1>3. TypeOK
  BY <1>1, <1>2 DEF Init, TypeOK
<1> QED
  BY <1>3 DEF Init, IInv, ReadIsCurrent, FileIsWanted, SocketListens, Fresh

-----------------------------------------------------------------------------

(* What was read is current unless another run is due, in every reachable state.  *)
THEOREM AlwaysIInv == Spec => []IInv
<1>1. Init => IInv
  BY InitHolds
<1>2. IInv /\ [Next]_vars => IInv'
  <2> SUFFICES ASSUME IInv, [Next]_vars PROVE IInv'
    OBVIOUS
  <2>1. CASE Configure \/ Deploy \/ ChangeRefs \/ ChangeSummary
    BY <2>1, ChangeKeeps
  <2>2. CASE Reboot
    BY <2>2, RebootKeeps
  <2>3. CASE Run
    BY <2>3, StartKeeps, ReadConfigKeeps, LoadSysrootKeeps, DeleteKeeps, ReadRefsKeeps, ReadSummaryKeeps,
       GenerateKeeps DEF Run
  <2>4. CASE Serve \/ Quit
    BY <2>4, ServerKeeps
  <2>5. CASE UNCHANGED vars
    BY <2>5, StutterKeeps
  <2> QED
    BY <2>1, <2>2, <2>3, <2>4, <2>5 DEF Next
<1> QED
  BY <1>1, <1>2, PTL DEF Spec

(* The variables of eos-updater-avahi's runs keep their types.                   *)
THEOREM TypeCorrect == Spec => []TypeOK
<1>1. IInv => TypeOK
  BY DEF IInv
<1> QED
  BY <1>1, AlwaysIInv, PTL

(* A run of update_service_file that ends well leaves the service file as        *)
(* configuration, deployments and repository call for, unless they changed and     *)
(* another run is due or the change is none that the path unit watches for; and    *)
(* eos-update-server.socket listens once a run has left a service file.           *)
THEOREM SettledWanted == Spec => []SettledIsWanted
<1>1. IInv => SettledIsWanted
  BY DEF IInv, SettledIsWanted
<1> QED
  BY <1>1, AlwaysIInv, PTL

-----------------------------------------------------------------------------
(* The options of service files, for every value of every option.             *)

\* What was answered is what the options, which stay, are worth.
AnswersHold ==
  /\ options \in [Option -> Nat \cup {Unset}] /\ timestamp \in Int
  /\ checked \in {"no", "valid", "invalid"}
  /\ checked = "valid" => check_options(options)
  /\ checked = "invalid" => ~check_options(options)
  /\ generated = {"no"} \/ generated = Failures(options, timestamp)

LEMMA AlwaysAnswersHold == ClientSpec => []AnswersHold
<1>1. ClientInit => AnswersHold
  BY ArgumentsAssumption, TimestampsAssumption DEF ClientInit, AnswersHold
<1>2. AnswersHold /\ [ClientNext]_clientVars => AnswersHold'
  <2> SUFFICES ASSUME AnswersHold, [ClientNext]_clientVars PROVE AnswersHold'
    OBVIOUS
  <2>1. options' = options /\ timestamp' = timestamp
    BY DEF ClientNext, Check, GenerateFile, CleanupBegins, CleanupNext, CleanupFails, CleanupEnds,
           clientVars
  <2>2. CASE Check
    BY <2>1, <2>2 DEF Check, AnswersHold
  <2>3. CASE GenerateFile
    BY <2>1, <2>3 DEF GenerateFile, AnswersHold
  <2>4. CASE \/ CleanupBegins \/ CleanupEnds \/ CleanupFails
             \/ (\E n \in Name : CleanupNext(n)) \/ UNCHANGED clientVars
    <3>1. checked' = checked /\ generated' = generated
      BY <2>4 DEF CleanupBegins, CleanupEnds, CleanupFails, CleanupNext, clientVars
    <3> QED
      BY <2>1, <3>1 DEF AnswersHold
  <2> QED
    BY <2>2, <2>3, <2>4 DEF ClientNext
<1> QED
  BY <1>1, <1>2, PTL DEF ClientSpec

\* A size that get_and_check_bloom_size lets pass fits a record, and all four
\* records fit 278 bytes.
LEMMA SizesFit ==
  ASSUME NEW o \in [Option -> Nat \cup {Unset}], check_bloom_size(o)
  PROVE  check_record_sizes(o) /\ total_size(o) \in 29 .. 278
<1>1. bloom_size(o) \in 1 .. 250
  BY DEF check_bloom_size
<1>2. /\ record_sizes(o)[1] = 3 /\ record_sizes(o)[2] = 5 + bloom_size(o)
      /\ record_sizes(o)[3] = 11 /\ record_sizes(o)[4] = 5
  BY <1>1 DEF record_sizes
<1>3. total_size(o) = 28 + bloom_size(o)
  BY <1>1, <1>2 DEF total_size
<1>4. check_record_sizes(o)
  <2>1. \A i \in 1 .. 4 : i = 1 \/ i = 2 \/ i = 3 \/ i = 4
    OBVIOUS
  <2> QED
    BY <1>1, <1>2, <2>1 DEF check_record_sizes
<1> QED
  BY <1>1, <1>3, <1>4

\* The levels above the tightest have room for any valid options.
LEMMA RoomEnough ==
  ASSUME NEW o \in [Option -> Nat \cup {Unset}], check_options(o),
         size_level(o) \notin {CUSTOM, SUPPORT_FAULTY_HARDWARE}
  PROVE  validate_total_size(o)
<1>1. total_size(o) \in 29 .. 278
  BY SizesFit DEF check_options, check_bloom
<1>2. size_level(o) \in 2 .. 5 \/ size_level(o) = ABSOLUTELY_LAX
  BY DEF check_options, check_size_level, CUSTOM, SUPPORT_FAULTY_HARDWARE, ABSOLUTELY_LAX
<1>3. CASE size_level(o) = ABSOLUTELY_LAX
  BY <1>3 DEF validate_total_size
<1>4. CASE size_level(o) \in 2 .. 5
  <2>1. size_level(o) = 2 \/ size_level(o) = 3 \/ size_level(o) = 4 \/ size_level(o) = 5
    BY <1>4
  <2>2. Limit[2] = 400 /\ Limit[3] = 1300 /\ Limit[4] = 8900 /\ Limit[5] = 65535
    BY DEF Limit
  <2>3. total_size(o) <= Limit[size_level(o)]
    BY <1>1, <2>1, <2>2
  <2> QED
    BY <1>4, <2>3 DEF validate_total_size
<1> QED
  BY <1>2, <1>3, <1>4

\* eos_ostree_avahi_service_file_check_options and _generate agree on which options
\* are valid, for all of them.
THEOREM OptionsAgree == ClientSpec => []CheckAgrees
<1>1. AnswersHold => CheckAgrees
  <2> SUFFICES ASSUME AnswersHold, generated = Failures(options, timestamp)
               PROVE  /\ checked = "valid" => generated \subseteq {"timestamp", "total"}
                      /\ checked = "invalid" => generated # {}
    BY DEF AnswersHold, CheckAgrees
  <2>1. ASSUME checked = "valid"
        PROVE  generated \subseteq {"timestamp", "total"}
    <3>1. check_options(options)
      BY <2>1 DEF AnswersHold
    <3>2. check_record_sizes(options)
      BY <3>1, SizesFit DEF AnswersHold, check_options, check_bloom
    <3> QED
      BY <3>1, <3>2 DEF Failures, check_options
  <2>2. ASSUME checked = "invalid"
        PROVE  generated # {}
    <3>1. ~check_options(options)
      BY <2>2 DEF AnswersHold
    <3>2. \/ "version" \in generated \/ "bloom" \in generated
          \/ "port" \in generated \/ "level" \in generated
      BY <3>1 DEF Failures, check_options
    <3> QED
      BY <3>2
  <2> QED
    BY <2>1, <2>2
<1> QED
  BY <1>1, AlwaysAnswersHold, PTL

\* No record of valid options is too long, and all are too long together only for
\* a custom limit and for faulty hardware.
THEOREM LimitsSuffice == ClientSpec => []OnlyTightLimits
<1>1. AnswersHold => OnlyTightLimits
  <2> SUFFICES ASSUME AnswersHold, checked = "valid"
               PROVE  /\ "record" \notin generated
                      /\ "total" \in generated => size_level(options) \in {CUSTOM, SUPPORT_FAULTY_HARDWARE}
    BY DEF OnlyTightLimits
  <2>1. check_options(options)
    BY DEF AnswersHold
  <2>2. check_record_sizes(options)
    BY <2>1, SizesFit DEF AnswersHold, check_options, check_bloom
  <2>3. "record" \notin generated
    BY <2>2 DEF AnswersHold, Failures
  <2>4. ASSUME "total" \in generated
        PROVE  size_level(options) \in {CUSTOM, SUPPORT_FAULTY_HARDWARE}
    <3>1. ~validate_total_size(options)
      BY <2>4 DEF AnswersHold, Failures
    <3> QED
      BY <2>1, <3>1, RoomEnough DEF AnswersHold
  <2> QED
    BY <2>3, <2>4
<1> QED
  BY <1>1, AlwaysAnswersHold, PTL

-----------------------------------------------------------------------------
(* Cleaning up a directory.                                                  *)

(* While it is cleaned up, of the files of repositories only those are there      *)
(* that have yet to be looked at or were generated meanwhile.                  *)
CleanedSoFar ==
    cleanup = "going" =>
        \A n \in Name \ Others : directory[n] = NoFile \/ n \in listed \/ n \in added

ClientIInv == ClientTypeOK /\ options \in Options /\ CleanedSoFar

LEMMA FileOfOptions ==
    ASSUME NEW o \in Options
    PROVE  service_file(repository_index(o)) \in Name \ Others
<1>1. PICK n \in Name : IndexOf[n] = repository_index(o)
  BY IndexesAssumption
<1>2. repository_index(o) \in Indexes
  BY IndexesAssumption
<1>3. /\ service_file(repository_index(o)) \in Name
      /\ IndexOf[service_file(repository_index(o))] = repository_index(o)
  BY <1>1 DEF service_file
<1> QED
  BY <1>2, <1>3 DEF Others

LEMMA ClientInitIInv == ClientInit => ClientIInv
<1> SUFFICES ASSUME ClientInit PROVE ClientIInv
  OBVIOUS
<1> USE DEF ClientInit
<1>1. options \in [Option -> Nat \cup {Unset}] /\ timestamp \in Int
  BY ArgumentsAssumption, TimestampsAssumption
<1>2. directory \in [Name -> {NoFile, AnyContent}]
  <2>1. PICK names : directory = [n \in Name |-> IF n \in names THEN AnyContent ELSE NoFile]
    OBVIOUS
  <2> QED
    BY <2>1
<1>3. directory \in [Name -> {NoFile, AnyContent} \cup [refs : {Ref}, timestamp : Nat]]
  BY <1>2
<1> QED
  BY <1>1, <1>3 DEF ClientIInv, ClientTypeOK, CleanedSoFar

(* A file is generated, at most its own name comes to bear one.                *)
LEMMA GeneratedIsAdded ==
    ASSUME ClientIInv, GenerateFile
    PROVE  /\ ClientTypeOK' /\ CleanedSoFar'
           /\ \A n \in Others : directory'[n] = directory[n]
<1> DEFINE own == service_file(repository_index(options))
           content == [refs |-> Ref, timestamp |-> timestamp]
<1>1. /\ directory \in [Name -> {NoFile, AnyContent} \cup [refs : {Ref}, timestamp : Nat]]
      /\ timestamp \in Int /\ added \subseteq Name /\ own \in Name \ Others
  BY FileOfOptions DEF ClientIInv, ClientTypeOK
<1>2. /\ UNCHANGED <<options, timestamp, checked, cleanup, listed>>
      /\ generated' = Failures(options, timestamp)
  BY DEF GenerateFile
<1>3. generated' \subseteq {"no", "version", "bloom", "port", "timestamp", "record", "level", "total"}
  BY <1>2 DEF Failures
<1>4. CASE generated' = {}
  <2>1. directory' = [directory EXCEPT ![own] = content] /\ added' = added \cup {own}
    BY <1>4 DEF GenerateFile, generate
  <2>2. timestamp \in Nat
    <3>1. ~(timestamp < 0)
      BY <1>2, <1>4 DEF Failures
    <3> QED
      BY <1>1, <3>1
  <2>3. content \in [refs : {Ref}, timestamp : Nat]
    BY <2>2
  <2> HIDE DEF own, content
  <2>4. directory' \in [Name -> {NoFile, AnyContent} \cup [refs : {Ref}, timestamp : Nat]]
    BY <1>1, <2>1, <2>3
  <2>5. \A n \in Name : n # own => directory'[n] = directory[n]
    BY <1>1, <2>1
  <2>6. ClientTypeOK'
    BY <1>1, <1>2, <1>3, <2>1, <2>4 DEF ClientIInv, ClientTypeOK
  <2>7. CleanedSoFar'
    BY <1>1, <1>2, <2>1, <2>5 DEF ClientIInv, CleanedSoFar, Others
  <2> QED
    BY <1>1, <2>5, <2>6, <2>7 DEF Others
<1>5. CASE generated' # {}
  <2>1. UNCHANGED <<directory, added>>
    BY <1>5 DEF GenerateFile
  <2> QED
    BY <1>2, <1>3, <2>1 DEF ClientIInv, ClientTypeOK, CleanedSoFar, Others
<1> QED
  BY <1>4, <1>5

(* A name is looked at, and only its file may go.                              *)
LEMMA LookedAt ==
    ASSUME ClientIInv, NEW n \in Name, CleanupNext(n)
    PROVE  /\ ClientTypeOK' /\ CleanedSoFar' /\ cleanup' # "done"
           /\ \A m \in Others : directory'[m] = directory[m]
<1>1. /\ directory \in [Name -> {NoFile, AnyContent} \cup [refs : {Ref}, timestamp : Nat]]
      /\ listed \subseteq Name /\ cleanup = "going"
      /\ UNCHANGED <<options, timestamp, checked, generated, added>>
  BY DEF ClientIInv, ClientTypeOK, CleanupNext
<1>2. IsOurs(n) <=> n \notin Others
  BY DEF IsOurs, Others
<1>3. /\ directory' = IF IsOurs(n) THEN [directory EXCEPT ![n] = NoFile] ELSE directory
      /\ listed' = listed \ {n} /\ cleanup' = cleanup
  BY DEF CleanupNext
<1>4. directory' \in [Name -> {NoFile, AnyContent} \cup [refs : {Ref}, timestamp : Nat]]
  BY <1>1, <1>3
<1>5. /\ \A m \in Name : m # n => directory'[m] = directory[m]
      /\ n \in Others => directory' = directory
      /\ n \notin Others => directory'[n] = NoFile
  BY <1>1, <1>2, <1>3
<1>6. ClientTypeOK'
  BY <1>1, <1>3, <1>4 DEF ClientIInv, ClientTypeOK
<1>7. CleanedSoFar'
  <2> SUFFICES ASSUME NEW m \in Name \ Others
               PROVE  directory'[m] = NoFile \/ m \in listed' \/ m \in added'
    BY DEF CleanedSoFar, Others
  <2>1. directory[m] = NoFile \/ m \in listed \/ m \in added
    BY <1>1 DEF ClientIInv, CleanedSoFar
  <2> QED
    BY <1>1, <1>3, <1>5, <2>1
<1>8. \A m \in Others : directory'[m] = directory[m]
  BY <1>5 DEF Others
<1> QED
  BY <1>1, <1>3, <1>6, <1>7, <1>8

(* A step, and what the property says of it.                                  *)
CleansExactly ==
    /\ \A n \in Others : directory'[n] = directory[n]
    /\ cleanup' = "done" /\ cleanup = "going" =>
          \A n \in Name \ Others : directory'[n] = NoFile \/ n \in added'

LEMMA ClientStep ==
    ASSUME ClientIInv, [ClientNext]_clientVars
    PROVE  ClientIInv' /\ CleansExactly
<1>1. options' = options
  BY DEF ClientNext, Check, GenerateFile, CleanupBegins, CleanupNext, CleanupFails, CleanupEnds,
         clientVars
<1>2. CASE Check
  BY <1>2 DEF Check, ClientIInv, ClientTypeOK, CleanedSoFar, CleansExactly
<1>3. CASE GenerateFile
  <2>1. cleanup' = cleanup
    BY <1>3 DEF GenerateFile
  <2> QED
    BY <1>1, <1>3, <2>1, GeneratedIsAdded DEF ClientIInv, CleansExactly
<1>4. CASE CleanupBegins
  BY <1>4 DEF CleanupBegins, ClientIInv, ClientTypeOK, CleanedSoFar, CleansExactly
<1>5. CASE CleanupEnds \/ CleanupFails
  BY <1>5 DEF CleanupEnds, CleanupFails, ClientIInv, ClientTypeOK, CleanedSoFar, CleansExactly
<1>6. CASE \E n \in Name : CleanupNext(n)
  <2>1. PICK n \in Name : CleanupNext(n)
    BY <1>6
  <2>2. /\ ClientTypeOK' /\ CleanedSoFar' /\ cleanup' # "done"
        /\ \A m \in Others : directory'[m] = directory[m]
    BY <2>1, LookedAt
  <2> QED
    BY <1>1, <2>2 DEF ClientIInv, CleansExactly
<1>7. CASE UNCHANGED clientVars
  BY <1>7 DEF clientVars, ClientIInv, ClientTypeOK, CleanedSoFar, CleansExactly
<1> QED
  BY <1>2, <1>3, <1>4, <1>5, <1>6, <1>7 DEF ClientNext

LEMMA AlwaysClientIInv == ClientSpec => []ClientIInv
<1>1. ClientInit => ClientIInv
  BY ClientInitIInv
<1>2. ClientIInv /\ [ClientNext]_clientVars => ClientIInv'
  BY ClientStep
<1> QED
  BY <1>1, <1>2, PTL DEF ClientSpec

(* Every variable of a client and of the directory it uses keeps its type: a       *)
(* generated file has a time stamp that is a date.                             *)
THEOREM ClientTypeCorrect == ClientSpec => []ClientTypeOK
<1>1. ClientIInv => ClientTypeOK
  BY DEF ClientIInv
<1> QED
  BY <1>1, AlwaysClientIInv, PTL

(* eos_ostree_avahi_service_file_cleanup_directory leaves alone what is not of      *)
(* the form of a repository's file, and where it succeeds no file of that form is    *)
(* left but those generated meanwhile.                                        *)
THEOREM CleaningIsExact == ClientSpec => CleanupIsExact
<1>1. ClientIInv /\ [ClientNext]_clientVars => [CleansExactly]_clientVars
  BY ClientStep
<1> QED
  BY <1>1, AlwaysClientIInv, PTL DEF ClientSpec, CleanupIsExact, CleansExactly

=============================================================================
