----------------------------- MODULE Advertisement -----------------------------
(***************************************************************************)
(* eos-updater-avahi: a program that systemd runs at boot and when its path    *)
(* unit sees a change, and that makes the service file of the system's         *)
(* repository what configuration, deployments, refs and summary call for,      *)
(* reading one after the other while all of them may change.                 *)
(* With it, the socket and the service of eos-update-server.                 *)
(***************************************************************************)
EXTENDS ServiceFile, Sequences

CONSTANTS
    Deployed,    \* the lists of deployments there may be, the booted one's OS in each
    NoSystem,    \* what stands for them where OSTree is not used, or the sysroot is broken
    Missing,     \* the commit of a deployment, or the summary, that is not in the repository
    Corrupt,     \* a summary that is not well-formed
    OldFile,     \* eos-updater.service, of an older format
    OldContent,
    MaxChanges,  \* bound on the changes of what is read
    MaxFailures  \* bound on failures to read or write

ASSUME OldFileAssumption == OldFile \in Name /\ IndexOf[OldFile] = NoIndex
ASSUME FileAssumption == \E n \in Name : IndexOf[n] = 0
ASSUME BoundsAssumption == MaxChanges \in Nat /\ MaxFailures \in Nat

VARIABLES
    config,      \* AdvertiseUpdates, or that the file cannot be parsed
    deployments,
    refs,        \* the collection-refs of the repository
    summary,     \* the time stamp of its summary
    triggered,   \* the service is to be run
    pc,          \* the step its process is at
    advertise_updates, commit, refs_read, timestamp_read,  \* what it has read
    status,      \* how the last run ended
    socket,      \* eos-update-server.socket listens
    serving,     \* eos-update-server runs
    unseen,      \* history: something changed that no run was triggered for since
    refused,     \* history: the last run could not delete the service file
    changes, failures

world == <<config, deployments, refs, summary, unseen, changes>>
local == <<advertise_updates, commit, refs_read, timestamp_read>>
server == <<socket, serving>>
vars == <<directory, world, triggered, pc, local, status, server, refused, failures>>

NoCommit == [checksum |-> Missing, timestamp |-> 0]
file == service_file(0)

-----------------------------------------------------------------------------

(* The paths of eos-updater-avahi.path: refs of deployments, and configuration.  *)
(* Mutant: the configuration is not among them.                              *)
WatchedRefs == {"deployments"}

Watched == {"config", "deployments"}

Init ==
    /\ directory \in {[n \in Name |-> NoFile], [[n \in Name |-> NoFile] EXCEPT ![OldFile] = OldContent]}
    /\ config = "off" /\ deployments \in Deployed /\ refs = {} /\ summary = Missing
    /\ triggered = TRUE
    /\ pc = "idle" /\ status = "none"
    /\ advertise_updates = FALSE /\ commit = NoCommit /\ refs_read = {} /\ timestamp_read = 0
    /\ socket = FALSE /\ serving = FALSE
    /\ unseen = FALSE /\ refused = FALSE /\ changes = 0 /\ failures = 0

Changes(what) ==
    /\ changes < MaxChanges /\ changes' = changes + 1
    /\ triggered' = (triggered \/ what \in Watched)
    /\ unseen' = (what \notin {"config", "deployments"})
    /\ UNCHANGED <<directory, pc, local, status, server, refused, failures>>

(* The administrator edits the configuration.                                *)
Configure ==
    /\ Changes("config")
    /\ config' \in {"on", "off", "broken"} \ {config}
    /\ UNCHANGED <<deployments, refs, summary>>

(* A deployment, which ends with the refs of the deployments written anew.       *)
Deploy ==
    /\ Changes("deployments")
    /\ deployments' \in Deployed
    /\ UNCHANGED <<config, refs, summary>>

(* A pull adds a ref, or one is deleted.                                      *)
ChangeRefs ==
    /\ Changes("refs")
    /\ \E r \in Ref : refs' \in {refs \cup {r}, refs \ {r}} \ {refs}
    /\ UNCHANGED <<config, deployments, summary>>

(* The summary is written, deleted or damaged.                               *)
ChangeSummary ==
    /\ Changes("summary")
    /\ summary' \in (Timestamps \cup {Missing, Corrupt}) \ {summary}
    /\ UNCHANGED <<config, deployments, refs>>

(* The machine goes down, and when it is up again the service is run.           *)
Reboot ==
    /\ changes < MaxChanges /\ changes' = changes + 1
    /\ pc' = "idle" /\ triggered' = TRUE /\ unseen' = FALSE
    /\ socket' = FALSE /\ serving' = FALSE
    /\ UNCHANGED <<directory, config, deployments, refs, summary, local, status, refused, failures>>

-----------------------------------------------------------------------------

Fails == failures < MaxFailures /\ failures' = failures + 1

(* The service begins; what changes from here on runs it once more.              *)
Start ==
    /\ pc = "idle" /\ triggered
    /\ pc' = "config" /\ triggered' = FALSE /\ refused' = FALSE
    /\ UNCHANGED <<directory, world, local, status, server, failures>>

(* The process exits; systemd then starts the socket if there is a service file.  *)
Exit(s) ==
    /\ pc' = "idle" /\ status' = s
    /\ socket' = (socket \/ \E n \in Name : IndexOf[n] # NoIndex /\ directory'[n] # NoFile)
    /\ UNCHANGED <<triggered, world, serving>>

(* eus_read_config_file, by main.                                            *)
ReadConfig ==
    /\ pc = "config"
    /\ IF config = "broken"
         THEN UNCHANGED <<directory, local>> /\ Exit("bad configuration")
         ELSE /\ advertise_updates' = (config = "on")
              /\ pc' = "sysroot"
              /\ UNCHANGED <<directory, world, triggered, commit, refs_read, timestamp_read, status, server>>
    /\ UNCHANGED <<refused, failures>>

\* The deployments of the booted OS whose commit can be loaded.
Candidates(d) ==
    {i \in 1 .. Len(d.list) : d.list[i].os = d.os /\ d.list[i].checksum # Missing}

(* eos_updater_sysroot_get_advertisable_commit: the first of the newest.  None is   *)
(* found where the time stamps are all zero.                                  *)
advertisable(d) ==
    IF d = NoSystem \/ Candidates(d) = {} THEN NoCommit
    ELSE d.list[CHOOSE i \in Candidates(d) : \A j \in Candidates(d) :
                    \/ d.list[j].timestamp < d.list[i].timestamp
                    \/ d.list[j].timestamp = d.list[i].timestamp /\ i <= j]

(* Only of none of them, or of one that failed to load, is zero expected: where    *)
(* all loaded the assertion fails, and the process with it.                    *)
AssertionFails(d) ==
    /\ d # NoSystem /\ advertisable(d).timestamp = 0
    /\ \A i \in 1 .. Len(d.list) : d.list[i].os = d.os => d.list[i].checksum # Missing

(* What to advertise, and an old file deleted whatever it is; errors are ignored. *)
LoadSysroot ==
    /\ pc = "sysroot"
    /\ \/ /\ AssertionFails(deployments)
          /\ UNCHANGED <<directory, local, failures>> /\ Exit("aborted")
       \/ /\ \/ /\ ~AssertionFails(deployments) /\ UNCHANGED failures
                /\ commit' = IF advertisable(deployments).timestamp = 0 THEN NoCommit
                             ELSE advertisable(deployments)
             \/ commit' = NoCommit /\ Fails
          /\ directory' \in {directory, [directory EXCEPT ![OldFile] = NoFile]}
          /\ pc' = IF advertise_updates /\ commit' # NoCommit THEN "refs" ELSE "delete"
          /\ UNCHANGED <<world, triggered, advertise_updates, refs_read, timestamp_read, status, server>>
    /\ UNCHANGED refused

(* The policy is not to advertise.                                           *)
Delete ==
    /\ pc = "delete"
    /\ \/ delete(0) /\ Exit("ok") /\ UNCHANGED <<refused, failures>>
       \/ /\ directory[file] # NoFile /\ Fails
          /\ refused' = TRUE
          /\ UNCHANGED directory /\ Exit("failed")
    /\ UNCHANGED local

(* get_refs: no refs are an error.                                           *)
ReadRefs ==
    /\ pc = "refs"
    /\ \/ /\ refs # {}
          /\ refs_read' = refs /\ pc' = "summary"
          /\ UNCHANGED <<directory, world, triggered, advertise_updates, commit, timestamp_read, status, server, failures>>
       \/ /\ (refs = {} /\ UNCHANGED failures) \/ Fails
          /\ UNCHANGED <<directory, local>> /\ Exit("failed")
    /\ UNCHANGED refused

(* get_summary_timestamp.                                                    *)
ReadSummary ==
    /\ pc = "summary"
    /\ \/ /\ summary \in Timestamps /\ summary >= 0
          /\ timestamp_read' = summary /\ pc' = "generate"
          /\ UNCHANGED <<directory, world, triggered, advertise_updates, commit, refs_read, status, server, failures>>
       \/ /\ summary \in {Missing, Corrupt} \cup {t \in Timestamps : t < 0}
          /\ UNCHANGED <<directory, local, failures>> /\ Exit("failed")
    /\ UNCHANGED refused

(* The file is generated, or else deleted, errors of which are ignored.           *)
Generate ==
    /\ pc = "generate"
    /\ \/ generate(NoOptions, refs_read, timestamp_read) /\ Exit("ok") /\ UNCHANGED <<refused, failures>>
       \/ /\ Fails /\ delete(0) /\ Exit("failed") /\ UNCHANGED refused
       \/ /\ Fails /\ directory[file] # NoFile
          /\ UNCHANGED directory /\ Exit("failed") /\ refused' = TRUE
    /\ UNCHANGED local

-----------------------------------------------------------------------------

(* A client connects: systemd starts the server if there is a service file, and     *)
(* the server goes on if it may advertise.                                    *)
Serve ==
    /\ socket /\ ~serving /\ config = "on"
    /\ \E n \in Name : IndexOf[n] # NoIndex /\ directory[n] # NoFile
    /\ serving' = TRUE
    /\ UNCHANGED <<directory, world, triggered, pc, local, status, socket, refused, failures>>

(* No request has been made for a while.                                      *)
Quit ==
    /\ serving /\ serving' = FALSE
    /\ UNCHANGED <<directory, world, triggered, pc, local, status, socket, refused, failures>>

Run == Start \/ ReadConfig \/ LoadSysroot \/ Delete \/ ReadRefs \/ ReadSummary \/ Generate

Next ==
    \/ Configure \/ Deploy \/ ChangeRefs \/ ChangeSummary \/ Reboot
    \/ Run \/ Serve \/ Quit

Spec == Init /\ [][Next]_vars

FairSpec == Spec /\ WF_vars(Run)

-----------------------------------------------------------------------------

Contents == [refs : SUBSET Ref, timestamp : Nat]

TypeOK ==
    /\ directory \in [Name -> {NoFile, OldContent} \cup Contents]
    /\ config \in {"on", "off", "broken"} /\ deployments \in Deployed
    /\ refs \subseteq Ref /\ summary \in Timestamps \cup {Missing, Corrupt}
    /\ pc \in {"idle", "config", "sysroot", "delete", "refs", "summary", "generate"}
    /\ refs_read \subseteq Ref /\ timestamp_read \in Nat
    /\ status \in {"none", "ok", "failed", "bad configuration", "aborted"}
    /\ triggered \in BOOLEAN /\ advertise_updates \in BOOLEAN
    /\ socket \in BOOLEAN /\ serving \in BOOLEAN /\ unseen \in BOOLEAN /\ refused \in BOOLEAN
    /\ changes \in 0 .. MaxChanges /\ failures \in 0 .. MaxFailures

(* What the service file should have in it, if one should be there.             *)
Wanted ==
    IF config = "on" /\ advertisable(deployments).timestamp # 0
      THEN [refs |-> refs, timestamp |-> summary] ELSE NoFile

Readable ==
    /\ config # "broken" /\ ~AssertionFails(deployments)
    /\ Wanted # NoFile => refs # {} /\ summary \in {t \in Timestamps : t >= 0}

(* When a run has ended well and nothing has changed that would call for        *)
(* another, the service file is what configuration, deployments and repository   *)
(* call for, however they changed during the run; or none is there, after a       *)
(* failure to read them.                                                     *)
FileIsWanted ==
    pc = "idle" /\ ~triggered /\ ~unseen /\ status = "ok" =>
        directory[file] = Wanted \/ (failures > 0 /\ directory[file] = NoFile)

(* Whenever systemd has run the service the port is listened on if it is         *)
(* advertised, as the units order the socket after the service for.              *)
SocketListens ==
    pc = "idle" /\ ~triggered /\ directory[file] # NoFile => socket

(* What is left when all is quiet: the right file, and the port it names open.    *)
SettledIsWanted == FileIsWanted /\ SocketListens

(* The commit found is a newest one deployed of the booted OS.                  *)
NewestIsFound ==
    [][pc = "sysroot" /\ pc' \in {"refs", "delete"} /\ commit' # NoCommit =>
          LET d == deployments IN
          \E i \in Candidates(d) : /\ d.list[i] = commit'
                                   /\ \A j \in Candidates(d) : d.list[j].timestamp <= commit'.timestamp]_vars

(* Advertising that is switched off for good ends for good, whatever else          *)
(* changes, fails or reboots, unless the file cannot be deleted or the assertion   *)
(* fails before the file would be.                                           *)
EventuallyWithdrawn ==
    <>[](config = "off" /\ ~refused /\ ~AssertionFails(deployments)) => <>[](directory[file] = NoFile)

(* Without failures the service file comes to follow the changes that the path     *)
(* unit watches for, together with all others before them.                     *)
FollowsWatched == <>[](~unseen /\ Readable /\ failures = 0) => <>[](directory[file] = Wanted)

(* Through any sequence of changes the newest deployment decides what is            *)
(* advertised, and the file ends as it should be.                              *)
FileFollows == NewestIsFound /\ EventuallyWithdrawn /\ FollowsWatched

(* The man page: the program is run whenever the repository is updated.           *)
FollowsRepository == <>[](Readable /\ failures = 0) => <>[](directory[file] = Wanted)

(* The comment in update_service_file: the file is to be deleted on failure.       *)
FailureWithdraws ==
    pc = "idle" /\ status = "failed" => refused \/ directory[file] = NoFile

(* The assertion of eos_updater_sysroot_get_advertisable_commit.                 *)
AssertionHolds == status # "aborted"

(* The man page of eos-update-server.conf: with AdvertiseUpdates off the programs   *)
(* refuse to distribute updates.                                             *)
NotServedWhenOff ==
    config = "off" /\ pc = "idle" /\ ~triggered /\ status = "ok" => ~serving

=============================================================================
