-------------------------- MODULE FlatpakInstaller --------------------------
(***************************************************************************)
(* eos-updater-flatpak-installer: performs the actions of the autoinstall      *)
(* files that are new, and keeps in a key file how far it got in each.  It     *)
(* runs when a new deployment is booted and, as a fallback, once a day; each   *)
(* service is a process here.  Nothing keeps one from running while another    *)
(* does, and a reboot may end them between any two steps.                     *)
(***************************************************************************)
EXTENDS FlatpakActions

CONSTANTS
    Process,        \* the services that may run
    Once,           \* those of them that run once when the system boots
    Pulling,        \* those that pull flatpaks, too (--pull)
    Modes,          \* the modes they run in: "perform", "stamp", "check"
    Entries,        \* for each file, the entries it may be given
    Systems,        \* the systems there may be: [arch, locales]
    Installations,  \* what may be installed in the beginning
    MaxEntries      \* bound: entries of a file

ASSUME InstallerAssumption ==
    /\ Once \subseteq Process /\ Pulling \subseteq Process /\ Modes \subseteq {"perform", "stamp", "check"}
    /\ MaxEntries \in Nat
    /\ Entries \in [{Files[i] : i \in DOMAIN Files} ->
            SUBSET [object : BOOLEAN, filters : Seq([key : STRING, values : Seq(STRING)]),
                    action : STRING, serial : Int, ref : Ref, complete : BOOLEAN]]
    /\ Systems \subseteq [arch : STRING, locales : SUBSET STRING]
    /\ Installations \subseteq [Ref -> {"absent", "old"}]

VARIABLES
    directory,      \* the files of the deployment that is booted
    system,         \* its architecture and locales
    installed,      \* the flatpak installation
    counter,        \* flatpak-autoinstall.progress: file name -> serial number
    run,            \* for each process, the state of its run
    origin,         \* the installation as it was in the beginning (history)
    skipped,        \* flatpaks whose actions were counted but not performed (history)
    overtaken,      \* runs that another one has saved its progress during (history)
    clean,          \* nothing was done since a run that succeeded (history)
    dropped         \* entries filtered out in a run that succeeded (history)

environment == <<directory, system, origin>>
history == <<skipped, overtaken, clean, dropped>>
vars == <<environment, installed, counter, run, history>>

(* Of a run: what it has to do, how far it got, the files and serial numbers of *)
(* the dependencies it is done with, and what it left when an action failed.    *)
Idle == [pc |-> "idle", mode |-> "perform", actions |-> <<>>, progresses |-> <<>>, pulled |-> {},
         left |-> <<>>, loaded |-> <<>>, status |-> "none"]

Loaded == euu_flatpak_ref_actions_from_paths(<<directory>>, system)
Pending == euu_flatten_flatpak_ref_actions_table(
               euu_filter_for_new_flatpak_ref_actions(Loaded.table, counter))
Applied == euu_flatten_flatpak_ref_actions_table(
               euu_filter_for_existing_flatpak_ref_actions(Loaded.table, counter))

Init ==
    /\ directory = [f \in DOMAIN Entries |-> <<>>]
    /\ system \in Systems
    /\ installed \in Installations
    /\ origin = installed
    /\ counter = <<>>
    /\ run = [p \in Process |-> Idle]
    /\ skipped = {} /\ overtaken = {} /\ clean = FALSE /\ dropped = {}

-----------------------------------------------------------------------------
(* main.c, up to the actions.                                                *)

(* eufi_check_ref_actions_applied: an update leaves no trace to check.          *)
eufi_check_ref_actions_applied(actions) ==
    {i \in DOMAIN actions : CASE actions[i].type = "install" -> installed[actions[i].ref] = "absent"
                              [] actions[i].type = "uninstall" -> installed[actions[i].ref] # "absent"
                              [] actions[i].type = "update" -> FALSE}

(* Of a run that is over only the exit status remains.                          *)
Ended(p, status) == run' = [run EXCEPT ![p] = [Idle EXCEPT !.status = status]]

Check(p) ==
    /\ run[p].pc = "idle" /\ "check" \in Modes /\ p \notin Once
    /\ Ended(p, IF ~Loaded.ok THEN "failed"
                ELSE IF eufi_check_ref_actions_applied(Applied) = {} THEN "ok" ELSE "deltas")
    /\ UNCHANGED <<environment, installed, counter, history>>

(* A service that runs once when the system boots has not run yet, and performs. *)
(* A file may be unreadable, or the flatpak installation.                      *)
Start(p, mode) ==
    /\ run[p].pc = "idle" /\ mode \in Modes \ {"check"}
    /\ p \in Once => run[p].status = "none" /\ mode = "perform"
    /\ \/ /\ Loaded.ok
          /\ run' = [run EXCEPT ![p] = [Idle EXCEPT !.mode = mode, !.pc = "apply",
                        !.actions = IF p \in Pulling
                                    THEN euu_add_dependency_ref_actions_for_installation(Pending, installed)
                                    ELSE Pending]]
       \/ Ended(p, "failed")
    /\ overtaken' = overtaken \ {p}
    /\ UNCHANGED <<environment, installed, counter, skipped, clean, dropped>>

-----------------------------------------------------------------------------
(* eufi_apply_flatpak_ref_actions.                                           *)

Applying(p) == run[p].pc = "apply" /\ run[p].actions # <<>>

(* The next action is over; its serial number is the progress of its file.      *)
WithProgress(progresses, action) ==
    [f \in DOMAIN progresses \cup {action.source} |->
        IF f = action.source THEN action.serial ELSE progresses[f]]

Progress(p) ==
    LET action == Head(run[p].actions)
    IN  run' = [run EXCEPT ![p].actions = Tail(@), ![p].progresses = WithProgress(@, action),
                           ![p].pulled = IF action.dependency THEN @ \cup {<<action.source, action.serial>>} ELSE @]

(* perform_action: what is installed is updated instead, what is not is neither *)
(* updated nor uninstalled, and neither is an error.                         *)
Perform(p) ==
    LET action == Head(run[p].actions)
    IN  /\ Applying(p) /\ run[p].mode = "perform"
        /\ installed' = [installed EXCEPT ![action.ref] = Performed(action, @)]
        /\ clean' = FALSE
        /\ Progress(p)
        /\ UNCHANGED <<environment, counter, skipped, overtaken, dropped>>

Stamp(p) ==
    /\ Applying(p) /\ run[p].mode = "stamp"
    /\ Progress(p)
    /\ skipped' = skipped \cup {Head(run[p].actions).ref}
    /\ clean' = FALSE
    /\ UNCHANGED <<environment, installed, counter, overtaken, dropped>>

(* A transaction fails, or the remote is not the one of the collection: the      *)
(* run ends here, and saves how far it got.  (Mutants: with this action, or     *)
(* without anything.)                                                       *)
FailCounted(p) ==
    /\ Applying(p) /\ run[p].mode = "perform"
    /\ run' = [run EXCEPT ![p].pc = "load", ![p].actions = <<>>, ![p].left = run[p].actions,
                          ![p].progresses = WithProgress(@, Head(run[p].actions))]
    /\ UNCHANGED <<environment, installed, counter, history>>
FailUnsaved(p) ==
    /\ Applying(p) /\ run[p].mode = "perform"
    /\ Ended(p, "failed")
    /\ UNCHANGED <<environment, installed, counter, history>>
Fail(p) ==
    /\ Applying(p) /\ run[p].mode = "perform"
    /\ run' = [run EXCEPT ![p].pc = "load", ![p].actions = <<>>, ![p].left = run[p].actions]
    /\ UNCHANGED <<environment, installed, counter, history>>

Complete(p) ==
    /\ run[p].pc = "apply" /\ run[p].actions = <<>>
    /\ run' = [run EXCEPT ![p].pc = "load"]
    /\ UNCHANGED <<environment, installed, counter, history>>

(* update_counter: the key file is read, changed and written.                  *)
Load(p) ==
    /\ run[p].pc = "load"
    /\ run' = [run EXCEPT ![p].pc = "save", ![p].loaded = counter]
    /\ UNCHANGED <<environment, installed, counter, history>>

FilteredOut ==
    UNION {{<<f, directory[f][i].serial>> :
                i \in {i \in DOMAIN directory[f] : Read(directory[f][i], system) = "filtered"}} :
           f \in DOMAIN directory}

(* What the key file has of other files stays.  (Mutant: it is written anew.)     *)
KeyFileAnew(p) == run[p].progresses
KeyFile(p) ==
    [f \in DOMAIN run[p].progresses \cup DOMAIN run[p].loaded |->
        IF f \in DOMAIN run[p].progresses THEN run[p].progresses[f] ELSE run[p].loaded[f]]

(* Among the actions a run left, those with a dependency that it was done with:  *)
(* the progress is the dependency's, which has the serial number of the action.  *)
HalfDone(p) ==
    {i \in DOMAIN run[p].left : ~run[p].left[i].dependency /\
                                <<run[p].left[i].source, run[p].left[i].serial>> \in run[p].pulled}

Save(p) ==
    /\ run[p].pc = "save"
    /\ counter' = KeyFile(p)
    /\ LET ok == run[p].left = <<>>
       IN  /\ Ended(p, IF ok THEN "ok" ELSE "failed")
           /\ clean' = (p \notin overtaken /\ (clean \/ ok))
           /\ dropped' = IF ok THEN dropped \cup FilteredOut ELSE dropped
    /\ skipped' = skipped \cup {run[p].left[i].ref : i \in HalfDone(p)}
    /\ overtaken' = {q \in Process : run[q].pc # "idle"} \ {p}
    /\ UNCHANGED <<environment, installed>>

(* The key file cannot be read or written.                                    *)
SaveFails(p) ==
    /\ run[p].pc \in {"load", "save"}
    /\ Ended(p, "failed")
    /\ UNCHANGED <<environment, installed, counter, history>>

-----------------------------------------------------------------------------
(* The rest of the system.                                                   *)

Reboot ==
    /\ run' = [p \in Process |-> Idle] /\ overtaken' = {}
    /\ UNCHANGED <<installed, counter, skipped, clean, dropped, origin>>

(* A new deployment: a file has one more entry, with a larger serial number.    *)
Upgrade(f, entry) ==
    /\ Len(directory[f]) < MaxEntries
    /\ \A i \in DOMAIN directory[f] : directory[f][i].serial < entry.serial
    /\ directory' = [directory EXCEPT ![f] = Append(@, entry)]
    /\ Reboot
    /\ UNCHANGED system

(* The same deployment, after a crash or another locale was chosen.            *)
Restart ==
    /\ Reboot
    /\ system' \in Systems
    /\ UNCHANGED directory

Next ==
    \/ \E p \in Process : \/ Check(p) \/ Perform(p) \/ Stamp(p) \/ Fail(p) \/ Complete(p)
                          \/ Load(p) \/ Save(p) \/ SaveFails(p)
                          \/ \E mode \in Modes : Start(p, mode)
    \/ \E f \in DOMAIN Entries : \E entry \in Entries[f] : Upgrade(f, entry)
    \/ Restart

Spec == Init /\ [][Next]_vars

(* A service that does not run but once is run again and again; neither reading *)
(* the files, nor an action, nor saving the progress made, fails every time.     *)
LoadsForMore(p) == Load(p) /\ run[p].progresses # <<>>
SavesMore(p) == Save(p) /\ counter' # counter
Fairness ==
    \A p \in Process \ Once :
        /\ []<>(run[p].pc = "apply")
        /\ SF_vars(Perform(p)) /\ SF_vars(LoadsForMore(p)) /\ SF_vars(SavesMore(p))
        /\ WF_vars(Stamp(p)) /\ WF_vars(Complete(p)) /\ WF_vars(Load(p) \/ Save(p) \/ SaveFails(p))
FairSpec == Spec /\ Fairness

-----------------------------------------------------------------------------

(* Files kept with care: no flatpak is in two of them, or a dependency of one     *)
(* that is in any; every entry can be read and is wanted on all of the systems    *)
(* or on none, and no two serial numbers are so far apart that their difference  *)
(* overflows.                                                               *)
Autoinstalled == {entry.ref : entry \in UNION {Entries[f] : f \in DOMAIN Entries}}
OneFileForEach ==
    \A f, g \in DOMAIN Entries : \A a \in Entries[f], b \in Entries[g] : a.ref = b.ref => f = g
DependenciesElsewhere == \A r \in Autoinstalled : (Runtimes[r] \cup Extensions[r]) \cap Autoinstalled = {}
ReadTheSame ==
    \A f \in DOMAIN Entries : \A entry \in Entries[f] : \A s, t \in Systems :
        Read(entry, s) # "malformed" /\ Read(entry, s) = Read(entry, t)
SerialsClose ==
    \A f, g \in DOMAIN Entries : \A a \in Entries[f], b \in Entries[g] :
        is_valid_serial(a.serial) /\ is_valid_serial(b.serial) => a.serial - b.serial \in Int32
WellKept == OneFileForEach /\ DependenciesElsewhere /\ ReadTheSame /\ SerialsClose

(* What the files ask for, had they all been performed on the first boot.       *)
Target == Effect(Concatenated(Loaded.table), origin)

Position == -MAXINT - 1 .. MAXINT
Progresses(f) == \A file \in DOMAIN f : file \in DOMAIN Entries /\ f[file] \in Position
TypeOK ==
    /\ \A f \in DOMAIN directory : Len(directory[f]) <= MaxEntries
    /\ installed \in [Ref -> {"absent", "old", "new"}] /\ Progresses(counter)
    /\ overtaken \subseteq Process /\ skipped \subseteq Ref
    /\ \A p \in Process :
        /\ run[p].pc \in {"idle", "apply", "load", "save"} /\ run[p].mode \in Modes \cup {"perform"}
        /\ run[p].status \in {"none", "ok", "failed", "deltas"}
        /\ Progresses(run[p].progresses) /\ Progresses(run[p].loaded)

(* Wherever runs fail, are cut off, begin again or write over what another has     *)
(* saved, what is still to be done makes of every flatpak of the files what all  *)
(* actions in order would have made: an action may be repeated, none is         *)
(* forgotten.  (keep_only_new_actions and update_counter; not where an action    *)
(* was only stamped, or failed when a dependency of it was counted.)            *)
NothingForgotten == \A r \in Autoinstalled \ skipped : Effect(Pending, installed)[r] = Target[r]

(* After a run that failed, the action that failed is still to be done: the      *)
(* counter is that of the last action which succeeded (eufi_apply_flatpak_ref_  *)
(* actions' documentation).                                                 *)
FailedIsRetried(p) ==
    Save(p) /\ run[p].left # <<>> =>
        LET action == Head(run[p].left)
        IN  action.source \notin DOMAIN counter' \/ counter'[action.source] < action.serial

(* The progress of a file neither decreases nor is lost (the key file saves the  *)
(* most up to date serial number for each file).                              *)
ProgressNeverBack(p) ==
    Save(p) => \A f \in DOMAIN counter : f \in DOMAIN counter' /\ counter'[f] >= counter[f]

(* As long as nothing was done since a run that succeeded, and no action was     *)
(* counted without being performed, a check finds no deltas                    *)
(* (eufi_check_ref_actions_applied).                                         *)
CheckAgrees(p) == skipped = {} /\ clean /\ Check(p) => run'[p].status = "ok"

DependencyCounts(p) == Head(run[p].left).dependency \/ 1 \in HalfDone(p)

(* What the key file says never runs ahead of what was done and is what a check   *)
(* goes by, and falls back only by a run that another saved its progress during. *)
(* The action that failed is counted only if it is a dependency, or one of its   *)
(* own was performed.                                                       *)
ProgressIsRight ==
    [][\A p \in Process :
          /\ ProgressNeverBack(p) \/ p \in overtaken
          /\ FailedIsRetried(p) \/ p \in overtaken \/ DependencyCounts(p)
          /\ CheckAgrees(p)]_vars

(* Once the system is no longer restarted all the time, every flatpak of the      *)
(* files becomes what they ask for and remains so, though actions fail now and   *)
(* then and services run into each other (unless an action was skipped).         *)
EventuallyApplied ==
    <>[][~Restart]_vars => <>[](\A r \in Autoinstalled : r \in skipped \/ installed[r] = Target[r])

(* flatpak-autoinstall.d(5): of two files with conflicting actions the           *)
(* lexicographically later takes priority.                                    *)
LaterFileWins == clean /\ skipped = {} => installed = Target

(* flatpak-autoinstall.d(5): what is filtered out is never applied again, even    *)
(* if the property being filtered on changes.                                 *)
FilteredNeverApplied ==
    \A p \in Process : \A i \in DOMAIN run[p].actions :
        <<run[p].actions[i].source, run[p].actions[i].serial>> \notin dropped
=============================================================================
