# A verification project for eos-updater

eos-updater updates Endless OS: a daemon finds, downloads and deploys OSTree
commits, and programs around it decide when it does so, serve updates to the
local network and bring flatpaks up to date. This directory holds TLA+ modules
that model the parts of it whose correctness depends on the order of things,
the TLC configurations that check them and the proofs that TLAPS checks. Line
numbers below are of the sources under `src/`; `PROJECT.json` maps every
definition to the lines it stands for.

## 1. The system

| component | state it keeps | operations | talks to |
|---|---|---|---|
| **eos-updater** (`eos-updater/`): the daemon | D-Bus properties (State, ErrorName, UpdateID, ...), `EosUpdaterData` (finder results, cancellable, repository), one GTask; on disk the OSTree repository and sysroot | Poll, PollVolume, Fetch, FetchFull, Apply, Cancel; task callbacks; start, quit, loss of the bus name | clients over D-Bus; OSTree; Mogwai, the download scheduler, over D-Bus; flatpak |
| **eos-autoupdater** (`eos-autoupdater/`) | the stamp file, the poll-results file, its configuration, the step in progress | start (timer), StateChanged, name owner changes, step callbacks | the daemon over D-Bus |
| **flatpak installer** (`libeos-updater-flatpak-installer/`, `eos-updater-flatpak-installer/`) | per-list progress counters on disk | list, apply, check | flatpak installations, the deployed OS's action lists |
| **libeos-updater-util** | none of its own | parsing, squashing and filtering of flatpak actions; the configuration cascade; the bloom filter; checkpoints; OSTree helpers | used by all of the above |
| **eos-update-server**, **libeos-update-server** | pending requests, idle timer | HTTP requests, time-outs | the repository, clients on the LAN |
| **eos-updater-avahi** | the Avahi service files | start (triggered by the repository or the configuration changing) | Avahi |
| **eos-updater-ctl**, **-prepare-volume**, **-test-checkpoint** | none | one-shot commands | the daemon, the repository |

How they interact: the autoupdater (and GNOME Software, and `eos-updater-ctl`)
drive the daemon only through the D-Bus interface; the daemon's handlers run on
its main thread and hand the work to threads of GLib's task pool, which read
`EosUpdaterData` without a lock; the fetch thread asks Mogwai for permission;
the daemon pulls the flatpaks of the update, and the flatpak installer deploys
them on the next boot.

What is hard, by component, and what makes it correct:

* **daemon, main thread and workers**: the state property is the only mutual
  exclusion (`object.c:96`). Calls, callbacks and Cancel interleave with the
  workers at any point; a worker's result and a Cancel may cross; the process
  may be killed anywhere. Correct: one worker at a time; a Cancel ends exactly
  its own operation; what is announced as ready is complete on disk; what will
  boot is complete and was announced.
* **poll worker**: which refspec and which source to take an update from:
  branch, checkpoint and end-of-life redirections, and three fall-backs.
* **fetch worker**: permission, time limit, invalidation and cancellation of a
  scheduled download race; two fall-backs of the pull; the schedule entry must
  be given back whatever happens.
* **apply worker**: it can fail after the deployment is on disk.
* **autoupdater**: it follows the daemon through coalesced notifications, may
  find it in any state or gone, and must leave the stamp only after success.
* **flatpak installer**: crashes between an action and its progress counter;
  two services and `--pull` that share one counter file.
* **flatpak action lists**: pure list algorithms with an order that matters.
* **update server**: one main loop that counts requests to know when it may
  exit, while responses are streamed, clients leave and the repository changes.
* **configuration**: files are loaded when a query first comes to them, and some
  do not exist, cannot be read or break off.
* **bloom filter**: a block of memory that changes its owner, and must never
  answer no for what was put in.
* **avahi**: what is advertised is read in four places that change meanwhile, by
  a program that only some of the changes run.

The hazards, each at its line and with the properties aimed at it, are listed
in `PROJECT.json`.

## 2. The plan

1. `EosUpdater` - the daemon's D-Bus object, tasks and process - with
   `UpdaterInterface`, the abstract specification of the interface it
   implements, and `EosUpdaterProofs`. **Done.**
2. `ContentFetch` - the fetch worker in detail: scheduler, pulls, fall-backs,
   flatpaks, clean-up; liveness. Its abstract specification is the worker of
   `EosUpdater`, and `ContentFetchProofs` proves that it implements it. **Done.**
3. `MetadataFetch` - the poll worker's decisions: refspecs, checkpoints,
   rebases, the order of sources - and `CommitSizes`, the arithmetic of the
   sizes it publishes; both with proofs. **Done.**
4. `AutoUpdater` - the autoupdater composed with `UpdaterInterface`, with
   notifications, restarts of both sides and the files it keeps; with proofs.
   **Done.**
5. `FlatpakActions` and `FlatpakLists` (list algorithms against reference
   definitions) and `FlatpakInstaller` (progress counters and crashes), with
   proofs. **Done.**
6. `RepoFiles`, `UpdateServer`, with proofs, `ConfigFile`, `ServerConfig`. **Done.**
7. `BloomFilter`, `ServiceFile`, `ServiceFileClient`, `Advertisement`, with
   proofs. **Done.**
8. Left: a composition of `Advertisement` with `UpdateServer`, whose exit it now
   takes to be possible at any time.

## 3. The modules

### EosUpdater

The daemon. A handler or a callback runs to its end on the main thread and is
one action, named after the C function. A worker is cut into steps where it
reads what the main thread writes or changes the disk.

* `state`, `error`, `updateId` are the D-Bus properties; `signals` the
  StateChanged signals of the last step, in order (a step can emit two).
* `data` is what a poll leaves for the fetch in `EosUpdaterData`.
* `cancellable` is the *address* `EosUpdaterData.cancellable` holds and
  `cancelled` the set of triggered cancellables: a Cancel triggers the object
  and replaces it at once, while the task keeps the old one
  (`eos_updater_data_reset_cancellable`).
* `task[w]` is the GTask on thread `w`: its kind, the step it has reached
  (`phase`), its cancellable, its copy of UpdateID and what it has returned. A
  thread that has returned stays in phase "returned" until the main loop runs
  its callback. The pool has several threads, so that nothing but the state
  keeps two workers apart.
* `pulled`, `booted`, `deployed` are the disk: complete commits, the running
  system, the system of the next boot. They survive a crash. At the end of an apply
  and at boot `Prune` takes any of the commits that are not deployed away.
* `history` is read by no action: whether the operation in progress has been
  cancelled or has deployed.

Outside the daemon, and modelled from how it is used: GTask (a result is
replaced by Cancelled when the task's cancellable is triggered, whatever the
thread returned), GCancellable, and the staged deployment, which a reboot
makes the booted one or loses.

A call in a state its handler does not accept is answered with WrongState and
changes nothing, so it is no step of its own. `UPDATE_APPLIED` accepts no call.

### UpdaterInterface

What `com.endlessm.Updater.xml` promises, without threads, tasks or
cancellables: operations one at a time, from and to the states listed, and
Cancel. It is deliberately weaker than the description where the program
disagrees with it (section 6), and says so by what EndPoll allows.

### ContentFetch

One fetch (`content_fetch` in `fetch.c`) in detail, which `EosUpdater` models in
four steps, with Mogwai, the download scheduler.

* `pc` is where the thread is: asking the scheduler ("connecting",
  "scheduling"), in the loop of `check_scheduler` ("testing" its conditions,
  "iterating" the main context), in one of the pulls, pulling the flatpaks, in
  `unschedule_download`, or over. "crashed" is the NULL dereference of section 6.
* `slot` is what the scheduler has of this fetch and `entry` whether the thread
  holds an object for it; `inbox` are the notifications that have not been
  dispatched. They are dispatched only when the thread iterates its main context:
  in the wait (`WaitIterate`), where they set check_scheduler's variables, and in
  a pull of the OSTree commit (`PullIterate`), where other handlers are connected
  that cancel the pull. While flatpaks are pulled nobody listens.
* `cancelled` and `entryCancelled` are the two cancellables: the task's, and the
  one `content_fetch` makes once it has permission, which is triggered by the
  first, by a withdrawal and by an invalidation.
* `timer`, `download_now`, `timed_out`, `invalidated_error` are what the waiting
  loop tests, in the order of the code: a permission that arrives together with
  the time-out wins.
* `callFailed` is read by no action: a call to the scheduler that failed may
  have been carried out. Where it is the call that makes the entry, the thread
  has nothing to remove; where it is the one that removes it, the failure is only
  logged.

`D` maps a fetch to a daemon in the state FETCHING with this fetch as its one
task (`TheTask`, whose phase is `Phase`); what has been pulled counts when the
fetch returns, and a crash of the thread is one of the daemon's process.

### MetadataFetch

One poll (`metadata_fetch` in `poll.c`, and what it calls in `poll-common.c`),
which `EosUpdater` models by its outcome.

* `world` is chosen at first: the metadata of the commits (end-of-life rebases,
  checkpoints), which commit is booted and whether it is `lost` from the repository,
  until a pull brings it back. `config` is how the poll was called
  and configured.
* `where` is the class of sources that is asked ("offline", "online", "main" for
  the configured remote itself), `check` whether the booted branch or the one
  behind its checkpoint is tried: the two nested fall-backs of
  `metadata_fetch_internal`. `following` and `info` are the refspec the loop of
  rebases has come to and the update it has collected.
* What the sources offer is chosen anew at each question: nothing promises that
  two questions see the same tips. A commit is its timestamp.

### CommitSizes

`get_commit_sizes` and the part of `metadata_fetch_finished` that publishes its
sums, one object of the commit per step, with integers of any width:
`SATURATED_INCREMENT_GUINT64` and `CLAMP_GUINT64_TO_GINT64` are its operators
`SATURATED_INCREMENT` and `CLAMP`. Its variables and specification have names of their own
(`SizesSpec`), so that one module can prove about a whole poll.

### AutoUpdater

`eos-autoupdater` with the daemon as `UpdaterInterface` specifies it, another
client, the days, the stamp file and the poll results. The daemon's side is
reduced to `state`, `error`, the update and what is in progress; `HandleCall`,
`Finish` and `Emit` are its main loop, `pending` and `ahead` the idle source from
which GDBus emits all changed properties at once. The program's callbacks -
`initial_poll_idle_func`, `on_state_changed`, `do_update_step` and its callbacks,
the owner of the name going - each run to their end as one action; `main`'s
beginning and end are two.

### FlatpakActions, FlatpakLists, FlatpakInstaller

`FlatpakActions` has the functions of `flatpak-util.c` that decide what is done:
parsing an entry's filters, the directories that mask each other (`Tables`, one
directory after the other), sorting (GLib's merge sort, with positions of the
width of an int: `Minus32`), squashing (`Latest`: the action that remains for a
flatpak, after each action), splitting by progress, and adding dependencies
(`Lengthened`). What loops in the code is a recursive function of how far the loop
has come. `FlatpakLists` fills autoinstall directories entry by entry and
compares what the functions return with reference definitions. `FlatpakInstaller`
runs them: a process is a service that loads the counter file, performs one action
per step, and saves the counter; a new deployment changes the files, and a reboot
may come between any two steps. There are two services. One runs once when the
system boots (`Once`) and performs what has been pulled; the fallback
service runs by a timer, again and again, or by hand in any mode, and pulls
dependencies, too (`Pulling`). Nothing keeps them apart. A dependency has the file
and the serial number of the action it was found for, and its success is counted as
that: `pulled`, a history of the run, says which numbers were counted so.
`skipped` are the flatpaks for which an action was counted but not performed, by
the mode "stamp" or because it failed after a dependency of it was counted;
`overtaken` are the runs during which another one has saved its progress.

### RepoFiles, UpdateServer

`RepoFiles` is `repo.c`'s answer to a path: the set of answers the code may give
for each kind of path in a repository with some remote's mirrored refs.
`UpdateServer` is the process: its start with all the ways to fail
(`eos-update-server.c`), the callbacks of its main loop - `request_read_cb`
together with the handler, which libsoup calls next without returning to the
loop; `request_finished_cb`, `request_aborted_cb`, the reads of a stream, the
timeout and the quit file - and each client's connection. `world` is what a
behaviour is about: what each client asks for, what may be in the repository, and
the options and surroundings of a start. libsoup and systemd's socket activation
are external.

### ConfigFile, ServerConfig

`ConfigFile` is `EuuConfigFile`: `key_files` is the prefix of the paths that has
been loaded, `disk` what is there, which an administrator may edit. `Holder` is
the file that answers for a key, an error, or the end of all files.
`ServerConfig` is `eus_read_config_file` as queries to it, for the server and
for eos-updater-avahi; in some behaviours another program queries instead, any keys
in any order (`OtherProgram`), and an administrator edits (`Administrator`).

### BloomFilter

`ostree-bloom.c`, with the memory it manages. `blocks` are the blocks, which
belong to a mutable filter or to a GBytes that filters and callers (`held`)
share; `filters` the structures with their own counts; `inserted` is a history.
`Copy` is what makes the promise worth something: the bytes travel to another
computer, which loads them.

### ServiceFile, ServiceFileClient, Advertisement

`ServiceFile` has the operations of `avahi-service-file.c` on the directory, and
its checks with their sizes. `ServiceFileClient` calls them with any options and
cleans up. `Advertisement` is `eos-updater-avahi`: `pc` is where
`update_service_file` has got to, `advertise_updates`, `commit`, `refs_read` and
`timestamp_read` what it has read so far, `triggered` what systemd remembers of
the path unit. The socket's condition and the start of the server are in it as
the units and `eos-update-server`'s `main` state them.

### EosUpdaterProofs, ContentFetchProofs, MetadataFetchProofs, AutoUpdaterProofs, FlatpakProofs, UpdateServerProofs, BloomFilterProofs, AdvertisementProofs

The proofs, section 5.

## 4. The runs

One run per module that has behaviours, each with its safety properties and its
liveness together, under `FairSpec` where there are liveness properties. No run
uses symmetry with liveness; only `bloom_filter`, which has none, uses it.

* `daemon` (`MCEosUpdater.cfg`): safety; `InterfaceSpec`, that the daemon
  implements `UpdaterInterface` under the mapping in `EosUpdater` (the
  operations in progress are the kinds of the live tasks, and cancelled means
  that a live task's cancellable is triggered); and that cancelled operations
  end, as an apply does, and that a fetch that need not ask the scheduler, or has
  a time limit to wait for it, comes to its download or ends. Three commits on two branches (an update, an update of the
  update, and a change of branch); two threads, since a second worker is what
  must not happen; three cancellable addresses: one in each task and a new one.
* `fetch` (`MCContentFetch.cfg`): a fetch with every order of grants,
  withdrawals, invalidations, time-outs, cancellations and failures;
  `FetchRefines`, that each of its steps is one the daemon's worker may take, so
  that what `daemon` shows with the short worker holds with the long one; that a
  download no longer permitted stops, a cancelled fetch ends wherever it is, and
  a fetch with a time limit does not wait for ever.
* `autoupdater` (`MCAutoUpdater.cfg`): every interleaving of the program with the
  daemon, under each `LastAutomaticStep`, with one call of another client, crash
  of either process or failing write at any point. It decides on an update by the
  results of its own poll or by those of whoever found it, respects the delay of
  user visible updates, puts its next run into the configured window, writes the
  stamp only when the configured steps were done, and ends.
* `poll` (`MCMetadataFetch.cfg`): every world of six commits on three branches in
  which a checkpoint and a rebase can follow each other; the poll offers no
  downgrade, crosses no checkpoint that is not booted, tries the booted branch
  first, passes on results that fit what it announces, reports a cancellation as
  one, and ends.
* `sizes` (`MCCommitSizes.cfg`): integers of a few bits, so that sums overflow the
  unsigned width, only the signed one, or neither.
* `lists` (`MCFlatpakLists.cfg`): the functions on all contents of the
  directories up to a size: one directory with up to three actions on flatpaks
  that share a runtime and have an extension, two with up to two entries with
  filters and faults that may mask each other.
* `installer` (`MCFlatpakInstaller.cfg`): the boot service and the fallback
  service, interleaved, in every mode, for two files on different flatpaks, one of
  an application with a runtime that the fallback service pulls. No action is
  forgotten, however the services overwrite each other's counter file;
  the progress falls back only by a run during which another one has saved, and the
  action that failed is counted only if a dependency was; checking agrees with
  performing; and runs that fail now and then still converge.
* `update_server` (`MCUpdateServer.cfg`): four worlds. In `MCTiming` a stream, a
  plain file and the timeouts race, in `MCStreams` two streams; in `MCRepository`
  one client asks for every kind of path of a repository that changes; in
  `MCStarts` starts fail in every way. Requests are counted exactly, the process only exits when idle and does when it is,
  every request that is read ends, a successful response is whole, mirrored refs
  are found, and nothing touches a message after its end.
* `server_config` (`MCServerConfig.cfg`): a key is answered alike throughout, the
  first file that has it wins unless one failed, and what is read for the server
  is complete with distinct indexes, for six contents of each file and an
  administrator who edits one. `OtherProgram` asks for any keys in any order.
* `bloom_filter` (`MCBloomFilter.cfg`): two filters, two blocks, two elements; all
  orders of making, filling, sealing, loading, copying and letting go; what was
  put in is found.
* `service_file` (`MCServiceFile.cfg`): 6,480 dictionaries of options, each option
  missing, at its limits and beside them: checking and generating agree. Cleaning
  up touches only the updater's files, and leaves none of them.
* `advertisement` (`MCAdvertisement.cfg`): what the program leaves is what is
  wanted, however much changed while it ran; the socket listens; the newest
  commit is found; advertising that is off for good ends for good, and what the
  path unit watches is followed.

Fairness of the daemon: the main loop dispatches a callback that is queued
(`MainLoop`), a thread asks the scheduler and comes out of the wait when its time is
over or it is cancelled (calls over D-Bus are answered or time out), the steps of an
apply end, which only use the disk, and a poll or a download ends if it is
cancelled. Nothing is assumed of a poll or a download that is not cancelled: the
network may never answer, and branches that redirect to each other keep a poll
going for ever (`LoopsIgnored`, section 6). Nothing is assumed of clients, of the
scheduler (`Scheduler` is not fair), or of the daemon being restarted.

Fairness of a fetch: the thread goes on (`Steps`: calls over D-Bus are answered
or time out, and the loop sleeps only while no source is ready), sources that are
ready are dispatched while a pull iterates the context (`PullIterate`), a
download whose cancellable is triggered gives up, and time passes (`timeout_cb`).
A download that is not cancelled may last for ever, and the scheduler may never
say anything.

Fairness elsewhere: the poll's thread goes on, where no rebases lead in a circle.
`RunEnds` supposes more than the daemon promises: that the operations the
autoupdater has begun end, since it calls without a time limit and waits as long as
they take. The fallback service is started again and again by its timer, and comes
to its actions again and again; an action that is tried again and again, and a
save of progress made, some time succeeds (strong fairness, since a reboot or the
other service may disable a step each time). Nothing is assumed of the boot
service, which may be cut off or fail each time. In the server, time passes and what it makes ready
is dispatched (`Timing`), and for each client a read that has begun ends and
libsoup writes to it or gives it up (`Answering`), which supposes that a client
reads or leaves; nothing else ends a request that is being answered, since no
timeout applies to it. systemd runs the service it was triggered to run and the
process goes on; nothing is assumed of reboots and changes but that they are
finitely many within the bound.

Every property has a mutant in `PROJECT.json`: a faulty variant of a definition,
written beside it in the module, that breaks it.

## 5. The proofs

`EosUpdaterProofs` proves for any sets of commits, threads and cancellables (the
one assumption is that NULL is none of them):

* `Invariance`: the inductive invariant `IInv`. The properties alone are not
  inductive. `ReadyIsPulled` needs to know what a task that has returned without
  error has achieved, and `DeployedIsPulled` what an apply has done in its phase
  "refs" (`TaskConsistent`); that a Cancel reaches the right task needs the
  relation between the address the daemon holds, the one the task holds and the
  triggered ones (`CancelConsistent`); and both need that no worker outlives its
  process (`StoppedIsBlank`, `OneWorker`).
* from it: `TypeCorrect`, `MutualExclusion`, `ReadyUpdateComplete`,
  `ResultsOfUpdate`, `BootIsComplete`, and the action properties
  `CancelIsHonoured`, `NoOtherCancel`, `SharedDataIsStable`,
  `DeploysWhatIsAdvertised`;
* `Refinement`: `Spec => InterfaceSpec`, from lemmas that say which interface
  action each daemon action is (a worker's steps are stutters).

The actions fall into groups - a handler starts a task (`StartPreserves`), a
worker steps (`StepPreserves`), a callback ends a task (`EndPreserves`), the
process ends (`ProcessEndsPreserves`) - and the lemmas per action only show
which group an action is in.

`ContentFetchProofs` proves for any number of notifications and flatpaks:

* `Invariance`: `IInv`. `EntryGivenBack` rests on where the thread holds an
  entry (`EntryHeld`). `WithdrawalNotLost` is about the moment between the last
  iteration of the wait, whose handlers go, and the first of the pull, whose
  handlers come: it needs that the wait will have heard the scheduler's last word
  (`WithdrawalHeard`) - so that an entry found granted at the test and withdrawn
  since has its "stop" still undispatched (`StopIsWaiting`) - and that nothing
  but a drop invalidates (`NoticesSent`). `Outcome`, what a fetch will return is
  what it came to, is for the refinement.
* from it: `TypeCorrect`, `GivesEntryBack`, `NoWithdrawalLost`;
* `Refinement`: `Spec => FetchRefines`, with one lemma per way a step of the
  fetch shows in the daemon: the scheduler asked or not, the permission, the
  return from the wait, the pull, the cancellation, the crash. All other steps
  stutter (`Stutter`).

`MetadataFetchProofs` proves for any commits, branches, metadata and
configurations, whatever the sources offer at each question:

* `Invariance`: `IInv`. An offer is right if what has been collected is about the
  branch the search has come to (`InfoIsFound`, `ResultsAreOfPlace`), and
  `CheckpointIsBooted` needs to know how it came there (`PlaceIsAllowed`): by
  rebases from the booted branch, or by rebases from the checkpoint of the booted
  commit after the booted branch had no update (`NoFixes`). The difficulty is that
  rebases may lead back: the search then pulls the booted branch again, and
  `NoFixes`, which speaks of its newest commit, may cease to hold. It is not needed
  any more, since what is found there crosses nothing.
* from it: `PollType`, `OffersFit`, `NeverDowngrades`, `CheckpointsAreBooted`. Unlike
  the run, the proofs do not exclude rebases that lead in a circle.

Of `CommitSizes` it proves for every width of the integers and every commit that
the sums saturate, that what is published are the exact sizes clamped, of the
update that is announced, and that the download is never larger than the update.
`NewWithinFull` is not inductive, as saturation may hide which sum is larger: the
invariant adds the same order of the exact sums (`ExactOrdered`).

`AutoUpdaterProofs` proves for any updates, delays, interval and last step, and any
number of days, calls of other clients and faults:

* `Invariance`: `IInv`. The program knows the daemon by notifications that are
  coalesced and late, so the invariant speaks of the sequence of what it has seen
  and will see (`Chained`): an update is told of only after a poll that can be
  seen, or it is the one told of before (`Follows`). The last in that sequence is
  what the daemon emitted last (`ViewsFollow`), and what it has not emitted yet
  follows that (`DaemonFollows`). From there, what is known of the poll results is
  of the update last seen (`KnownFollows`), and a user visible update that is told
  of was found no later than its results say (`FoundBefore`). `QuitAtRest` says
  where the main loop is quit.
* from it: `TypeCorrect`, `ResultsOfUpdate`, and the action properties
  `DelayIsRespected` and `StampIsDone`.

`FlatpakProofs` proves of `FlatpakLists`, for any number of directories with any
files and entries, on any system:

* `ReadsRight`: each file is read from the first directory that has it, of its
  entries exactly those that all filters keep, and all of them or none;
* `OneForEachRight`: whatever the serial numbers, one action remains for each
  flatpak, and what remains does what all actions together do;
* `SquashRight` and `SplitRight`: that what remains of a file stays in its order,
  and that nothing below a progress counts as new. Both suppose `SerialsNear`, that
  no two valid serial numbers of the entries differ by more than an int holds: the
  sort subtracts them, and with others it does not sort (section 6);
* `DependenciesRight`: whatever is installed, each dependency is put before the
  flatpak it is installed or updated for, and after the one it is uninstalled with.
  This supposes `SerialsNear` again, and `DependenciesApart`: that no entry names
  what a flatpak named by another needs, that an extension belongs to one flatpak,
  and that a dependency needs nothing itself. The run's entries are so (an
  assumption of `MCFlatpakLists`), and none of it can be left out, as TLC shows: a
  runtime that has an entry of its own may come after what needs it
  (`DependenciesFirst`, section 6), an extension that two flatpaks share cannot both
  go after one and come before the other, and what a dependency needs has the
  same position as the dependency itself;
* `ListsTypeCorrect`.

The variables only hold the files' contents, and the invariant (`Content`) is just
that these are sequences of entries; the work is in the functions. These are
recursive: the sort on the halves of a list, the tables on the directories, what
remains and what a list does on its actions. That such a function exists, and
what it computes, is shown by induction on a number, and an induction on a number
by taking the least one that is not in a set (`Smallest`, `Induction`,
`Recursion`, from well-foundedness): these speak of sets and functions, since a
theorem about all formulas is out of the provers' reach. The merge sort is shown
to rearrange any list, and to put in order one whose positions do not overflow,
equal elements staying in their order (`Sorting`): a merged list takes its elements from both halves
one after the other, by a count that grows by one or not at all (`TakenGrows`).
The effect of squashing is an invariant of the loop: after each action, the one
that remains for a flatpak does to it what all actions so far do (`OneMore`).
As dependencies join a list, action after action, its invariant (`AllPlaced`) is
that every action is on another flatpak, that serial numbers do not decrease, that
each element is one of the actions so far or a dependency of one, that what is
needed is in its place, and that nothing is missing: a dependency is left out only
if one before it serves. The list is then sorted once more, by a comparison that
takes dependencies into account and is not transitive (an installation and an
uninstallation with one number are equal, whichever of them is a dependency), so
that what is true of sorted lists does not apply. What remains true of this
merge sort does: an element that nothing before it is greater than stays behind all
of these (`StaysBehind`). Actions that are no uninstallations, and dependencies
that are uninstalled, are such elements (`NotOvertaken`).

Of `FlatpakInstaller`, it proves for any number of files with any entries:

* `NothingIsForgotten`: `NothingForgotten`, whatever number of services run at the
  same time, and wherever their runs fail or are cut off. Two services may put
  back each other's key file, and then actions are repeated, which does no harm;
* `ProgressRight`: `ProgressIsRight`, for any number of services of either kind;
* `TypeCorrect`, for any number of services.

They suppose that the files are `WellKept`, as the files of the run are (an
assumption of `MCFlatpakInstaller`, which TLC evaluates). Each part is needed: of
two files with actions on one flatpak the last to be performed wins, which depends
on when each was (`LaterFileWins`, section 6); an entry that is wanted in one locale and
not in another is performed or counted as done depending on when the locale is
changed (`FilteredNeverApplied`, section 6); a malformed entry keeps its file from
being read, and with it what the files ask for from being defined; serial
numbers too far apart are not sorted (`OrderedBySerial`, section 6); and a
dependency that has an entry of its own may be put behind what needs it, and
be counted there for another action. Dependencies are not what the files ask for:
the theorem is about the flatpaks with entries (`Autoinstalled`), without those that
are `skipped`.

The properties are not inductive. What is still to be done is defined from the key
file, but a run in progress holds a list that was made from an older one, and
may yet write progresses that belong to a still older one. The invariant `NothingLost`
therefore says the same of every place a progress may come from: starting from no
progress at all, from the key file, from what a run has counted and from the key
file it has read, the new actions bring the installation as it is to the target;
and so does what is left of a run's list. All of these hold at once because a list
may be begun anew from any earlier action: what it makes of a flatpak is decided
by its last action that is not an update (`Makes`), and performing an action
twice, or an earlier one again before it, changes nothing in the end.
`Progressive` is the order of all this for each run that is not overtaken: the key
file is behind what the run has counted, that is behind its list and the action that
failed, and every action that decides about a flatpak and is new is in the list;
what was performed before a run that succeeded is in the installation until
something else is performed. A save overtakes every other run in progress, so that
what it writes need not fit what they hold. A run with dependencies comes twice to
the same progress, of the dependency and of the action: `NothingLost` allows an
action in a list that is counted already if one of its dependencies was (`Unpassed`),
and only what fails at such a point is lost, and `skipped`. The lists are treated as
the sets of their actions throughout: splitting at a progress is then a
comparison, and squashing a choice.

`UpdateServerProofs` proves for any finite set of clients, any repository, paths and
options:

* `RequestsAreCounted`: `PendingIsExact`. The invariant adds that every client has
  a connection in some phase (`Shape`). The count is the cardinality of the set of
  requests read and not ended, and each callback is shown to change this set by
  the one request it is about.
* `ExitsOnlyIdle`: `QuitOnlyIdle`, under the condition `TimeoutsFit`, that the timeout
  in microseconds fits a gint; without it the property is false (section 6). The
  invariant equates `quiet`, the time since the last request was read or ended, with
  the `last_request_time` the timeout compares with (`Measured`).
* `ResponsesRight`: `ResponsesAreRight`. Each step of the process is one of a few
  moves of one connection, or leaves them alone (`Moves`), and each of these keeps
  a connection's message well formed (`WellFormed`): what it has promised is what
  its handler has to send. That a mirrored ref is found exactly if its mirror or a
  remote of its collection has it is a fact about `RepoFiles`' search of the
  remotes, shown by the first one that has it.
* `QueriesAreRight` of `ServerConfig`: `AnswersHold`, for any hierarchy of files,
  any edits and any order of queries. An answer is what the first file says among
  those read so far that has the key (`Answers`), which reading more files does not
  change; while nothing has failed and nothing was edited, what was read is what is
  there (`ReadAsIs`). For `eus_read_config_file` the invariant follows the groups
  it has taken (`RepositoriesAreRead`). `ConfigTypeCorrect` is its type invariant.

`BloomFilterProofs` proves for any number of filters, blocks and elements, any
sizes and any hash function that what was inserted is found, that nothing
dangles, that the counts are exact and that bytes given out stay. The invariant
adds that every element recorded has its bits in the block (`NoFalseNegatives`
alone says nothing of a block whose filter is gone, which a caller may load
again). The counts are cardinalities, and each operation is shown to change the
set of readers by the one filter it is about.

`AdvertisementProofs` proves for any refs, deployments, time stamps and any number
of changes and failures that a run which ended well has left what is wanted,
unless another run is due or what changed is not watched, and that the socket then
listens. `SettledIsWanted` speaks of idle moments only; the invariant adds, for
each step of the run, that what was read so far is what there is unless a change
has triggered another run (`ReadIsCurrent`).

Of `ServiceFileClient` it proves that checking options and generating files by them
agree for every dictionary, and that valid options break none of the limits but
the custom one and that of faulty hardware. The tests call those cases "likely
impossible?" (`libeos-updater-util/tests/avahi-service-file.c:351-360`): they are
impossible. `CleaningIsExact` is about a clean-up of a directory in which files are
generated meanwhile: of the updater's files, only those are there that have yet to
be looked at or are new (`CleanedSoFar`). `ClientTypeCorrect` is its type invariant.

Only model-checked, of what the runs check:

* liveness (`OperationEnds`, `WithdrawnDownloadStops`, `FetchEnds`, `RunEnds`,
  `PollEnds`, `EventuallyApplied`, `ServingEnds`, `FileFollows`): arguments from
  fairness need ENABLED, which the prover does not support. Some of these
  have a safety part (`PollEnds`, that a cancellation is reported; `FileFollows`,
  that the newest deployment is found), which is only checked with them.

Type correctness is a theorem for every module that states a type invariant, but
`UpdateServer` (the proofs need only its connections' shape), whose `TypeOK` holds
under its configuration.

## 6. Where the program and its description disagree

Each of these is a property in the module named, stated from the line of the
documentation quoted, which the runs do not check. Adding it to the module's cfg
makes TLC show the behaviour; what else has to be changed there, if anything, is
said in brackets. (`INVARIANT`, unless marked as a `PROPERTY`.)

EosUpdater:

* `NoUpdateNoId`: `metadata_fetch_finished` only goes to READY when a poll finds
  nothing, and leaves UpdateID as an earlier poll set it (`poll-common.c:1411`).
  `com.endlessm.Updater.xml:134-135`: "or the empty string if no update is
  available."
* `ReadySignalMeansReady`: a failed poll emits StateChanged(READY) before
  StateChanged(ERROR) (`poll-common.c:1411`), where `com.endlessm.Updater.xml:26-29`
  has one or the other.
* `CancelledApplyNotDeployed`, `FailedApplyNotDeployed`: an apply that is cancelled
  (`apply.c:401`), or fails to delete the old ref (`apply.c:332`), after its
  deployment is written ends in Error although the update will boot. Comment at
  `apply.c:351-352`: "Cleaning up after update should be non-fatal, since we've
  already successfully deployed the new OS".

ContentFetch:

* `BrokenDeltaSurvived`: `repo_pull_from_remotes` frees an error (`fetch.c:277`)
  and prints its message (`fetch.c:281`), so that the pull that was to be tried
  again ("will try again, this time without static deltas", `fetch.c:279-280`)
  takes the daemon down instead. The other pull, `content_fetch_old`, has a
  fall-back of its own without this fault.
* `PermissionForInternet`: offline results need no permission (`fetch.c:925`), but
  if their pull fails the fetch falls back to the configured remote, still without
  asking (`fetch.c:1105`). `fetch.c:931-932`: "fail safe, and don't download on a
  potentially metered connection."

MetadataFetch:

* `LoopsIgnored` (a `PROPERTY`) [`Worlds <- MCLoops`]: commits whose branches
  redirect to each other keep a poll going for ever (`poll-common.c:933`).
  `poll-common.c:924-925`: "unless the rebase is a loop; ignore that".
* `FailedPollIsError`: a poll whose sources all fail says that there is no update
  (`poll-common.c:1187`). `com.endlessm.Updater.xml:27-29`: "If there is an error
  checking for an update, it will transition to the `Error` state."
* `FailedSourcesReported`: a finder that fails to start leaves an array whose
  length still counts its terminator (`poll.c:237`), so that "All configured update
  sources failed to initialize." (`poll.c:631`) is never said.

AutoUpdater:

* `SuccessMeansPolled` (a `PROPERTY`): with only the first step configured, a run
  that finds an update available ends well without polling (`main.c:553`).
  `eos-autoupdater.8:93-95`: "either polled for updates, or determined not to based
  on policies".
* `DelayCountsFromSight` (a `PROPERTY`): a failed poll makes the program forget
  when it first saw an update, and its delay starts anew (`main.c:638`).
  `eos-autoupdater.conf.5:68-71`: "this number of days since a user visible update
  was seen".

FlatpakLists:

* `FilesAreConcatenated`: actions are sorted by serial number over all files
  (`flatpak-util.c:1422`). `eos-updater-flatpak-autoinstall.d.5:33`: "concatenating
  their sorted contents to each other".
* `OrderedBySerial` [`Directories = {1}`, `Candidates <- MCFarApart`, `Computers <-
  MCOneSystem`, `MaxCandidates <- MCTwoEntries`, `Ref = {"app", "game"}`, `Runtimes`
  and `Extensions <- MCUnrelated`]: serial numbers are compared by a difference
  that overflows (`flatpak-util.c:524`). `flatpak-util.c:1345`: "ordered by the
  order key in each remote ref action".
* `DependenciesFirst` [as before, but `Candidates <- MCListedRuntime`, `Ref = {"app",
  "runtime"}`, `Runtimes <- MCRuntime`, `Files <- MCOneFile`]: a runtime with a
  later action of its own comes after what needs it (`flatpak-util.c:1977`).
  `flatpak-util.c:1882`: "dependencies will be added before the original ref action".

FlatpakInstaller [`[][\A p \in Process : ...(p)]_vars` of the two with a parameter is a
`PROPERTY` that fails as the cfg stands; of the others, `Ref = {"app"}`,
`Modes = {"perform"}` and `Runtimes <- MCUnrelated`, and for each]:

* `LaterFileWins` [`Files <- MCTwoFiles`, `Entries <- MCConflict`]: the counter of a
  file lags behind an action that another file made unneeded, which the next run
  performs (`perform-flatpak-actions.c:354`).
  `eos-updater-flatpak-autoinstall.d.5:34`: the later file "will take priority".
* `FailedIsRetried(p)`: the counter runs ahead of an action that failed when a dependency of
  it was pulled (`perform-flatpak-actions.c:354`). `perform-flatpak-actions.c:305`:
  "to the last successfully applied action".
* `ProgressNeverBack(p)`: a service writes over what the other has saved since it
  read the files (`perform-flatpak-actions.c:272`), and the progress goes back.
  `eos-updater-flatpak-installer.8:45`: "save the most up to date serial number".
* `FilteredNeverApplied` [`Files <- MCOneFile`, `Entries <- MCUnlessLocale`, `Systems <- MCLocales`]:
  nothing records an entry that is filtered out (`flatpak-util.c:1570`), and it is
  performed when the locale changes. `eos-updater-flatpak-autoinstall.d.5:78`: "it
  will never be applied again, even if the property being filtered on changes".

UpdateServer:

* `QuitOnlyIdle` (a `PROPERTY`) [`IntBits = 4`, `Second = 8`]: the timeout in
  microseconds overflows an int, above 2147 seconds, and counts as passed at once
  (`eos-update-server.c:218`). `eos-update-server.8:62`: "Number of seconds of
  inactivity to wait for before timing out and exiting".
* `AssertionHolds`: libsoup emits `request-aborted` also for a request it could not
  read, and `request_aborted_cb` counts it down all the same (`server.c:256`:
  "self->pending_requests > 0"). With another request pending, its end is what
  aborts the process.
* `PortZeroListens` (a `PROPERTY`): port 0 is refused (`eos-update-server.c:89`).
  `eos-update-server.8:51`: "If this option is provided with the value 0, a random
  port will be allocated".

ConfigFile and ServerConfig:

* `FirstFileWins`: a file that failed to load is taken as it is by later queries
  (`config-util.c:326`). `config-util.c:47`: "will return the value from the first
  configuration file in its hierarchy which contains that key." The programs of the
  repository give up at the first error.
* `KeysExist`: a repository group without one of its keys aborts
  (`libeos-update-server/config.c:215`) by the assertion at `config-util.c:515`, where
  `eos-update-server.8:110` has exit status 3.

BloomFilter:

* `RefReturnsFilter`: `ostree_bloom_ref` has an inverted precondition and returns
  NULL (`ostree-bloom.c:197`). `ostree-bloom.c:189`: "Returns: (transfer full): @bloom".

Advertisement:

* `FollowsRepository` (a `PROPERTY`): the path unit does not watch the summary, nor
  refs that are not deployed (`eos-updater-avahi.path.in:18`). `eos-updater-avahi.8:34`:
  "triggered whenever the system OSTree repository is updated".
* `FailureWithdraws`: after a failure to read refs or summary the old advertisement
  stays (`eos-updater-avahi.c:341`). `eos-updater-avahi.c:252`: "we want to delete the
  file on failure."
* `AssertionHolds`: a deployed commit with time stamp 0 aborts the program
  (`ostree-util.c:156`), before either file is deleted.
* `NotServedWhenOff`: a server that runs goes on when advertising is switched off
  (`eos-update-server.c:498`). `eos-update-server.conf.5:54`: "they will both refuse to
  advertise or distribute updates."

## 7. Bounds and abstractions

Commits are model values. The pull of a commit is one step with its outcomes;
download progress, sizes, labels, metrics and logging are left out. The
repository object shared with the worker is represented by the disk. The quit
file (`check_and_quit`) exists for the tests only, but is modelled. Nothing in
the daemon's model is cut off by a counter: its state space is finite.

In `ContentFetch`, `MaxNotices` bounds the notifications the scheduler sends: a
fetch has two moments at which their order matters, the wait and the hand-over
to the pull, and three notifications are enough for a grant in the first, a
withdrawal across the second and a grant or a drop after it. `MaxFlatpaks` = 2
gives a fetch that fails between two flatpaks. The proofs need neither bound.
The time limit is a source that becomes ready at some moment of the wait; which
objects are missing and how much has been downloaded are left out. A scheduler
that leaves the bus is one that drops its entries. What libmogwai does with a
notification that reaches an entry it has just dropped is left to it: the model
sends nothing after "invalidated". `EntryGivenBack` excepts the one case the
code cannot help, a call the scheduler did not answer.

In `MetadataFetch` six commits are two per branch: enough for an update, a
checkpoint and a rebase one after the other. Collection IDs, the Avahi and volume
finders and overrides are kept as far as they decide what is asked; the tips
offered are not state. In `MCWorlds` no rebases lead in a circle, since a poll
would not end (`LoopsIgnored`); a commit that redirects to its own branch is there.

In `AutoUpdater` `MaxTime` = 1: two days, with an interval and delays of one day
each, so that a second run is due. There are two updates, or results could not be
of the wrong one. `MaxDisturbances` = 1 allows one call of another client or one
fault anywhere, since each property is already at stake in a run disturbed once. The program's proxy is
created when no change of the daemon's properties waits to be emitted (a hazard
listed without a property). Options and the network's state are preconditions.

In the flatpak modules there are two files of up to three entries in all, and
serial numbers up to 3 with integers of that width: a conflict, its resolution
and one more. `FlatpakLists` chooses entries, systems and their number by the
number of directories: filters and masking matter with two, long lists with one.
The installer's two files are on different flatpaks: what goes wrong otherwise is in
section 6. The file that has two entries is of the flatpak that has a dependency, the
other file gives a second progress to write over, and the two services are all
there are; one that is started by hand is the fallback service with other options. `g_ptr_array_sort` is the stable merge sort that GLib has. JSON is
left out: an entry is well-formed, unknown or malformed. What libflatpak does
with an action is that it succeeds or fails; `--dry-run` changes nothing. That
everything is applied eventually supposes that reboots end.

In `UpdateServer` `Second` = 2 microseconds and integers of 8 bits stand for a
million and 32: the timeout of the run does not overflow. Overflow is undefined:
the product is wrapped or exact. `Horizon` = 2 is a time beyond all timeouts, which
are 1. `Tick` waits for sources that are ready, since the loop dispatches them
within far less than a second. A stream has up to two chunks: a first and a last.
A `world` keeps apart what does not influence each other, as timeouts and the
contents of the repository. Requests that are accepted but not read when the
process exits are dropped. `unread` counts the requests that libsoup gave up before
it had read them, which the code counts down without having counted them up:
`PendingIsExact` says that nothing else makes the count drift, and `QuitOnlyIdle`
promises answered requests only while it has not. Proceeding to the assertion ends
the process ("crashed"), which systemd starts again.

In `ConfigFile` there are two files above the defaults; a file that breaks off
leaves any subset of its keys. `MaxEdits` = 1, as each file is loaded once: an edit
comes before or after that. `ServerConfig` reads groups in any order, since a hash
table gives them.

In `BloomFilter` the hash function is a constant (the proof is for any), and a
caller holds at most two references on a block; `MaxUInt` is larger than any count
reached, as in the code. A filter may be loaded with another number of hashes than
it was made with: nothing stores it. In `ServiceFile` names have canonical numbers;
in `ServiceFileClient` the enumerator lists the files there at its start, and fails
at any file, or one that is to be deleted stays.

In `Advertisement` systemd remembers that the path unit triggered while the
service ran, and evaluates the socket's condition after each run; its limit on
starts is left out. `MaxChanges` = 5 is needed: configuration, refs and summary
for a first file to be written, one change during a run and one after it.
`EventuallyWithdrawn` excepts a file that cannot be deleted and a failing
assertion (`AssertionHolds`), which comes before the deletion. The path unit lists the
refs of two deployments; more are not expected (its comment).

## 8. Not modelled

* The command-line clients: `eos-updater-ctl` and `eos-updater-prepare-volume`
  are scripts of single calls, each of which is an action of `EosUpdater` or of
  libostree; `eos-updater-test-checkpoint` changes one ref and reboots.
* Of libeos-updater-util: number parsing, environment look-ups, file helpers and
  the hash functions, which keep no state.
* Logging, metrics, translations, the text of XML, JSON and D-Bus descriptions.
* OSTree, libflatpak, libsoup, Mogwai, Avahi, systemd and GLib: modelled as far
  as this code relies on them.
* Tests, fixtures, packaging, documentation.
