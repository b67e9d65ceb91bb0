---------------------------- MODULE MetadataFetch ----------------------------
(***************************************************************************)
(* The poll worker (eos-updater/poll.c, poll-common.c): how Poll and          *)
(* PollVolume look for an update.                                           *)
(*                                                                         *)
(* Finders look among the offline sources (the local network and volumes),    *)
(* then among the online ones, then the configured remote is asked directly.  *)
(* Each time the branch that is booted is tried, and if it has no update the   *)
(* branch its checkpoint, if it is one, leads to; on each, end-of-life         *)
(* rebases are followed from commit to commit.                               *)
(*                                                                         *)
(* What the sources offer may be anything and may change at any time.  A       *)
(* commit is a number, its timestamp.                                        *)
(***************************************************************************)
EXTENDS Integers, Sequences, Functions

CONSTANTS
    Commits,    \* the commits there are
    Refs,       \* the branches of the remote
    None,       \* no branch
    Worlds,     \* the metadata considered: [branch, rebase, checkpoint, booted]
    Orders      \* the values of the configuration's Order key considered

ASSUME CommitsAssumption == Commits \subseteq Nat \ {0} /\ None \notin Refs
ASSUME WorldsAssumption ==
    Worlds \subseteq [branch : [Commits -> Refs], rebase : [Commits -> Refs \cup {None}],
                      checkpoint : [Commits -> Refs \cup {None}], booted : Commits]
ASSUME OrdersAssumption == Orders \subseteq Seq(STRING)

VARIABLES
    world,       \* the commits' metadata, and which commit is booted
    lost,        \* the booted commit's object is missing from the repository
    config,      \* kind of poll, Order, collection ID, overrides
    local,       \* the repository's ref of the remote for each branch, 0 if none
    pc,          \* what the thread does next
    where,       \* "offline", "online" or "main": what it asks
    check,       \* "branch" or "checkpoint": which branch it tries
    following,   \* upgrade_refspec
    results,     \* the branch the found remotes offer, or None
    info,        \* the UpdateRefInfo
    cancelled,   \* its cancellable
    interrupted, \* an operation has been told so
    fault,       \* the last search has failed
    outcome      \* what the thread returns

choices == <<world, lost, config>>
vars == <<choices, local, pc, where, check, following, results, info, cancelled,
          interrupted, fault, outcome>>

Sources == {"main", "lan", "volume"}
NoInfo == [checksum |-> 0, ref |-> None]
Nothing == [error |-> "", checksum |-> 0, ref |-> None, results |-> None, offline |-> FALSE]
Booted == world.booted
BootedRef == world.branch[Booted]

-----------------------------------------------------------------------------
(* The configuration and the deployment.                                     *)

strv_to_download_order(order) ==
    IF Range(order) \subseteq Sources /\ IsInjective(order) /\ order # <<>>
    THEN Range(order) ELSE {}

Configured == IF config.kind = "poll" THEN strv_to_download_order(config.order) ELSE {"main"}

(* get_finders: PollVolume's override replaces every finder and counts as      *)
(* online.  The Avahi finder may fail to start; it is then removed from a list  *)
(* that already has its terminator, and so is never empty again.              *)
OfflineListed == config.kind = "poll" /\ Configured \cap {"lan", "volume"} # {}
OfflineFinders == (Configured \cap {"lan", "volume"}) \ (IF config.avahi THEN {} ELSE {"lan"})
OnlineFinders == "main" \in Configured
Finders == CASE where = "offline" -> OfflineFinders # {}
             [] where = "online" -> OnlineFinders
             [] where = "main" -> TRUE

(* euu_should_follow_checkpoint: the environment decides, or the hardware.      *)
euu_should_follow_checkpoint ==
    config.force = "1" \/ (config.force = "" /\ ~config.remap)

(* The branch to upgrade on: the checkpoint target of the commit that is        *)
(* booted, if its object is there.  The faulty variant reads it from the newest *)
(* commit of the branch.                                                     *)
TargetOf(c) == IF world.checkpoint[c] # None /\ ~lost /\ euu_should_follow_checkpoint
               THEN world.checkpoint[c] ELSE BootedRef
TargetOfNewest == TargetOf(IF local[BootedRef] = 0 THEN Booted ELSE local[BootedRef])
get_refspec_to_upgrade_on == TargetOf(Booted)

-----------------------------------------------------------------------------
(* The ends of the thread.                                                   *)

Return(o) ==
    /\ outcome' = o
    /\ pc' = "done"
    /\ UNCHANGED <<choices, local, where, check, following, results, info, cancelled>>

Throw(error) == Return([Nothing EXCEPT !.error = error])

(* From here what is looked for is asked of the source in "where".             *)
Ask(source) ==
    /\ where' = source
    /\ check' = "branch"
    /\ following' = BootedRef
    /\ results' = None
    /\ info' = NoInfo
    /\ pc' = "fetch"
    /\ UNCHANGED <<choices, local, cancelled, outcome>>

(* When nothing is found the remote is asked directly, if it is configured and  *)
(* the fall-back is not disabled; PollVolume has no fall-back.                *)
FallBack ==
    IF config.kind = "poll" /\ OnlineFinders /\ ~config.noFallback
    THEN Ask("main") ELSE Return(Nothing)

(* An error of the finders leads to the fall-back, too; one of the remote is    *)
(* logged.  A cancellation is neither.                                          *)
IsFinal(error) == error = "Cancelled" \/ config.kind = "poll_volume"

Error(error) ==
    /\ fault' = TRUE
    /\ interrupted' = (interrupted \/ error = "Cancelled")
    /\ IF IsFinal(error) THEN Throw(error)
       ELSE IF where = "main" THEN Return(Nothing) ELSE FallBack

NoError == UNCHANGED <<interrupted, fault>>

-----------------------------------------------------------------------------

(* metadata_fetch_internal and poll_volume_internal, up to the first search.    *)
Start ==
    /\ pc = "start"
    /\ \/ /\ fault' = TRUE
          /\ Throw("NotOstreeSystem")
          /\ UNCHANGED interrupted
       \/ /\ Configured = {}
          /\ fault' = TRUE
          /\ Throw("WrongConfiguration")
          /\ UNCHANGED interrupted
       \/ /\ Configured # {}
          /\ Ask(IF OfflineListed THEN "offline" ELSE "online")
          /\ NoError

(* fetch_latest_commit: remotes that offer the branch are found and the newest  *)
(* commit's metadata is pulled from them, which brings a lost commit back;       *)
(* without any, what is in the repository has to do.                          *)
fetch_latest_commit ==
    /\ pc = "fetch"
    /\ \/ /\ where # "main" /\ ~config.collection
          /\ Error("NotSupported")
       \/ /\ where = "main" \/ config.collection
          /\ \/ cancelled /\ Error("Cancelled")
             \/ ~cancelled /\ Error("Failed")
             \/ /\ ~cancelled
                /\ \/ /\ Finders
                      /\ \E c \in Commits :
                            /\ world.branch[c] = following
                            /\ local' = [local EXCEPT ![following] = c]
                            /\ lost' = (lost /\ c # Booted)
                      /\ results' = IF where = "main" THEN None ELSE following
                   \/ /\ where # "main"
                      /\ results' = None
                      /\ UNCHANGED <<local, lost>>
                /\ pc' = "parse"
                /\ UNCHANGED <<world, config, where, check, following, info, cancelled, outcome>>
                /\ NoError

(* parse_latest_commit: a commit whose branch has reached its end of life names *)
(* the next one; naming its own branch means nothing.  (The faulty variant      *)
(* follows that as well.)                                                    *)
RedirectsAlways(c) == world.rebase[c] # None
Redirects(c) == world.rebase[c] \notin {None, following}

Missing(c) == c = Booted /\ lost

parse_latest_commit ==
    /\ pc = "parse"
    /\ LET c == local[following] IN
       \/ c = 0 /\ Error("Failed")
       \/ /\ c # 0 /\ ~Missing(c) /\ Redirects(c)
          /\ following' = world.rebase[c]
          /\ pc' = "fetch"
          /\ UNCHANGED <<choices, local, where, check, results, info, cancelled, outcome>>
          /\ NoError
       \/ /\ c # 0 /\ (Missing(c) \/ ~Redirects(c))
          /\ pc' = "judge"
          /\ UNCHANGED <<choices, local, where, check, following, results, info, cancelled,
                         outcome>>
          /\ NoError

(* is_checksum_an_update: on the branch that is booted only a newer commit, on   *)
(* another branch any.  (The faulty variant would go back in time.)            *)
IsOther(c) == c # Booted
is_checksum_an_update(c) ==
    c # Booted /\ (lost \/ following # BootedRef \/ c > Booted)

(* check_for_update_using_booted_branch, and then, if it finds none,           *)
(* check_for_update_following_checkpoint_commits.                           *)
CheckUpdate ==
    /\ pc = "judge"
    /\ LET c == local[following] IN
       \/ /\ is_checksum_an_update(c)
          /\ info' = [checksum |-> c, ref |-> following]
          /\ pc' = "decide"
          /\ UNCHANGED <<check, following, results>>
       \/ /\ ~is_checksum_an_update(c)
          /\ check = "branch"
          /\ info' = NoInfo
          /\ check' = "checkpoint"
          /\ following' = get_refspec_to_upgrade_on
          /\ results' = None
          /\ pc' = "fetch"
       \/ /\ ~is_checksum_an_update(c)
          /\ check = "checkpoint"
          /\ info' = NoInfo
          /\ pc' = "decide"
          /\ UNCHANGED <<check, following, results>>
    /\ UNCHANGED <<choices, local, where, cancelled, outcome>>
    /\ NoError

(* metadata_fetch_new and metadata_fetch_from_main: an update without remotes    *)
(* that offer it counts for nothing, except to the remote itself.  (The faulty *)
(* variant takes everything found without the internet configured for offline.)*)
OfflineAlone == where = "offline" \/ ~OnlineFinders \/ OfflineListed
OfflineOnly == where = "offline"

Usable == info # NoInfo /\ (where = "main" \/ results # None)

Decide ==
    /\ pc = "decide"
    /\ \/ /\ Usable
          /\ Return([error |-> "", checksum |-> info.checksum, ref |-> info.ref,
                     results |-> results, offline |-> OfflineOnly])
       \/ /\ ~Usable
          /\ CASE where = "offline" /\ OnlineFinders -> Ask("online")
               [] where = "offline" /\ ~OnlineFinders -> FallBack
               [] where = "online" -> FallBack
               [] where = "main" -> Return(Nothing)
    /\ fault' = FALSE
    /\ UNCHANGED interrupted

Cancel ==
    /\ pc # "done"
    /\ ~cancelled
    /\ cancelled' = TRUE
    /\ UNCHANGED <<choices, local, pc, where, check, following, results, info, interrupted,
                   fault, outcome>>

Done == pc = "done" /\ UNCHANGED vars

-----------------------------------------------------------------------------

Init ==
    /\ world \in Worlds
    /\ lost \in BOOLEAN
    /\ config \in [kind : {"poll", "poll_volume"}, order : Orders, collection : BOOLEAN,
                   avahi : BOOLEAN, force : {"", "0", "1"}, remap : BOOLEAN,
                   noFallback : BOOLEAN]
    /\ config.kind = "poll_volume" => config.avahi /\ ~config.noFallback   \* not looked at
    /\ config.force # "" => ~config.remap
    /\ \E c \in Commits :    \* what earlier polls have left
          /\ world.branch[c] = BootedRef
          /\ local = [r \in Refs |-> IF r = BootedRef THEN c ELSE 0]
    /\ pc = "start"
    /\ where = "offline"
    /\ check = "branch"
    /\ following = BootedRef
    /\ results = None
    /\ info = NoInfo
    /\ cancelled = FALSE
    /\ interrupted = FALSE
    /\ fault = FALSE
    /\ outcome = Nothing

Thread == Start \/ fetch_latest_commit \/ parse_latest_commit \/ CheckUpdate \/ Decide

Next == Thread \/ Cancel \/ Done

Spec == Init /\ [][Next]_vars

(* The thread runs, and every search and every pull ends.                     *)
FairSpec == Spec /\ WF_vars(Thread)

-----------------------------------------------------------------------------
(* Properties.                                                             *)

Errors == {"", "NotOstreeSystem", "WrongConfiguration", "NotSupported", "Failed", "Cancelled"}

(* Every variable holds what its declaration in the code allows.            *)
TypeOK ==
    /\ world \in Worlds
    /\ local \in [Refs -> Commits \cup {0}]
    /\ pc \in {"start", "fetch", "parse", "judge", "decide", "done"}
    /\ where \in {"offline", "online", "main"}
    /\ check \in {"branch", "checkpoint"}
    /\ following \in Refs
    /\ results \in Refs \cup {None}
    /\ info \in [checksum : Commits \cup {0}, ref : Refs \cup {None}]
    /\ outcome \in [error : Errors, checksum : Commits \cup {0}, ref : Refs \cup {None},
                    results : Refs \cup {None}, offline : BOOLEAN]
    /\ {lost, cancelled, interrupted, fault} \subseteq BOOLEAN

Offered == outcome.checksum # 0

(* What a poll offers is a commit of the repository's ref of the branch it       *)
(* names, the remotes it passes to the fetch offer that branch and not one the *)
(* poll came by on its way, and only those of offline finders are called        *)
(* offline.                                                                 *)
ResultsFitOffer ==
    Offered =>
        /\ local[outcome.ref] = outcome.checksum
        /\ outcome.results = (IF where = "main" THEN None ELSE outcome.ref)
        /\ outcome.offline => where = "offline"

(* An update of the branch that is booted is newer than what is booted, however  *)
(* the poll went: over sources with older commits, rebases and checkpoints.     *)
NoDowngrade ==
    Offered /\ ~lost => outcome.checksum # Booted
                        /\ (outcome.ref = BootedRef => outcome.checksum > Booted)

(* The branches rebases can lead to from a branch: those in every set of         *)
(* branches that has this one and that no rebase leaves.                       *)
Closed(rs) == \A c \in Commits : world.branch[c] \in rs => world.rebase[c] \in rs \cup {None}
Reach(r) == {s \in Refs : \A rs \in SUBSET Refs : r \in rs /\ Closed(rs) => s \in rs}
Crossed == Offered /\ outcome.ref \notin Reach(BootedRef)

(* A computer crosses a checkpoint only when the commit that says so is booted   *)
(* (eos-updater(8), eos.checkpoint-target), the commit is there to say it, and  *)
(* the computer may; whatever is pulled on the way.  And not while the branch   *)
(* that is booted still has an update: emergency fixes come first              *)
(* (check_for_update_following_checkpoint_if_allowed).                        *)
CheckpointIsBooted ==
    Crossed => /\ world.checkpoint[Booted] # None
               /\ outcome.ref \in Reach(world.checkpoint[Booted])
               /\ ~lost /\ euu_should_follow_checkpoint
               /\ \/ world.rebase[local[BootedRef]] \notin {None, BootedRef}
                  \/ local[BootedRef] <= Booted

(* A poll ends, if the rebases of the commits do not lead in circles; and one    *)
(* that has been told that it is cancelled says so: neither fall-back takes its  *)
(* error for one of a source.                                                *)
PollEnds == <>(pc = "done" /\ (interrupted => outcome.error = "Cancelled"))

-----------------------------------------------------------------------------
(* What comments and documentation say and the code does not do.              *)

(* parse_latest_commit follows a rebase "unless the rebase is a loop".          *)
LoopsIgnored == <>(pc = "done")

(* "If there is an error checking for an update, it will transition to the       *)
(* Error state" (com.endlessm.Updater.xml, Poll): not to Ready, as though the   *)
(* last source to be asked had answered.                                     *)
FailedPollIsError ==
    pc = "done" /\ fault /\ where = "main" => outcome.error # ""

(* "All configured update sources failed to initialize." is an error            *)
(* (metadata_fetch_new).                                                    *)
FailedSourcesReported ==
    pc = "done" /\ Configured = {"lan"} /\ ~config.avahi => outcome.error # ""
=============================================================================
