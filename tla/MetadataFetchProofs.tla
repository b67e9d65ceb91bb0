------------------------- MODULE MetadataFetchProofs -------------------------
(***************************************************************************)
(* Proofs about a poll: of MetadataFetch, for any commits, branches, rebases,  *)
(* checkpoints and configurations, and whatever the sources offer, that what it *)
(* offers is of the place it has come to, and the places it comes to are those  *)
(* the booted commit allows (nothing is assumed of rebases that lead in         *)
(* circles); and of CommitSizes, that what it publishes is that update's size.  *)
(***************************************************************************)
EXTENDS MetadataFetch, CommitSizes, TLAPS

FromBooted == Reach(BootedRef)
FromCheckpoint == Reach(world.checkpoint[Booted])

\* The refs of the repository are commits of their branches; the booted one's exists.
LocalIsOfBranch ==
    /\ local[BootedRef] # 0
    /\ \A r \in Refs : local[r] # 0 => world.branch[local[r]] = r

\* The branch that is booted has been left by a rebase, or has no update.
RebasedAway == world.rebase[local[BootedRef]] \notin {None, BootedRef}
NoFixes == RebasedAway \/ local[BootedRef] <= Booted

CheckpointHolds ==
    world.checkpoint[Booted] # None /\ ~lost /\ euu_should_follow_checkpoint /\ NoFixes

Searching == pc \in {"fetch", "parse", "judge", "decide"}

\* Where a search is, is where rebases and the checkpoint lead.
PlaceIsAllowed ==
    Searching =>
        \/ /\ following \in FromBooted
           /\ check = "branch" /\ following # BootedRef => RebasedAway
        \/ check = "checkpoint" /\ following \in FromCheckpoint /\ CheckpointHolds

\* What has been collected is about this place.
InfoIsFound ==
    /\ pc \in {"fetch", "parse", "judge"} => info = NoInfo
    /\ pc = "judge" => local[following] # 0
    /\ pc = "decide" /\ info # NoInfo =>
          /\ info = [checksum |-> local[following], ref |-> following]
          /\ local[following] # 0 /\ is_checksum_an_update(local[following])

ResultsAreOfPlace ==
    /\ where = "main" => results = None
    /\ pc \in {"parse", "judge", "decide"} => results \in {None, following}

NothingYet == pc # "done" => outcome = Nothing

Promises == ResultsFitOffer /\ NoDowngrade /\ CheckpointIsBooted

IInv ==
    /\ TypeOK /\ LocalIsOfBranch /\ PlaceIsAllowed /\ InfoIsFound /\ ResultsAreOfPlace
    /\ NothingYet /\ Promises

-----------------------------------------------------------------------------
(* Rebases.                                                                *)

\* The metadata of a commit.
LEMMA WorldType ==
  ASSUME TypeOK
  PROVE  /\ Booted \in Commits /\ BootedRef \in Refs
         /\ \A c \in Commits : /\ world.branch[c] \in Refs
                               /\ world.rebase[c] \in Refs \cup {None}
                               /\ world.checkpoint[c] \in Refs \cup {None}
         /\ 0 \notin Commits /\ Commits \subseteq Nat /\ None \notin Refs
<1>1. world \in [branch : [Commits -> Refs], rebase : [Commits -> Refs \cup {None}],
                   checkpoint : [Commits -> Refs \cup {None}], booted : Commits]
  BY WorldsAssumption DEF TypeOK
<1>2. /\ world.branch \in [Commits -> Refs]
      /\ world.rebase \in [Commits -> Refs \cup {None}]
      /\ world.checkpoint \in [Commits -> Refs \cup {None}]
      /\ world.booted \in Commits
  BY <1>1
<1> QED
  BY <1>2, CommitsAssumption DEF Booted, BootedRef

LEMMA ReachSelf ==
  ASSUME NEW r \in Refs
  PROVE  r \in Reach(r)
  BY DEF Reach

\* A rebase leads on to where rebases lead.
LEMMA ReachStep ==
  ASSUME NEW r, NEW c \in Commits, world.branch[c] \in Reach(r),
         world.rebase[c] \in Refs, None \notin Refs
  PROVE  world.rebase[c] \in Reach(r)
  BY DEF Reach, Closed

\* The world is that of the behaviour.
LEMMA WorldIs ==
  ASSUME UNCHANGED <<world, config>>
  PROVE  /\ Booted' = Booted /\ BootedRef' = BootedRef
         /\ FromBooted' = FromBooted /\ FromCheckpoint' = FromCheckpoint
         /\ euu_should_follow_checkpoint' = euu_should_follow_checkpoint
  BY DEF Booted, BootedRef, FromBooted, FromCheckpoint, Reach, Closed,
         euu_should_follow_checkpoint

LEMMA WorldStays ==
  ASSUME UNCHANGED choices
  PROVE  /\ Booted' = Booted /\ BootedRef' = BootedRef
         /\ FromBooted' = FromBooted /\ FromCheckpoint' = FromCheckpoint
         /\ UNCHANGED <<world, lost, config>>
         /\ euu_should_follow_checkpoint' = euu_should_follow_checkpoint
  BY WorldIs DEF choices

-----------------------------------------------------------------------------
(* The kinds of steps.                                                     *)

\* The booted branch's ref stays: so does what is known of it.
LEMMA FixesStay ==
  ASSUME UNCHANGED choices, local'[BootedRef] = local[BootedRef]
  PROVE  /\ RebasedAway' = RebasedAway /\ CheckpointHolds' = CheckpointHolds
  BY WorldStays DEF RebasedAway, NoFixes, CheckpointHolds

\* An outcome without an update promises nothing.
LEMMA NoOffer ==
  ASSUME outcome'.checksum = 0
  PROVE  Promises'
  BY DEF Promises, ResultsFitOffer, NoDowngrade, CheckpointIsBooted, Crossed, Offered

\* What the thread may return.
Outcomes == [error : Errors, checksum : Commits \cup {0}, ref : Refs \cup {None},
             results : Refs \cup {None}, offline : BOOLEAN]

\* A thread that returns returns this.
LEMMA EndsWith ==
  ASSUME IInv, NEW o \in Outcomes, Return(o), Promises',
         interrupted' \in BOOLEAN, fault' \in BOOLEAN
  PROVE  IInv'
<1>1. /\ pc' = "done" /\ outcome' = o
      /\ UNCHANGED <<choices, local, where, check, following, results, info, cancelled>>
  BY DEF Return
<1>2. TypeOK'
  BY <1>1 DEF IInv, TypeOK, choices, Outcomes
<1>3. LocalIsOfBranch'
  BY <1>1, WorldStays DEF IInv, LocalIsOfBranch
<1>4. ResultsAreOfPlace'
  BY <1>1 DEF IInv, ResultsAreOfPlace
<1>5. PlaceIsAllowed' /\ InfoIsFound' /\ NothingYet'
  BY <1>1 DEF PlaceIsAllowed, Searching, InfoIsFound, NothingYet
<1> QED
  BY <1>2, <1>3, <1>4, <1>5 DEF IInv

\* The thread ends without an update.
LEMMA EndsEmpty ==
  ASSUME IInv, Return(Nothing), interrupted' \in BOOLEAN, fault' \in BOOLEAN
  PROVE  IInv'
<1>1. Nothing \in Outcomes
  BY DEF Nothing, Outcomes, Errors
<1>2. outcome' = Nothing /\ Nothing.checksum = 0
  BY DEF Return, Nothing
<1> QED
  BY <1>1, <1>2, NoOffer, EndsWith

\* It ends with an error.
LEMMA ThrowPreserves ==
  ASSUME IInv, NEW error \in Errors, Throw(error),
         interrupted' \in BOOLEAN, fault' \in BOOLEAN
  PROVE  IInv'
<1> DEFINE o == [Nothing EXCEPT !.error = error]
<1>1. o \in Outcomes /\ o.checksum = 0
  BY DEF Nothing, Outcomes
<1>2. Return(o)
  BY DEF Throw
<1>3. outcome'.checksum = 0
  BY <1>1, <1>2 DEF Return
<1> QED
  BY <1>1, <1>2, <1>3, NoOffer, EndsWith

\* A search begins on the booted branch.
LEMMA AskPreserves ==
  ASSUME IInv, NEW source \in {"offline", "online", "main"}, Ask(source), pc # "done",
         interrupted' \in BOOLEAN, fault' \in BOOLEAN
  PROVE  IInv'
<1>1. /\ pc' = "fetch" /\ where' = source /\ check' = "branch" /\ following' = BootedRef
      /\ results' = None /\ info' = NoInfo
      /\ UNCHANGED <<choices, local, cancelled, outcome>>
  BY DEF Ask
<1>2. outcome = Nothing /\ Nothing.checksum = 0
  BY DEF IInv, NothingYet, Nothing
<1>3. TypeOK'
  BY <1>1, WorldType DEF IInv, TypeOK, choices, NoInfo
<1>4. LocalIsOfBranch'
  BY <1>1, WorldStays DEF IInv, LocalIsOfBranch
<1>5. following' \in FromBooted'
  BY <1>1, WorldType, WorldStays, ReachSelf DEF IInv, FromBooted
<1>6. PlaceIsAllowed'
  BY <1>1, <1>5, WorldStays DEF PlaceIsAllowed
<1>7. InfoIsFound' /\ ResultsAreOfPlace' /\ NothingYet'
  BY <1>1, <1>2 DEF InfoIsFound, ResultsAreOfPlace, NothingYet, NoInfo
<1> QED
  BY <1>1, <1>2, <1>3, <1>4, <1>6, <1>7, NoOffer DEF IInv

\* The remote is asked, or not.
LEMMA FallBackPreserves ==
  ASSUME IInv, FallBack, pc # "done", interrupted' \in BOOLEAN, fault' \in BOOLEAN
  PROVE  IInv'
<1>1. CASE Ask("main")
  BY <1>1, AskPreserves
<1>2. CASE Return(Nothing)
  BY <1>2, EndsEmpty
<1> QED
  BY <1>1, <1>2 DEF FallBack

\* An error ends the thread or leads to the remote.
LEMMA ErrorPreserves ==
  ASSUME IInv, NEW error \in Errors, Error(error), pc # "done"
  PROVE  IInv'
<1>1. interrupted' \in BOOLEAN /\ fault' \in BOOLEAN
  BY DEF Error, IInv, TypeOK
<1>2. CASE Throw(error)
  BY <1>1, <1>2, ThrowPreserves
<1>3. CASE Return(Nothing)
  BY <1>1, <1>3, EndsEmpty
<1>4. CASE FallBack
  BY <1>1, <1>4, FallBackPreserves
<1> QED
  BY <1>2, <1>3, <1>4 DEF Error

\* A step that is not the last one and leaves the outcome empty.
LEMMA StillNothing ==
  ASSUME IInv, pc # "done", UNCHANGED outcome
  PROVE  NothingYet' /\ Promises'
<1>1. outcome = Nothing /\ Nothing.checksum = 0
  BY DEF IInv, NothingYet, Nothing
<1> QED
  BY <1>1, NoOffer DEF NothingYet

-----------------------------------------------------------------------------
(* The steps.                                                              *)

LEMMA StartPreserves ==
  ASSUME IInv, Start
  PROVE  IInv'
<1>1. pc # "done" /\ interrupted' \in BOOLEAN /\ fault' \in BOOLEAN
  BY DEF Start, NoError, IInv, TypeOK
<1>2. "NotOstreeSystem" \in Errors /\ "WrongConfiguration" \in Errors
  BY DEF Errors
<1>3. CASE Throw("NotOstreeSystem")
  BY <1>1, <1>2, <1>3, ThrowPreserves
<1>4. CASE Throw("WrongConfiguration")
  BY <1>1, <1>2, <1>4, ThrowPreserves
<1>5. CASE Ask("offline")
  BY <1>1, <1>5, AskPreserves
<1>6. CASE Ask("online")
  BY <1>1, <1>6, AskPreserves
<1> QED
  BY <1>3, <1>4, <1>5, <1>6 DEF Start

\* A newer commit of the branch is in the repository now.
LEMMA PullPreserves ==
  ASSUME IInv, pc = "fetch", pc' = "parse", NEW c \in Commits,
         world.branch[c] = following, local' = [local EXCEPT ![following] = c],
         lost' = (lost /\ c # Booted),
         results' \in {None, following}, where = "main" => results' = None,
         UNCHANGED <<world, config, where, check, following, info, cancelled, interrupted, fault,
                     outcome>>
  PROVE  IInv'
<1> USE DEF IInv
<1>1. TypeOK'
  BY DEF TypeOK, choices
<1>2. following \in Refs /\ local \in [Refs -> Commits \cup {0}] /\ BootedRef \in Refs
  BY WorldType DEF TypeOK
<1>3. LocalIsOfBranch'
  <2>1. \A r \in Refs : local'[r] = IF r = following THEN c ELSE local[r]
    BY <1>2
  <2>2. UNCHANGED world /\ BootedRef' = BootedRef /\ c # 0
    BY WorldIs, WorldType
  <2> QED
    BY <1>2, <2>1, <2>2 DEF LocalIsOfBranch
<1>4. PlaceIsAllowed'
  <2>1. CASE following = BootedRef
    <3>1. BootedRef \in FromBooted
      BY <1>2, ReachSelf DEF FromBooted
    <3> QED
      BY <2>1, <3>1, WorldIs DEF PlaceIsAllowed
  <2>2. CASE following # BootedRef
    <3>1. local'[BootedRef] = local[BootedRef]
      BY <1>2, <2>2
    <3>2. c # Booted
      BY <2>2 DEF BootedRef
    <3>3. lost' = lost
      BY <3>2 DEF TypeOK
    <3>4. UNCHANGED choices
      BY <3>3 DEF choices
    <3> QED
      BY <2>2, <3>1, <3>4, FixesStay, WorldStays DEF PlaceIsAllowed, Searching
  <2> QED
    BY <2>1, <2>2
<1>5. InfoIsFound' /\ ResultsAreOfPlace'
  BY DEF InfoIsFound, ResultsAreOfPlace
<1> QED
  BY <1>1, <1>3, <1>4, <1>5, StillNothing

LEMMA FetchPreserves ==
  ASSUME IInv, fetch_latest_commit
  PROVE  IInv'
<1>1. pc = "fetch" /\ pc # "done" /\ {"NotSupported", "Cancelled", "Failed"} \subseteq Errors
  BY DEF fetch_latest_commit, Errors
<1>2. CASE \E error \in {"NotSupported", "Cancelled", "Failed"} : Error(error)
  BY <1>1, <1>2, ErrorPreserves
<1>3. CASE /\ \E c \in Commits : /\ world.branch[c] = following
                                  /\ local' = [local EXCEPT ![following] = c]
                                  /\ lost' = (lost /\ c # Booted)
           /\ results' = IF where = "main" THEN None ELSE following
           /\ pc' = "parse"
           /\ UNCHANGED <<world, config, where, check, following, info, cancelled, outcome>>
           /\ NoError
  BY <1>1, <1>3, PullPreserves DEF NoError
<1>4. CASE /\ results' = None
           /\ UNCHANGED <<local, lost>>
           /\ pc' = "parse"
           /\ UNCHANGED <<world, config, where, check, following, info, cancelled, outcome>>
           /\ NoError
  <2> USE DEF IInv
  <2>1. TypeOK'
    BY <1>4 DEF TypeOK, choices, NoError
  <2>2. UNCHANGED choices
    BY <1>4 DEF choices
  <2>3. LocalIsOfBranch' /\ PlaceIsAllowed'
    BY <1>1, <1>4, <2>2, WorldStays, FixesStay DEF LocalIsOfBranch, PlaceIsAllowed, Searching
  <2>4. InfoIsFound' /\ ResultsAreOfPlace'
    BY <1>1, <1>4 DEF InfoIsFound, ResultsAreOfPlace
  <2> QED
    BY <1>1, <1>4, <2>1, <2>3, <2>4, StillNothing
<1> QED
  BY <1>2, <1>3, <1>4 DEF fetch_latest_commit

\* A rebase is followed.
LEMMA RedirectPreserves ==
  ASSUME IInv, pc = "parse", pc' = "fetch", local[following] # 0,
         Redirects(local[following]), following' = world.rebase[local[following]],
         UNCHANGED <<choices, local, where, check, results, info, cancelled, interrupted,
                     fault, outcome>>
  PROVE  IInv'
<1> USE DEF IInv
<1> DEFINE c == local[following]
<1>1. /\ following \in Refs /\ c \in Commits /\ world.branch[c] = following
      /\ world.rebase[c] \in Refs /\ world.rebase[c] # following /\ None \notin Refs
  BY WorldType DEF TypeOK, LocalIsOfBranch, Redirects
<1>2. TypeOK'
  BY <1>1 DEF TypeOK, choices
<1>3. LocalIsOfBranch'
  BY WorldStays DEF LocalIsOfBranch
<1>4. PlaceIsAllowed'
  <2>1. following = BootedRef => RebasedAway
    BY <1>1 DEF RebasedAway
  <2>2. following \in FromBooted => following' \in FromBooted
    BY <1>1, ReachStep DEF FromBooted
  <2>3. following \in FromCheckpoint => following' \in FromCheckpoint
    BY <1>1, ReachStep DEF FromCheckpoint
  <2>4. /\ RebasedAway' = RebasedAway /\ CheckpointHolds' = CheckpointHolds
        /\ FromBooted' = FromBooted /\ FromCheckpoint' = FromCheckpoint
        /\ BootedRef' = BootedRef
    BY FixesStay, WorldStays
  <2> QED
    BY <2>1, <2>2, <2>3, <2>4 DEF PlaceIsAllowed, Searching
<1>5. InfoIsFound' /\ ResultsAreOfPlace'
  BY DEF InfoIsFound, ResultsAreOfPlace
<1> QED
  BY <1>2, <1>3, <1>4, <1>5, StillNothing

LEMMA ParsePreserves ==
  ASSUME IInv, parse_latest_commit
  PROVE  IInv'
<1>1. pc = "parse" /\ pc # "done" /\ "Failed" \in Errors
  BY DEF parse_latest_commit, Errors
<1>2. CASE Error("Failed")
  BY <1>1, <1>2, ErrorPreserves
<1>3. CASE /\ local[following] # 0 /\ Redirects(local[following])
           /\ following' = world.rebase[local[following]]
           /\ pc' = "fetch"
           /\ UNCHANGED <<choices, local, where, check, results, info, cancelled, outcome>>
           /\ NoError
  BY <1>1, <1>3, RedirectPreserves DEF NoError
<1>4. CASE /\ local[following] # 0
           /\ pc' = "judge"
           /\ UNCHANGED <<choices, local, where, check, following, results, info, cancelled,
                          outcome>>
           /\ NoError
  <2> USE DEF IInv
  <2>1. TypeOK'
    BY <1>4 DEF TypeOK, choices, NoError
  <2>2. LocalIsOfBranch' /\ PlaceIsAllowed'
    BY <1>1, <1>4, WorldStays, FixesStay DEF LocalIsOfBranch, PlaceIsAllowed, Searching
  <2>3. InfoIsFound' /\ ResultsAreOfPlace'
    BY <1>1, <1>4 DEF InfoIsFound, ResultsAreOfPlace
  <2> QED
    BY <1>1, <1>4, <2>1, <2>2, <2>3, StillNothing
<1> QED
  BY <1>2, <1>3, <1>4 DEF parse_latest_commit

\* The branch that is booted has no update: the checkpoint's is tried.
LEMMA CrossPreserves ==
  ASSUME IInv, pc = "judge", check = "branch", ~is_checksum_an_update(local[following]),
         pc' = "fetch", check' = "checkpoint", following' = get_refspec_to_upgrade_on,
         results' = None, info' = NoInfo,
         UNCHANGED <<choices, local, where, cancelled, interrupted, fault, outcome>>
  PROVE  IInv'
<1> USE DEF IInv
<1> DEFINE target == world.checkpoint[Booted]
           allowed == target # None /\ ~lost /\ euu_should_follow_checkpoint
<1>1. following' = IF allowed THEN target ELSE BootedRef
  BY DEF get_refspec_to_upgrade_on, TargetOf
<1>2. target \in Refs \cup {None} /\ BootedRef \in Refs
  BY WorldType
<1>3. TypeOK'
  BY <1>1, <1>2 DEF TypeOK, choices, NoInfo
<1>4. LocalIsOfBranch'
  BY WorldStays DEF LocalIsOfBranch
<1>5. PlaceIsAllowed'
  <2>1. ~lost => NoFixes
    <3>1. CASE following = BootedRef
      <4>1. local[BootedRef] \in Nat /\ Booted \in Nat
        BY WorldType DEF TypeOK, LocalIsOfBranch
      <4> QED
        BY <3>1, <4>1 DEF is_checksum_an_update, NoFixes
    <3>2. CASE following # BootedRef
      BY <3>2 DEF PlaceIsAllowed, Searching, NoFixes
    <3> QED
      BY <3>1, <3>2
  <2>2. CASE allowed
    <3>1. following' \in FromCheckpoint /\ CheckpointHolds
      BY <1>1, <1>2, <2>1, <2>2, ReachSelf DEF FromCheckpoint, CheckpointHolds
    <3> QED
      BY <3>1, FixesStay, WorldStays DEF PlaceIsAllowed
  <2>3. CASE ~allowed
    <3>1. following' \in FromBooted
      BY <1>1, <1>2, <2>3, ReachSelf DEF FromBooted
    <3> QED
      BY <3>1, WorldStays DEF PlaceIsAllowed
  <2> QED
    BY <2>2, <2>3
<1>6. InfoIsFound' /\ ResultsAreOfPlace'
  BY DEF InfoIsFound, ResultsAreOfPlace
<1> QED
  BY <1>3, <1>4, <1>5, <1>6, StillNothing

\* The search has found an update here, or has nothing left to try.
LEMMA FoundPreserves ==
  ASSUME IInv, pc = "judge", pc' = "decide",
         \/ info' = NoInfo
         \/ /\ is_checksum_an_update(local[following])
            /\ info' = [checksum |-> local[following], ref |-> following],
         UNCHANGED <<choices, local, where, check, following, results, cancelled,
                     interrupted, fault, outcome>>
  PROVE  IInv'
<1> USE DEF IInv
<1>1. TypeOK'
  BY DEF TypeOK, choices, NoInfo
<1>2. LocalIsOfBranch'
  BY WorldStays DEF LocalIsOfBranch
<1>3. PlaceIsAllowed'
  BY WorldStays, FixesStay DEF PlaceIsAllowed, Searching
<1>4. InfoIsFound'
  BY WorldStays DEF InfoIsFound, is_checksum_an_update
<1>5. ResultsAreOfPlace'
  BY DEF ResultsAreOfPlace
<1> QED
  BY <1>1, <1>2, <1>3, <1>4, <1>5, StillNothing

LEMMA CheckPreserves ==
  ASSUME IInv, CheckUpdate
  PROVE  IInv'
<1>1. /\ pc = "judge"
      /\ UNCHANGED <<choices, local, where, cancelled, outcome, interrupted, fault>>
  BY DEF CheckUpdate, NoError
<1>2. CASE /\ check = "branch" /\ ~is_checksum_an_update(local[following])
           /\ pc' = "fetch" /\ check' = "checkpoint"
           /\ following' = get_refspec_to_upgrade_on
           /\ results' = None /\ info' = NoInfo
  BY <1>1, <1>2, CrossPreserves
<1>3. CASE /\ \/ info' = NoInfo
              \/ /\ is_checksum_an_update(local[following])
                 /\ info' = [checksum |-> local[following], ref |-> following]
           /\ pc' = "decide" /\ UNCHANGED <<check, following, results>>
  BY <1>1, <1>3, FoundPreserves
<1> QED
  BY <1>2, <1>3 DEF CheckUpdate

\* What is found is offered: here all that has been kept about the place is used.
LEMMA OfferPreserves ==
  ASSUME IInv, pc = "decide", Usable,
         Return([error |-> "", checksum |-> info.checksum, ref |-> info.ref,
                 results |-> results, offline |-> OfflineOnly]),
         interrupted' \in BOOLEAN, fault' \in BOOLEAN
  PROVE  IInv'
<1> DEFINE o == [error |-> "", checksum |-> info.checksum, ref |-> info.ref,
                 results |-> results, offline |-> OfflineOnly]
<1>1. /\ info.checksum = local[following] /\ info.ref = following
      /\ local[following] # 0 /\ is_checksum_an_update(local[following])
  <2>1. /\ info = [checksum |-> local[following], ref |-> following]
        /\ local[following] # 0 /\ is_checksum_an_update(local[following])
    BY DEF IInv, InfoIsFound, Usable
  <2> QED
    BY ONLY <2>1
<1>2. o \in Outcomes
  BY <1>1 DEF IInv, TypeOK, Outcomes, OfflineOnly, Errors
<1>3. /\ pc' = "done" /\ outcome' = o
      /\ UNCHANGED <<choices, local, where, check, following, results>>
  BY DEF Return
<1>4. /\ outcome'.checksum = local[following] /\ outcome'.ref = following
      /\ outcome'.results = results /\ outcome'.offline = (where = "offline")
  BY <1>1, <1>3, Zenon DEF OfflineOnly
<1>5. ResultsFitOffer'
  BY <1>3, <1>4 DEF ResultsFitOffer, IInv, ResultsAreOfPlace, Usable
<1>6. NoDowngrade'
  BY <1>1, <1>3, <1>4, WorldStays DEF NoDowngrade, is_checksum_an_update
<1>7. CheckpointIsBooted'
  <2>1. Crossed' => following \notin FromBooted
    BY <1>3, <1>4, WorldStays DEF Crossed, FromBooted
  <2>2. following \notin FromBooted => following \in FromCheckpoint /\ CheckpointHolds
    BY DEF IInv, PlaceIsAllowed, Searching
  <2>3. /\ FromCheckpoint' = FromCheckpoint /\ CheckpointHolds' = CheckpointHolds
    BY <1>3, FixesStay, WorldStays
  <2> QED
    BY <1>4, <2>1, <2>2, <2>3
    DEF CheckpointIsBooted, FromCheckpoint, CheckpointHolds, NoFixes, RebasedAway
<1> QED
  BY <1>2, <1>5, <1>6, <1>7, EndsWith DEF Promises

LEMMA DecidePreserves ==
  ASSUME IInv, Decide
  PROVE  IInv'
<1>1. pc = "decide" /\ pc # "done" /\ interrupted' \in BOOLEAN /\ fault' \in BOOLEAN
  BY DEF Decide, IInv, TypeOK
<1>2. CASE /\ Usable
           /\ Return([error |-> "", checksum |-> info.checksum, ref |-> info.ref,
                      results |-> results, offline |-> OfflineOnly])
  BY <1>1, <1>2, OfferPreserves
<1>3. CASE Ask("online")
  BY <1>1, <1>3, AskPreserves
<1>4. CASE FallBack
  BY <1>1, <1>4, FallBackPreserves
<1>5. CASE Return(Nothing)
  BY <1>1, <1>5, EndsEmpty
<1>6. where \in {"offline", "online", "main"}
  BY DEF IInv, TypeOK
<1> QED
  BY <1>2, <1>3, <1>4, <1>5, <1>6 DEF Decide

\* Nothing but the cancellable changes.
LEMMA CancelPreserves ==
  ASSUME IInv, cancelled' \in BOOLEAN,
         UNCHANGED <<choices, local, pc, where, check, following, results, info,
                     interrupted, fault, outcome>>
  PROVE  IInv'
<1> USE DEF IInv
<1>1. TypeOK'
  BY DEF TypeOK, choices
<1>2. LocalIsOfBranch' /\ PlaceIsAllowed'
  BY WorldStays, FixesStay DEF LocalIsOfBranch, PlaceIsAllowed, Searching
<1>3. InfoIsFound' /\ ResultsAreOfPlace' /\ NothingYet'
  BY WorldStays DEF InfoIsFound, ResultsAreOfPlace, NothingYet, is_checksum_an_update
<1>4. ResultsFitOffer' /\ NoDowngrade'
  BY WorldStays DEF Promises, ResultsFitOffer, NoDowngrade, Offered
<1>5. CheckpointIsBooted'
  BY WorldStays
  DEF Promises, CheckpointIsBooted, Crossed, Offered, FromBooted, FromCheckpoint
<1> QED
  BY <1>1, <1>2, <1>3, <1>4, <1>5 DEF Promises

LEMMA InitHolds ==
  ASSUME Init
  PROVE  IInv
<1>1. TypeOK
  BY WorldsAssumption, CommitsAssumption DEF Init, TypeOK, Nothing, NoInfo, Errors, BootedRef,
     Booted
<1>2. LocalIsOfBranch
  BY <1>1, WorldType DEF Init, LocalIsOfBranch
<1>3. PlaceIsAllowed /\ InfoIsFound /\ ResultsAreOfPlace /\ NothingYet
  BY DEF Init, PlaceIsAllowed, Searching, InfoIsFound, ResultsAreOfPlace, NothingYet
<1>4. Promises
  BY DEF Init, Nothing, Promises, ResultsFitOffer, NoDowngrade, CheckpointIsBooted, Crossed,
     Offered
<1> QED
  BY <1>1, <1>2, <1>3, <1>4 DEF IInv

-----------------------------------------------------------------------------
(* The theorems.                                                           *)

(* The invariant that makes a poll's offers right: what has been collected is    *)
(* always about the branch the search has come to, and how it came there is      *)
(* known (metadata_fetch_internal, poll_volume_internal).                       *)
THEOREM Invariance == Spec => []IInv
<1>1. Init => IInv
  BY InitHolds
<1>2. IInv /\ [Next]_vars => IInv'
  <2> SUFFICES ASSUME IInv, [Next]_vars
               PROVE  IInv'
    OBVIOUS
  <2>1. CASE Start
    BY <2>1, StartPreserves
  <2>2. CASE fetch_latest_commit
    BY <2>2, FetchPreserves
  <2>3. CASE parse_latest_commit
    BY <2>3, ParsePreserves
  <2>4. CASE CheckUpdate
    BY <2>4, CheckPreserves
  <2>5. CASE Decide
    BY <2>5, DecidePreserves
  <2>6. CASE Cancel
    BY <2>6, CancelPreserves DEF Cancel
  <2>7. CASE UNCHANGED vars
    <3>1. cancelled' \in BOOLEAN
      BY <2>7 DEF vars, IInv, TypeOK
    <3> QED
      BY <2>7, <3>1, CancelPreserves DEF vars
  <2> QED
    BY <2>1, <2>2, <2>3, <2>4, <2>5, <2>6, <2>7 DEF Next, Thread, Done
<1> QED
  BY <1>1, <1>2, PTL DEF Spec

(* Every variable of the poll worker holds what its declaration allows.        *)
THEOREM PollType == Spec => []TypeOK
<1>1. IInv => TypeOK
  BY DEF IInv
<1> QED
  BY <1>1, Invariance, PTL

(* What a poll offers is the repository's commit of the branch it names, from    *)
(* remotes that offer that branch, however it came there (get_latest_commit).   *)
THEOREM OffersFit == Spec => []ResultsFitOffer
<1>1. IInv => ResultsFitOffer
  BY DEF IInv, Promises
<1> QED
  BY <1>1, Invariance, PTL

(* A poll never offers an older commit of the branch that is booted             *)
(* (is_checksum_an_update).                                                  *)
THEOREM NeverDowngrades == Spec => []NoDowngrade
<1>1. IInv => NoDowngrade
  BY DEF IInv, Promises
<1> QED
  BY <1>1, Invariance, PTL

(* A checkpoint is crossed only from the commit that says so, when it is booted  *)
(* and the computer may, and after the fixes of its branch                      *)
(* (check_for_update_following_checkpoint_if_allowed), whatever rebases there    *)
(* are, circles included.                                                    *)
THEOREM CheckpointsAreBooted == Spec => []CheckpointIsBooted
<1>1. IInv => CheckpointIsBooted
  BY DEF IInv, Promises
<1> QED
  BY <1>1, Invariance, PTL

-----------------------------------------------------------------------------
(* CommitSizes, for every width of the integers and every commit.  The         *)
(* inductive invariant adds to the invariants the same order between the exact  *)
(* sums that NewWithinFull has for the published sizes: saturation and clamping *)
(* keep it because both are monotonic.                                       *)

\* There is no more to download than the update is large, in exact numbers.
ExactOrdered ==
  /\ exact["new_archived"] <= exact["archived"]
  /\ exact["new_unpacked"] <= exact["unpacked"]

SizesInv == SizesTypeOK /\ SumsSaturate /\ SizesAreClamped /\ NewWithinFull /\ ExactOrdered /\ SizesAreFresh

\* The macros: an addition saturates exactly where the unbounded sum leaves the
\* range (SATURATED_INCREMENT_GUINT64), whatever the sum has reached.
LEMMA SaturatedIncrement ==
  ASSUME NEW n \in Nat, NEW b \in UInt
  PROVE  /\ SATURATED_INCREMENT(Least(n, MAXUINT), b) = Least(n + b, MAXUINT)
         /\ Least(n + b, MAXUINT) \in UInt
  BY MaxIntAssumption DEF SATURATED_INCREMENT, Least, UInt, MAXUINT

\* Clamping a saturated sum is clamping the sum (CLAMP_GUINT64_TO_GINT64).
LEMMA Clamped ==
  ASSUME NEW n \in Nat
  PROVE  /\ CLAMP(Least(n, MAXUINT)) = Least(n, MAXINT)
         /\ Least(n, MAXINT) \in 0 .. MAXINT
  BY MaxIntAssumption DEF CLAMP, Least, MAXUINT

LEMMA EntryType ==
  ASSUME NEW archived \in UInt, NEW unpacked \in UInt, NEW exists \in BOOLEAN
  PROVE  /\ Entry(archived, unpacked, exists) \in [Kind -> UInt]
         /\ Entry(archived, unpacked, exists)["new_archived"] <= Entry(archived, unpacked, exists)["archived"]
         /\ Entry(archived, unpacked, exists)["new_unpacked"] <= Entry(archived, unpacked, exists)["unpacked"]
  BY MaxIntAssumption DEF Entry, Kind, UInt, MAXUINT

LEMMA InitSizes == SizesInit => SizesInv
  BY MaxIntAssumption, MaxObjectsAssumption
     DEF SizesInit, SizesInv, SizesTypeOK, SumsSaturate, SizesAreClamped, NewWithinFull, ExactOrdered, SizesAreFresh,
         NothingCounted, NotKnown, Kind, UInt, MAXUINT, Least

LEMMA CountSizes ==
  ASSUME SizesInv, NEW archived \in ObjectSize, NEW unpacked \in ObjectSize, NEW exists \in BOOLEAN,
         Count(archived, unpacked, exists)
  PROVE  SizesInv'
<1> DEFINE entry == Entry(archived, unpacked, exists)
<1>1. archived \in UInt /\ unpacked \in UInt
  BY ObjectSizeAssumption
<1>2. /\ entry \in [Kind -> UInt]
      /\ entry["new_archived"] <= entry["archived"]
      /\ entry["new_unpacked"] <= entry["unpacked"]
  BY <1>1, EntryType
<1> HIDE DEF entry
<1>3. /\ phase = "counting" /\ objects < MaxObjects /\ objects' = objects + 1
      /\ sums' = [k \in Kind |-> SATURATED_INCREMENT(sums[k], entry[k])]
      /\ exact' = [k \in Kind |-> exact[k] + entry[k]]
      /\ UNCHANGED <<phase, sizes, known, state>>
  BY DEF Count, entry
<1>4. UInt \subseteq Nat /\ exact \in [Kind -> Nat]
  BY DEF UInt, SizesInv, SizesTypeOK
<1>5. ASSUME NEW k \in Kind
      PROVE  /\ exact'[k] = exact[k] + entry[k] /\ exact'[k] \in Nat
             /\ sums'[k] = Least(exact'[k], MAXUINT) /\ sums'[k] \in UInt
  <2>1. exact[k] \in Nat /\ entry[k] \in UInt /\ entry[k] \in Nat
    BY <1>2, <1>4
  <2>2. sums[k] = Least(exact[k], MAXUINT)
    BY DEF SizesInv, SumsSaturate
  <2> QED
    BY <1>3, <2>1, <2>2, SaturatedIncrement
<1>6. ExactOrdered'
  <2>1. {"archived", "unpacked", "new_archived", "new_unpacked"} = Kind
    BY DEF Kind
  <2>2. \A k \in Kind : exact'[k] = exact[k] + entry[k] /\ exact[k] \in Nat /\ entry[k] \in Nat
    BY <1>2, <1>4, <1>5
  <2> QED
    BY <1>2, <2>1, <2>2 DEF SizesInv, ExactOrdered
<1>7. SizesTypeOK'
  <2>1. exact' \in [Kind -> Nat] /\ sums' \in [Kind -> UInt]
    BY <1>3, <1>5
  <2>2. objects' \in 0 .. MaxObjects
    BY <1>3, MaxObjectsAssumption DEF SizesInv, SizesTypeOK
  <2> QED
    BY <1>3, <2>1, <2>2 DEF SizesInv, SizesTypeOK
<1>8. SumsSaturate'
  BY <1>5 DEF SumsSaturate
<1>9. SizesAreClamped' /\ NewWithinFull' /\ SizesAreFresh'
  BY <1>3 DEF SizesInv, SizesAreClamped, NewWithinFull, SizesAreFresh
<1> QED
  BY <1>6, <1>7, <1>8, <1>9 DEF SizesInv

LEMMA PublishSizes ==
  ASSUME SizesInv, Publish
  PROVE  SizesInv'
<1>1. /\ phase' = "idle" /\ known' = exact
      /\ sizes' = [k \in Kind |-> CLAMP(sums[k])]
      /\ UNCHANGED <<objects, sums, exact, state>>
  BY DEF Publish
<1>2. exact \in [Kind -> Nat]
  BY DEF SizesInv, SizesTypeOK
<1>3. \A k \in Kind : sizes'[k] = Least(exact[k], MAXINT) /\ sizes'[k] \in 0 .. MAXINT
  BY <1>1, <1>2, Clamped DEF SizesInv, SumsSaturate
<1>4. SizesAreClamped'
  BY <1>1, <1>2, <1>3 DEF SizesAreClamped
<1>5. NewWithinFull'
  <2>1. {"archived", "unpacked", "new_archived", "new_unpacked"} = Kind
    BY DEF Kind
  <2>2. ASSUME NEW m \in Nat, NEW n \in Nat, m <= n
        PROVE  Least(m, MAXINT) <= Least(n, MAXINT)
    BY <2>2, MaxIntAssumption DEF Least
  <2> QED
    BY <1>2, <1>3, <2>1, <2>2 DEF NewWithinFull, SizesInv, ExactOrdered
<1>6. SizesTypeOK'
  <2>1. sizes' \in [Kind -> -1 .. MAXINT]
    BY <1>1, <1>3, MaxIntAssumption
  <2> QED
    BY <1>1, <1>2, <2>1 DEF SizesInv, SizesTypeOK
<1>7. SumsSaturate' /\ ExactOrdered' /\ SizesAreFresh'
  BY <1>1 DEF SizesInv, SumsSaturate, ExactOrdered, SizesAreFresh
<1> QED
  BY <1>4, <1>5, <1>6, <1>7 DEF SizesInv

LEMMA NextSizes == SizesInv /\ [SizesNext]_sizesVars => SizesInv'
<1> SUFFICES ASSUME SizesInv, [SizesNext]_sizesVars PROVE SizesInv'
  OBVIOUS
<1> USE DEF SizesInv, SumsSaturate, SizesAreClamped, NewWithinFull, ExactOrdered, SizesAreFresh
<1>1. CASE Found
  BY <1>1, MaxIntAssumption, MaxObjectsAssumption DEF Found, SizesTypeOK, NothingCounted, Kind, UInt, MAXUINT, Least
<1>2. CASE NotFound
  BY <1>2 DEF NotFound, SizesTypeOK
<1>3. CASE Publish
  BY <1>3, PublishSizes
<1>4. CASE NoSizes
  BY <1>4, MaxIntAssumption DEF NoSizes, SizesTypeOK, NotKnown, Kind
<1>5. CASE ReadFails
  BY <1>5 DEF ReadFails, SizesTypeOK
<1>6. CASE \E archived, unpacked \in ObjectSize, exists \in BOOLEAN : Count(archived, unpacked, exists)
  BY <1>6, CountSizes
<1>7. CASE UNCHANGED sizesVars
  BY <1>7 DEF sizesVars, SizesTypeOK
<1> QED
  BY <1>1, <1>2, <1>3, <1>4, <1>5, <1>6, <1>7 DEF SizesNext

LEMMA SizesInvariant == SizesSpec => []SizesInv
  BY InitSizes, NextSizes, PTL DEF SizesSpec

\* The state of the loop and of the properties keeps its types, the properties in
\* the signed range (get_commit_sizes, metadata_fetch_finished).
THEOREM SizesTypeCorrect == SizesSpec => []SizesTypeOK
  BY SizesInvariant, PTL DEF SizesInv

\* The sums saturate and never wrap around (SATURATED_INCREMENT_GUINT64).
THEOREM Saturation == SizesSpec => []SumsSaturate
  BY SizesInvariant, PTL DEF SizesInv

\* The published sizes are the exact ones, clamped, of the update that is announced
\* (CLAMP_GUINT64_TO_GINT64, metadata_fetch_finished).
THEOREM PublishedSizes == SizesSpec => []SizesAreOfUpdate
<1>1. SizesInv => SizesAreOfUpdate
  BY DEF SizesInv, SizesAreOfUpdate
<1> QED
  BY <1>1, SizesInvariant, PTL

\* The download is never larger than the update (DownloadSize, FullDownloadSize).
THEOREM DownloadWithinUpdate == SizesSpec => []NewWithinFull
  BY SizesInvariant, PTL DEF SizesInv
=============================================================================
