----------------------------- MODULE ServerConfig -----------------------------
(***************************************************************************)
(* eus_read_config_file, config.c of libeos-update-server: what               *)
(* eos-update-server and eos-updater-avahi read of eos-update-server.conf,     *)
(* by queries to an EuuConfigFile.  Other programs ask for keys in any order.    *)
(***************************************************************************)
EXTENDS ConfigFile, Integers

CONSTANTS
    Queried,  \* the keys that other programs ask for
    IndexOf,  \* the groups of repositories, and the number in each one's name
    Invalid   \* what IndexOf is for a group whose name has no valid number

Advertise == <<"Local Network Updates", "AdvertiseUpdates">>
Path(g) == <<g, "Path">>
RemoteName(g) == <<g, "RemoteName">>

ASSUME KeysAssumption ==
    /\ Queried \subseteq Keys
    /\ Keys = {Advertise} \cup UNION {{Path(g), RemoteName(g)} : g \in DOMAIN IndexOf}

VARIABLES
    pc,        \* the query the function is at, or how it returned; "other" if
               \* another program has the object
    todo,      \* groups not yet looked at
    group,     \* the one looked at
    advertise_updates,
    repository_configs

reader == <<pc, todo, group, advertise_updates, repository_configs>>
allVars == <<fileVars, reader>>

-----------------------------------------------------------------------------

(* Where a query leaves the function: it returns its errors.                  *)
Continue(next) ==
    pc' = IF aborted' THEN "aborted" ELSE IF failed' THEN "failed" ELSE next

(* A value that is no boolean is an error too.                               *)
ReadAdvertise ==
    /\ pc = "start"
    /\ Get(Advertise)
    /\ IF answers'[Advertise] = <<"neither">> THEN pc' = "failed" ELSE Continue("groups")
    /\ advertise_updates' = (answers'[Advertise] = <<"true">>)
    /\ UNCHANGED <<todo, group, repository_configs>>

ReadGroups ==
    /\ pc = "groups"
    /\ get_groups
    /\ Continue("next")
    /\ todo' = Groups' \cap DOMAIN IndexOf
    /\ UNCHANGED <<group, advertise_updates, repository_configs>>

(* The next group, in whichever order; its number must be one.                *)
ReadPath ==
    /\ pc = "next"
    /\ \E g \in todo :
          /\ group' = g /\ todo' = todo \ {g}
          /\ \/ IndexOf[g] = Invalid /\ pc' = "failed" /\ UNCHANGED fileVars
             \/ IndexOf[g] # Invalid /\ Get(Path(g)) /\ Continue("remote")
    /\ UNCHANGED <<advertise_updates, repository_configs>>

IsNew(configs, index) == \A c \in configs : c.index # index

ReadRemoteName ==
    /\ pc = "remote"
    /\ Get(RemoteName(group))
    /\ \/ ~aborted' /\ ~failed' /\ IsNew(repository_configs, IndexOf[group])
          /\ repository_configs' = repository_configs \cup
                {[group |-> group, index |-> IndexOf[group],
                  path |-> answers'[Path(group)], remote |-> answers'[RemoteName(group)]]}
          /\ pc' = "next"
       \/ /\ aborted' \/ failed' \/ ~IsNew(repository_configs, IndexOf[group])
          /\ Continue("failed")
          /\ UNCHANGED repository_configs
    /\ UNCHANGED <<todo, group, advertise_updates>>

Done ==
    /\ pc = "next" /\ todo = {}
    /\ pc' = "done"
    /\ UNCHANGED <<fileVars, todo, group, advertise_updates, repository_configs>>

ReadInit ==
    /\ FilesInit
    /\ pc \in {"start", "other"} /\ todo = {} /\ group = "" /\ advertise_updates = FALSE
    /\ repository_configs = {}

eus_read_config_file == ReadAdvertise \/ ReadGroups \/ ReadPath \/ ReadRemoteName \/ Done

OtherProgram == pc = "other" /\ (get_groups \/ \E k \in Queried : Get(k)) /\ UNCHANGED reader
Administrator == (\E i \in 1..N : Edit(i)) /\ UNCHANGED reader

ReadSpec == ReadInit /\ [][eus_read_config_file \/ OtherProgram \/ Administrator]_allVars

-----------------------------------------------------------------------------
(* Properties.                                                             *)

(* Unless files are edited meanwhile, reading succeeds only with a repository    *)
(* for every group that is named as one in any of the files, each key taken from *)
(* the first file that has it.  No two repositories have one index, whose prefix *)
(* of the server would be two handlers', although different groups may have it.  *)
ReadIsComplete ==
    pc = "done" /\ edits = 0 =>
       /\ advertise_updates = (First(Advertise) = "true")
       /\ repository_configs =
             {[group |-> g, index |-> IndexOf[g],
               path |-> <<First(Path(g))>>, remote |-> <<First(RemoteName(g))>>] :
                g \in DOMAIN IndexOf
                       \cap (Default.groups \cup UNION {disk[i].contents.groups : i \in 1..N})}
       /\ \A c, d \in repository_configs : c.index = d.index => c = d

(* Reading is complete because every query is right: of the first file that has  *)
(* its key, and alike each time.                                             *)
AnswersHold == [][ReadIsComplete' /\ FirstFileWinsUnlessFailed' /\ StableAnswers]_allVars

(* The assertion of the queries: a key that is asked for is in some file.       *)
KeysExist == ~aborted

=============================================================================
