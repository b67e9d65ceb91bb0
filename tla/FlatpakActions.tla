--------------------------- MODULE FlatpakActions ---------------------------
(***************************************************************************)
(* The lists of flatpaks to install, update and uninstall                    *)
(* (libeos-updater-util/flatpak-util.c): how the files of the autoinstall      *)
(* directories become one list of actions in the order they are performed.    *)
(* These are pure functions; FlatpakLists checks them on lists that grow, and  *)
(* FlatpakInstaller runs what they return.                                   *)
(***************************************************************************)
EXTENDS Integers, Sequences, SequencesExt

CONSTANTS
    Ref,        \* the flatpaks
    Files,      \* the names of the autoinstall files, in lexicographical order
    MAXINT,     \* the largest serial number: 2^31 - 1 in the code
    Runtimes,   \* for each flatpak, the runtimes it needs, which others may need, too
    Extensions  \* and the extensions that come and go with it

ASSUME FilesAssumption == Files \in Seq(STRING) /\ IsInjective(Files)
ASSUME MaxIntAssumption == MAXINT \in Nat \ {0}
ASSUME RelatedAssumption ==
    /\ {Runtimes, Extensions} \subseteq [Ref -> SUBSET Ref]
    /\ \A r \in Ref : IsFiniteSet(Runtimes[r]) /\ IsFiniteSet(Extensions[r])

Type == {"install", "uninstall", "update"}
Int32 == -MAXINT - 1 .. MAXINT

-----------------------------------------------------------------------------
(* Reading one file.  An entry is [object, filters, action, serial, ref,       *)
(* complete]: whether it is an object with a proper "filters" member, its      *)
(* filters in order, and whether it has the other members its type needs.      *)
(* The value NotString stands for anything but a string in a filter's array.   *)

NotString == "<not a string>"
Filters == {"architecture", "~architecture", "locale", "~locale"}

strv_element_in_json_string_node_list(strv, values) ==
    LET decisive == {i \in DOMAIN values : values[i] = NotString \/ values[i] \in strv}
    IN  IF decisive = {} THEN "absent"
        ELSE IF values[Min(decisive)] = NotString THEN "malformed" ELSE "present"

action_filter_applies(filter, system) ==
    LET strv == IF filter.key \in {"architecture", "~architecture"}
                THEN {system.arch} ELSE system.locales
        found == strv_element_in_json_string_node_list(strv, filter.values)
    IN  CASE filter.key \notin Filters -> "unknown"
          [] filter.key \in Filters /\ found = "malformed" -> "malformed"
          [] OTHER -> IF (found = "present") <=> (filter.key \in {"architecture", "locale"})
                      THEN "kept" ELSE "filtered"

(* The first filter that does not keep the entry decides.                     *)
action_node_should_be_filtered_out(entry, system) ==
    LET keys == {entry.filters[i].key : i \in DOMAIN entry.filters}
        applies(i) == action_filter_applies(entry.filters[i], system)
        decisive == {i \in DOMAIN entry.filters : applies(i) # "kept"}
    IN  CASE {"architecture", "~architecture"} \subseteq keys -> "malformed"
          [] {"locale", "~locale"} \subseteq keys -> "malformed"
          [] OTHER -> IF decisive = {} THEN "kept" ELSE applies(Min(decisive))

is_valid_serial(serial) == serial \in Int32

(* Mutant: an entry that lacks a member is skipped.                            *)
IncompleteSkipped(entry) ==
    CASE entry.action = "" -> "malformed"
      [] entry.action \notin Type \cup {""} -> "unknown"
      [] OTHER -> IF ~is_valid_serial(entry.serial) THEN "malformed"
                  ELSE IF entry.complete THEN "action" ELSE "unknown"

flatpak_remote_ref_action_from_json_node(entry) ==
    CASE entry.action = "" -> "malformed"
      [] entry.action \notin Type \cup {""} -> "unknown"
      [] OTHER -> IF is_valid_serial(entry.serial) /\ entry.complete THEN "action" ELSE "malformed"

(* What becomes of an entry: only an "action" is kept, only "malformed" fails.  *)
Read(entry, system) ==
    IF ~entry.object THEN "malformed"
    ELSE LET filtered == action_node_should_be_filtered_out(entry, system)
         IN  IF filtered = "kept" THEN flatpak_remote_ref_action_from_json_node(entry) ELSE filtered

Action(type, ref, source, serial, dependency) ==
    [type |-> type, ref |-> ref, source |-> source, serial |-> serial, dependency |-> dependency]

-----------------------------------------------------------------------------
(* Sorting.  g_ptr_array_sort is a stable merge sort; positions are            *)
(* differences of 32-bit integers and may overflow.                          *)

Minus32(a, b) == ((a - b + MAXINT + 1) % (2 * MAXINT + 2)) - MAXINT - 1

Order(serials) == IF serials < 0 THEN -1 ELSE IF serials = 0 THEN 0 ELSE 1

(* Mutant: dependencies come first when a flatpak is uninstalled, too.         *)
DependenciesFirstAlways(a, b) ==
    LET position == Minus32(a.serial, b.serial)
    IN  IF position # 0 \/ a.dependency = b.dependency THEN Order(position)
        ELSE IF a.dependency THEN -1 ELSE 1

sort_flatpak_remote_ref_actions(a, b) ==
    LET position == Minus32(a.serial, b.serial)
        both(types) == a.type \in types /\ b.type \in types
    IN  IF position # 0 \/ a.dependency = b.dependency THEN Order(position)
        ELSE CASE both({"install", "update"}) -> IF a.dependency THEN -1 ELSE 1
               [] both({"uninstall"}) -> IF a.dependency THEN 1 ELSE -1
               [] OTHER -> 0

(* How many of the first k elements of the merged sequence are from s, if i of   *)
(* those before were.                                                       *)
TakenNext(s, t, i, k) ==
    IF k - i > Len(t) \/ (i < Len(s) /\ sort_flatpak_remote_ref_actions(s[i + 1], t[k - i]) <= 0)
    THEN i + 1 ELSE i

Taken(s, t) ==
    LET taken[k \in 0 .. Len(s) + Len(t)] == IF k = 0 THEN 0 ELSE TakenNext(s, t, taken[k - 1], k)
    IN  taken

(* (<<>> \o f is f: TLC then evaluates f once, and not wherever it is applied.) *)
Merged(s, t) ==
    LET taken == Taken(s, t)
    IN  <<>> \o [k \in 1 .. Len(s) + Len(t) |->
                    IF taken[k - 1] < taken[k] THEN s[taken[k]] ELSE t[k - taken[k]]]

Parts(s) == {SubSeq(s, i, j) : i \in 1 .. Len(s) + 1, j \in 0 .. Len(s)}

FirstHalf(s) == SubSeq(s, 1, Len(s) \div 2)
SecondHalf(s) == SubSeq(s, Len(s) \div 2 + 1, Len(s))

Sorted(actions) ==
    LET sorted[s \in Parts(actions)] ==
          IF Len(s) <= 1 THEN s ELSE Merged(sorted[FirstHalf(s)], sorted[SecondHalf(s)])
    IN  sorted

g_ptr_array_sort(actions) ==
    IF Len(actions) <= 1 THEN actions ELSE Sorted(actions)[actions]

(* The elements at some places of a sequence, in their order.                  *)
Places(s, places) ==
    <<>> \o [k \in 1 .. Cardinality(places) |->
        s[CHOOSE i \in places : Cardinality({j \in places : j < i}) = k - 1]]

Failed == [ok |-> FALSE, actions |-> <<>>]

(* The actions of the entries kept, and what is returned if all could be read:  *)
(* a serial number may be given only once.                                     *)
Actions(file, kept) ==
    [i \in DOMAIN kept |-> Action(kept[i].action, kept[i].ref, file, kept[i].serial, FALSE)]

WithoutDuplicates(actions) ==
    IF \E i \in 2 .. Len(actions) : actions[i - 1].serial = actions[i].serial
    THEN Failed ELSE [ok |-> TRUE, actions |-> actions]

read_flatpak_ref_actions_from_node(file, entries, system) ==
    LET read == [i \in DOMAIN entries |-> Read(entries[i], system)]
    IN  IF "malformed" \in Range(read) THEN Failed
        ELSE WithoutDuplicates(g_ptr_array_sort(
                Actions(file, Places(entries, {i \in DOMAIN entries : read[i] = "action"}))))

(* The files of a directory join those read so far, unless a directory that is  *)
(* more important has one of that name.                                        *)
euu_flatpak_ref_actions_append_from_directory(table, directory, priority, system) ==
    LET new == {f \in DOMAIN directory : f \in DOMAIN table => table[f].priority >= priority}
    IN  [f \in DOMAIN table \cup DOMAIN directory |->
            IF f \in new
            THEN [priority |-> priority,
                  read |-> read_flatpak_ref_actions_from_node(f, directory[f], system)]
            ELSE table[f]]

(* The lists themselves.                                                      *)
euu_hoist_flatpak_remote_ref_actions(table) ==
    [ok |-> \A f \in DOMAIN table : table[f].read.ok,
     table |-> [f \in DOMAIN table |-> table[f].read.actions]]

(* A directory is a function from the names of its files to their entries; one  *)
(* that does not exist has none.  A file that cannot be read fails it all.      *)
Tables(directories, system) ==
    LET tables[d \in 0 .. Len(directories)] ==
          IF d = 0 THEN <<>>
          ELSE euu_flatpak_ref_actions_append_from_directory(tables[d - 1], directories[d], d, system)
    IN  tables

euu_flatpak_ref_actions_from_paths(directories, system) ==
    euu_hoist_flatpak_remote_ref_actions(Tables(directories, system)[Len(directories)])

-----------------------------------------------------------------------------
(* Squashing: one action for each flatpak.                                   *)

(* Mutant: the latest action always takes over.                              *)
LatestTakesOver(new, old) == TRUE

TakesOver(new, old) == new.type \in {"install", "uninstall"} \/ old.type = "update"

(* Where in a list the action is that remains for a flatpak, 0 without one.    *)
RemainingOfTwo(actions, ref, old, new) ==
    IF actions[new].ref = ref /\ (old = 0 \/ TakesOver(actions[new], actions[old])) THEN new ELSE old

Latest(actions, ref) ==
    LET last[n \in 0 .. Len(actions)] == IF n = 0 THEN 0 ELSE RemainingOfTwo(actions, ref, last[n - 1], n)
    IN  last

Remaining(actions, ref) == Latest(actions, ref)[Len(actions)]

squash_ref_actions_ptr_array(actions) ==
    g_ptr_array_sort(Places(actions, {i \in DOMAIN actions : Remaining(actions, actions[i].ref) = i}))

(* The lists of all files, one after the other.                              *)
Concatenated(table) ==
    FlattenSeq(<<>> \o [i \in DOMAIN Files |-> IF Files[i] \in DOMAIN table THEN table[Files[i]] ELSE <<>>])

euu_flatten_flatpak_ref_actions_table(table) == squash_ref_actions_ptr_array(Concatenated(table))

-----------------------------------------------------------------------------
(* Splitting at the progress of a file, the serial number last applied.  A     *)
(* file without one is not in the function progresses.                       *)

(* The first action that is newer, or one past the last.                      *)
FirstNew(actions, progress) ==
    LET newer == {i \in DOMAIN actions : actions[i].serial > progress}
    IN  IF newer = {} THEN Len(actions) + 1 ELSE Min(newer)

(* Mutant: an action that is applied is applied again.                        *)
KeepFromLast(file, actions, progresses) ==
    IF file \notin DOMAIN progresses THEN actions
    ELSE SubSeq(actions, FirstNew(actions, progresses[file] - 1), Len(actions))

keep_only_new_actions(file, actions, progresses) ==
    IF file \notin DOMAIN progresses THEN actions
    ELSE SubSeq(actions, FirstNew(actions, progresses[file]), Len(actions))

keep_only_existing_actions(file, actions, progresses) ==
    IF file \notin DOMAIN progresses THEN <<>>
    ELSE SubSeq(actions, 1, FirstNew(actions, progresses[file]) - 1)

euu_filter_for_new_flatpak_ref_actions(table, progresses) ==
    [f \in DOMAIN table |-> squash_ref_actions_ptr_array(keep_only_new_actions(f, table[f], progresses))]

euu_filter_for_existing_flatpak_ref_actions(table, progresses) ==
    [f \in DOMAIN table |-> squash_ref_actions_ptr_array(keep_only_existing_actions(f, table[f], progresses))]

-----------------------------------------------------------------------------
(* Dependencies.  A flatpak is "absent", "old" or "new"; flatpak resolves what  *)
(* an action on it entails.                                                  *)

(* External: the operations of a transaction other than the action's own.  A    *)
(* runtime stays when a flatpak goes; what is up to date is left alone.        *)
find_related_refs_for_action(action, installed) ==
    LET operation == IF action.type = "install" /\ installed[action.ref] # "absent" THEN "update"
                     ELSE action.type
        types == IF operation = "uninstall"
                 THEN [r \in Extensions[action.ref] |-> IF installed[r] = "absent" THEN "" ELSE "uninstall"]
                 ELSE [r \in Runtimes[action.ref] \cup Extensions[action.ref] |->
                          CASE installed[r] = "absent" -> "install"
                            [] installed[r] = "old" -> "update"
                            [] installed[r] = "new" -> ""]
        refs == SetToSeq({r \in DOMAIN types : types[r] # ""})
    IN  IF action.type # "install" /\ installed[action.ref] = "absent" THEN <<>>
        ELSE [i \in DOMAIN refs |-> Action(types[refs[i]], refs[i], action.source, action.serial, TRUE)]

(* A dependency is left out if an action before it takes care of it.           *)
WithoutRepetitions(list, related) ==
    Places(related, {k \in DOMAIN related :
        related[k].type = "uninstall" \/ \A i \in DOMAIN list : list[i].ref # related[k].ref})

WithDependencies(list, action, installed) ==
    LET related == find_related_refs_for_action(action, installed)
    IN  IF action.type = "uninstall"
        THEN Append(list, action) \o WithoutRepetitions(Append(list, action), related)
        ELSE list \o Append(WithoutRepetitions(list, related), action)

Lengthened(actions, installed) ==
    LET list[n \in 0 .. Len(actions)] ==
          IF n = 0 THEN <<>> ELSE WithDependencies(list[n - 1], actions[n], installed)
    IN  list

euu_add_dependency_ref_actions_for_installation(actions, installed) ==
    squash_ref_actions_ptr_array(Lengthened(actions, installed)[Len(actions)])

-----------------------------------------------------------------------------
(* What an action makes of a flatpak when it succeeds (perform_action in        *)
(* perform-flatpak-actions.c), and what a list does one action after the other. *)

Performed(action, version) ==
    CASE action.type = "uninstall" -> "absent"
      [] action.type = "install" -> "new"
      [] action.type = "update" -> IF version = "absent" THEN "absent" ELSE "new"

StateAfter(state, action) == [state EXCEPT ![action.ref] = Performed(action, @)]

States(actions, installed) ==
    LET after[n \in 0 .. Len(actions)] ==
          IF n = 0 THEN installed ELSE StateAfter(after[n - 1], actions[n])
    IN  after

Effect(actions, installed) == States(actions, installed)[Len(actions)]
=============================================================================
