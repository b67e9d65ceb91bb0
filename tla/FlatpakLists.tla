---------------------------- MODULE FlatpakLists ----------------------------
(***************************************************************************)
(* The autoinstall directories as distributors and administrators fill them,   *)
(* entry by entry, and what flatpak-util.c makes of every such content.       *)
(***************************************************************************)
EXTENDS FlatpakActions

CONSTANTS
    Directories,    \* the numbers of directories that are searched; for each,
    Candidates,     \* the entries considered,
    Computers,      \* the systems considered: [arch, locales],
    MaxCandidates   \* and the bound: entries in all files together

ASSUME ListsAssumption ==
    /\ Directories \subseteq Nat \ {0} /\ MaxCandidates \in [Directories -> Nat]
    /\ Candidates \in [Directories ->
            SUBSET [object : BOOLEAN, filters : Seq([key : STRING, values : Seq(STRING)]),
                    action : STRING, serial : Int, ref : Ref, complete : BOOLEAN]]
    /\ Computers \in [Directories -> SUBSET [arch : STRING, locales : SUBSET STRING]]

VARIABLES
    directories,    \* each a function from file names to entries
    computer        \* the architecture and the locales

listsVars == <<directories, computer>>

N == Len(directories)

File == {Files[i] : i \in DOMAIN Files}
Size == FoldLeft(LAMBDA n, d : n + FoldLeft(LAMBDA m, f : m + IF f \in DOMAIN d THEN Len(d[f]) ELSE 0, 0, Files),
                 0, directories)

ListsInit ==
    /\ \E n \in Directories :
          /\ directories = [d \in 1 .. n |-> <<>>]
          /\ computer \in Computers[n]

(* An entry is appended to a file, which may be new.                          *)
AppendEntry(d, f, entry) ==
    /\ Size < MaxCandidates[N]
    /\ LET directory == directories[d]
           entries == IF f \in DOMAIN directory THEN directory[f] ELSE <<>>
       IN  directories' = [directories EXCEPT ![d] =
               [g \in DOMAIN directory \cup {f} |-> IF g = f THEN Append(entries, entry) ELSE directory[g]]]
    /\ UNCHANGED computer

ListsNext == \E d \in 1 .. N, f \in File, entry \in Candidates[N] : AppendEntry(d, f, entry)

ListsSpec == ListsInit /\ [][ListsNext]_listsVars

-----------------------------------------------------------------------------

Lists == euu_flatpak_ref_actions_from_paths(directories, computer)
Flattened == euu_flatten_flatpak_ref_actions_table(Lists.table)
Version == {"absent", "old", "new"}
SameEffect(s, t, installed) == Effect(s, installed) = Effect(t, installed)
Before(s, a, b) == \E i, j \in DOMAIN s : i < j /\ s[i] = a /\ s[j] = b

ListsTypeOK ==
    /\ computer \in Computers[N]
    /\ \A f \in DOMAIN Lists.table : \A i \in DOMAIN Lists.table[f] :
        Lists.table[f][i] \in [type : Type, ref : Ref, source : {f}, serial : Int32, dependency : {FALSE}]

(* A file is read from the first directory that has it, whatever stands in the  *)
(* others, broken files included (append_from_directory's priorities).         *)
FirstDirectoryWins ==
    LET has(f) == {d \in 1 .. N : f \in DOMAIN directories[d]}
        first(f) == CHOOSE d \in has(f) : \A e \in has(f) : d <= e
        present == {f \in File : has(f) # {}}
        reads == [f \in present |-> read_flatpak_ref_actions_from_node(f, directories[first(f)][f], computer)]
    IN  /\ Lists.ok <=> \A f \in present : reads[f].ok
        /\ Lists.ok => Lists.table = [f \in present |-> reads[f].actions]

(* Whether an entry is acted upon does not depend on the order of its filters:  *)
(* every one of them has to be known and to apply, and a filter and its inverse *)
(* with the same values never both apply (action_node_should_be_filtered_out). *)
FiltersAllApply ==
    LET applies(filter) ==
          LET mine == IF filter.key \in {"architecture", "~architecture"}
                      THEN {computer.arch} ELSE computer.locales
              listed == \E i \in DOMAIN filter.values : filter.values[i] \in mine
          IN  \/ filter.key \in {"architecture", "locale"} /\ listed
              \/ filter.key \in {"~architecture", "~locale"} /\ ~listed
        strings(entry) == \A i \in DOMAIN entry.filters : \A j \in DOMAIN entry.filters[i].values :
                              entry.filters[i].values[j] # NotString
    IN  \A entry \in Candidates[N] : strings(entry) /\ Read(entry, computer) = "action" =>
            \A i \in DOMAIN entry.filters : applies(entry.filters[i])

(* A broken entry which is wanted on this system fails its file, so that nothing *)
(* is done by halves: a file that is read has done or will do all its wanted     *)
(* entries of known types, in the order of distinct serial numbers.           *)
BrokenFailsFile ==
    \A f \in File, d \in 1 .. N : f \in DOMAIN directories[d] =>
        LET entries == directories[d][f]
            read == read_flatpak_ref_actions_from_node(f, entries, computer)
            wanted == {i \in DOMAIN entries : ~entries[i].object
                          \/ /\ action_node_should_be_filtered_out(entries[i], computer) = "kept"
                             /\ entries[i].action \in Type}
        IN  read.ok => /\ \A i \in wanted : entries[i].object /\ entries[i].complete
                       /\ Len(read.actions) = Cardinality(wanted)
                       /\ {read.actions[i].serial : i \in DOMAIN read.actions} = {entries[i].serial : i \in wanted}

(* What is read is what the files ask for on this system: the first directory    *)
(* that has a file, all filters, and nothing by halves.                        *)
ReadsWhatIsWanted == FirstDirectoryWins /\ FiltersAllApply /\ BrokenFailsFile

SquashesRight(flat, table) ==
    /\ \A i, j \in DOMAIN flat : flat[i].ref = flat[j].ref => i = j
    /\ \A v \in Version : SameEffect(flat, Concatenated(table), [r \in Ref |-> v])
    /\ \A i, j \in DOMAIN flat : i < j /\ flat[i].source = flat[j].source =>
          Before(table[flat[i].source], flat[i], flat[j])

(* One action remains for each flatpak, and performing those that remain makes  *)
(* of every flatpak what performing all of them, file after file, would have.   *)
(* (No flatpak's version matters to another's, so they may all be the same.)    *)
(* Actions of one file are in the order of the file: the progress of a file      *)
(* never passes an action not done.                                          *)
SquashKeepsEffect == Lists.ok => SquashesRight(Flattened, Lists.table)

SplitsRight(existing, new, all, progress) ==
    /\ \A i \in DOMAIN existing : existing[i].serial <= progress
    /\ \A i \in DOMAIN new : new[i].serial > progress
    /\ \A v \in Version : SameEffect(existing \o new, all, [r \in Ref |-> v])

SplitsAnywhere(table) ==
    \A progress \in Int32 :
        LET progresses == [f \in DOMAIN table |-> progress]
            existing == euu_filter_for_existing_flatpak_ref_actions(table, progresses)
            new == euu_filter_for_new_flatpak_ref_actions(table, progresses)
        IN  \A f \in DOMAIN table : SplitsRight(existing[f], new[f], table[f], progress)

(* Split at any progress, the two parts of a file do together what the file     *)
(* does, nothing that is applied is new, and nothing is both.                 *)
SplitIsComplete == Lists.ok => SplitsAnywhere(Lists.table)

(* Dependencies apart from what is listed: nothing that an entry names is needed  *)
(* by what another names, an extension belongs to one flatpak, and what is needed *)
(* needs nothing itself.                                                     *)
Needs(r) == Runtimes[r] \cup Extensions[r]
Apart(listed) ==
    \A r, s \in listed :
        /\ Needs(r) \cap listed = {}
        /\ r # s => Extensions[r] \cap Needs(s) = {}
        /\ \A d \in Needs(r) : Needs(d) \cap (listed \cup Needs(s)) = {}
DependenciesApart == \A n \in Directories : Apart({e.ref : e \in Candidates[n]})

InPlace(list, installed) ==
    \A i, j \in DOMAIN list :
        list[i].type = "install" \/ installed[list[i].ref] # "absent" =>
        IF list[i].type = "uninstall" THEN list[j].ref \in Extensions[list[i].ref] => i < j
        ELSE list[j].ref \in Runtimes[list[i].ref] \cup Extensions[list[i].ref] => j < i

InPlaceAnywhere(flat) ==
    \A installed \in [Ref -> Version] :
        InPlace(euu_add_dependency_ref_actions_for_installation(flat, installed), installed)

(* Dependencies are installed before what needs them and uninstalled after it,  *)
(* a dependency two flatpaks share before the first of them.  (What is not      *)
(* installed is not updated, and needs nothing.)                             *)
DependenciesInPlace == Lists.ok => InPlaceAnywhere(Flattened)

-----------------------------------------------------------------------------
(* What the documentation says, and the code does not do.                     *)

(* flatpak-autoinstall.d(5): the files' sorted contents are concatenated.       *)
FilesAreConcatenated ==
    Lists.ok => \A i, j \in DOMAIN Flattened : i < j => Before(Concatenated(Lists.table), Flattened[i], Flattened[j])

(* squash_ref_actions_ptr_array: ordered by the order key in each action.       *)
OrderedBySerial ==
    Lists.ok => \A i, j \in DOMAIN Flattened : i < j => Flattened[i].serial <= Flattened[j].serial

(* euu_add_dependency_ref_actions_for_installation: in the install or update     *)
(* case, dependencies are before the original action.                        *)
DependenciesFirst ==
    Lists.ok => \A installed \in [Ref -> Version] :
        LET list == euu_add_dependency_ref_actions_for_installation(Flattened, installed)
        IN  \A i, j \in DOMAIN list :
                /\ list[j].ref \in Runtimes[list[i].ref] \cup Extensions[list[i].ref]
                /\ list[i].type = "install" /\ list[j].type = "install"
                /\ installed[list[j].ref] = "absent"
                => j < i
=============================================================================
