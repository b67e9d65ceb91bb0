------------------------------ MODULE ConfigFile ------------------------------
(***************************************************************************)
(* EuuConfigFile, config-util.c: a hierarchy of key files that are loaded      *)
(* when a query first comes to them, and the queries, which take a key from    *)
(* the first file that has it and the last resort, the defaults compiled in.   *)
(*                                                                         *)
(* A file is the groups it has and the values of its keys; a key is its group  *)
(* and its name.  A broken file cannot be read, or parsed to its end: what of   *)
(* it was parsed before is left in the key file.                             *)
(***************************************************************************)
EXTENDS Naturals, Sequences, FiniteSetsExt, Functions

CONSTANTS
    N,        \* n_paths: how many files there are above the defaults
    Contents, \* what a file may contain
    Default,  \* what the compiled-in file contains
    Keys,     \* what is asked for
    MaxEdits  \* bound: edits of files

ASSUME NAssumption == N \in Nat \ {0} /\ MaxEdits \in Nat /\ Default \in Contents

VARIABLES
    disk,     \* what is at each path
    key_files, \* what has been loaded, a prefix of the paths
    answers,  \* what each key was last successfully answered with
    failed,   \* a query was answered with an error
    aborted,  \* an assertion of the code failed
    edits     \* how often files were edited while the object lived (history)

fileVars == <<disk, key_files, answers, failed, aborted, edits>>

-----------------------------------------------------------------------------

Empty == [groups |-> {}, value |-> <<>>]

Files == [state : {"missing"}, contents : {Empty}]
         \cup [state : {"ok", "broken"}, contents : Contents]

HasKey(file, k) == k \in DOMAIN file.value

(* What loading a file may leave in its key file.                            *)
Loads(file) ==
    CASE file.state = "missing" -> {Empty}
      [] file.state = "ok" -> {file.contents}
      [] file.state = "broken" ->
            {[groups |-> {k[1] : k \in keys}, value |-> Restrict(file.contents.value, keys)] :
                keys \in SUBSET DOMAIN file.contents.value}

(* euu_config_file_ensure_loaded for every path up to one.                   *)
ensure_loaded(upto) ==
    LET from == Len(key_files)
        possible == UNION {Loads(disk[i]) : i \in 1..N}
    IN  IF upto <= from THEN UNCHANGED key_files
        ELSE \E loaded \in [1..upto - from -> possible] :
                /\ \A i \in 1..upto - from : loaded[i] \in Loads(disk[from + i])
                /\ key_files' = key_files \o loaded

(* The paths at which a search loads a file that is broken.                  *)
Failing == {i \in Len(key_files) + 1..N : disk[i].state = "broken"}

(* The paths at which a search for a key ends, with it or with an error.      *)
Ending(k) ==
    Failing
    \cup {i \in 1..Len(key_files) : HasKey(key_files[i], k)}
    \cup {i \in Len(key_files) + 1..N : disk[i].state = "ok" /\ HasKey(disk[i].contents, k)}

End(k) == Min(Ending(k) \cup {N + 1})

(* Mutant: of the files that were loaded before, the last one counts.        *)
HolderLast(k, i) ==
    LET above == {j \in 1..Len(key_files) : HasKey(key_files[j], k)}
    IN  IF above # {} THEN key_files[Max(above)]
        ELSE IF i <= N THEN disk[i].contents ELSE Default

(* The file a search that ends at a path takes the key from.                  *)
Holder(k, i) ==
    IF i <= Len(key_files) THEN key_files[i]
    ELSE IF i <= N THEN disk[i].contents ELSE Default

(* euu_config_file_get_string and its like: a key that is in no file, not even  *)
(* in the defaults, fails an assertion.                                      *)
Get(k) ==
    /\ ~aborted
    /\ ensure_loaded(Min({End(k), N}))
    /\ CASE End(k) \in Failing ->
              failed' = TRUE /\ UNCHANGED <<answers, aborted>>
         [] End(k) \notin Failing /\ HasKey(Holder(k, End(k)), k) ->
              /\ answers' = [answers EXCEPT ![k] = <<Holder(k, End(k)).value[k]>>]
              /\ UNCHANGED <<failed, aborted>>
         [] End(k) \notin Failing /\ ~HasKey(Holder(k, End(k)), k) ->
              aborted' = TRUE /\ UNCHANGED <<answers, failed>>
    /\ UNCHANGED <<disk, edits>>

(* euu_config_file_get_groups: everything is loaded.                         *)
Groups == Default.groups \cup UNION {key_files[i].groups : i \in DOMAIN key_files}

get_groups ==
    /\ ~aborted
    /\ ensure_loaded(Min(Failing \cup {N}))
    /\ failed' = (failed \/ Failing # {})
    /\ UNCHANGED <<disk, answers, aborted, edits>>

(* The administrator installs, edits or removes a file while the object lives.  *)
Edit(i) ==
    /\ edits < MaxEdits /\ edits' = edits + 1
    /\ disk' \in {[disk EXCEPT ![i] = f] : f \in Files}
    /\ UNCHANGED <<key_files, answers, failed, aborted>>

-----------------------------------------------------------------------------

FilesInit ==
    /\ disk \in [1..N -> Files]
    /\ key_files = <<>>
    /\ answers = [k \in Keys |-> <<>>]
    /\ failed = FALSE /\ aborted = FALSE /\ edits = 0

-----------------------------------------------------------------------------
(* Properties.                                                             *)

(* The key files hold what was once at a path, and are loaded in order.         *)
FilesTypeOK ==
    /\ disk \in [1..N -> Files]
    /\ key_files \in Seq(UNION {Loads(f) : f \in Files}) /\ Len(key_files) <= N
    /\ DOMAIN answers = Keys /\ \A k \in Keys : Len(answers[k]) <= 1
    /\ failed \in BOOLEAN /\ aborted \in BOOLEAN /\ edits \in 0..MaxEdits

(* A key is answered alike for as long as the object lives, whatever happens to *)
(* the files and however much of the hierarchy other queries load in between.   *)
StableAnswers == \A k \in Keys : answers[k] # <<>> => answers'[k] = answers[k]

(* The value of a key in the first file that has it, as the files are.         *)
First(k) ==
    LET having == {i \in 1..N : disk[i].state # "missing" /\ HasKey(disk[i].contents, k)}
    IN  IF having = {} THEN Default.value[k] ELSE disk[Min(having)].contents.value[k]

(* An object whose queries have not failed, and whose files nobody edits, answers *)
(* with the value of the first file that has the key, in whichever order the     *)
(* keys are asked for.                                                       *)
FirstFileWinsUnlessFailed ==
    \A k \in Keys : answers[k] # <<>> /\ ~failed /\ edits = 0 => answers[k] = <<First(k)>>

(* The comment on EuuConfigFile: a query returns the value from the first       *)
(* configuration file in the hierarchy which contains that key.               *)
FirstFileWins == \A k \in Keys : answers[k] # <<>> /\ edits = 0 => answers[k] = <<First(k)>>

=============================================================================
