--------------------------- MODULE ServiceFileClient ---------------------------
(***************************************************************************)
(* A client of avahi-service-file.c checks options and generates files by      *)
(* them, in a directory that is cleaned up meanwhile, maybe by another.        *)
(***************************************************************************)
EXTENDS ServiceFile

CONSTANTS
    Options,     \* the dictionaries of options a client may give
    Present,     \* for each of them, the files that may be there at first
    AnyContent   \* of these files

ASSUME ArgumentsAssumption ==
    /\ Options \subseteq [Option -> Nat \cup {Unset}] /\ Present \in [Options -> SUBSET SUBSET Name]

(* The indexes of repositories are unsigned numbers of 16 bits.                 *)
Indexes == 0 .. 65535
ASSUME IndexesAssumption ==
    \A o \in Options : /\ repository_index(o) \in Indexes
                       /\ \E n \in Name : IndexOf[n] = repository_index(o)

VARIABLES
    options, timestamp,  \* the arguments
    checked,             \* what eos_ostree_avahi_service_file_check_options said
    generated,           \* what generating stumbled over
    cleanup,             \* how far cleaning the directory is
    listed,              \* the names its enumerator has yet to return
    added                \* history: what was generated since it began

clientVars == <<directory, options, timestamp, checked, generated, cleanup, listed, added>>

Others == {n \in Name : IndexOf[n] \notin Indexes}

ClientInit ==
    /\ options \in Options /\ timestamp \in Timestamps
    /\ \E names \in Present[options] :
          directory = [n \in Name |-> IF n \in names THEN AnyContent ELSE NoFile]
    /\ checked = "no" /\ generated = {"no"}
    /\ cleanup = "no" /\ listed = {} /\ added = {}

Check ==
    /\ checked' = IF check_options(options) THEN "valid" ELSE "invalid"
    /\ UNCHANGED <<directory, options, timestamp, generated, cleanup, listed, added>>

GenerateFile ==
    /\ generated' = Failures(options, timestamp)
    /\ IF generated' = {}
         THEN /\ generate(options, Ref, timestamp)
              /\ added' = added \cup {service_file(repository_index(options))}
         ELSE UNCHANGED <<directory, added>>
    /\ UNCHANGED <<options, timestamp, checked, cleanup, listed>>

(* eos_ostree_avahi_service_file_cleanup_directory.                           *)
CleanupBegins ==
    /\ cleanup # "going"
    /\ cleanup' = "going" /\ added' = {}
    /\ listed' = {n \in Name : directory[n] # NoFile}
    /\ UNCHANGED <<directory, options, timestamp, checked, generated>>

(* Mutant: any number will do.                                               *)
IsOursUnbounded(n) == IndexOf[n] \in Nat

IsOurs(n) == IndexOf[n] \in Indexes

(* iterate_and_remove_ostree_service_files: the next file; one that is gone     *)
(* already is none to fail over.                                             *)
CleanupNext(n) ==
    /\ cleanup = "going" /\ n \in listed
    /\ directory' = IF IsOurs(n) THEN [directory EXCEPT ![n] = NoFile] ELSE directory
    /\ listed' = listed \ {n}
    /\ UNCHANGED <<options, timestamp, checked, generated, cleanup, added>>

(* The directory cannot be listed, or not to its end, or one of the files        *)
(* cannot be deleted: what comes later stays.                                  *)
CleanupFails ==
    /\ cleanup = "going"
    /\ cleanup' = "failed" /\ listed' = {}
    /\ UNCHANGED <<directory, options, timestamp, checked, generated, added>>

CleanupEnds ==
    /\ cleanup = "going" /\ listed = {}
    /\ cleanup' = "done"
    /\ UNCHANGED <<directory, options, timestamp, checked, generated, listed, added>>

ClientNext ==
    \/ Check \/ GenerateFile
    \/ CleanupBegins \/ CleanupEnds \/ CleanupFails
    \/ \E n \in Name : CleanupNext(n)

ClientSpec == ClientInit /\ [][ClientNext]_clientVars

-----------------------------------------------------------------------------

ClientTypeOK ==
    /\ directory \in [Name -> {NoFile, AnyContent} \cup [refs : {Ref}, timestamp : Nat]]
    /\ options \in [Option -> Nat \cup {Unset}] /\ timestamp \in Int
    /\ checked \in {"no", "valid", "invalid"}
    /\ generated \subseteq {"no", "version", "bloom", "port", "timestamp", "record", "level", "total"}
    /\ cleanup \in {"no", "going", "done", "failed"}
    /\ listed \subseteq Name /\ added \subseteq Name

(* What the check of the options passes does not fail at them, and what it       *)
(* refuses does: only the time stamp and the total size are left to see.        *)
CheckAgrees ==
    generated # {"no"} =>
        /\ checked = "valid" => generated \subseteq {"timestamp", "total"}
        /\ checked = "invalid" => generated # {}

(* The records of options that are valid are never too long each, and together   *)
(* only for the two tightest limits: what the tests call likely impossible is.    *)
OnlyTightLimits ==
    checked = "valid" =>
        /\ "record" \notin generated
        /\ "total" \in generated => size_level(options) \in {CUSTOM, SUPPORT_FAULTY_HARDWARE}

(* Cleaning up touches no file but those with the indexes of repositories, and   *)
(* once it succeeded none is left of those that were there when it began.        *)
CleanupIsExact ==
    [][/\ \A n \in Others : directory'[n] = directory[n]
       /\ cleanup' = "done" /\ cleanup = "going" =>
             \A n \in Name \ Others : directory'[n] = NoFile \/ n \in added']_clientVars

=============================================================================
