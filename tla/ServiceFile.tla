----------------------------- MODULE ServiceFile -----------------------------
(***************************************************************************)
(* avahi-service-file.c: the files by which Avahi is told to advertise a     *)
(* repository.  Whether one is generated depends on options that the caller   *)
(* gives and on what the TXT records come to.                               *)
(***************************************************************************)
EXTENDS Integers

CONSTANTS
    Name,      \* names of files in the directory
    IndexOf,   \* the number in a name of the form eos-ostree-updater-N.service
    NoIndex,   \* what IndexOf is for other names, a negative number
    NoFile,    \* what a name has that no file bears
    Ref,
    Timestamps \* time stamps of summaries: negative for dates that GDateTime does not have

ASSUME IndexAssumption ==
    /\ NoIndex \in Int /\ NoIndex < 0 /\ IndexOf \in [Name -> Nat \cup {NoIndex}]
    /\ \A m, n \in Name : IndexOf[m] = IndexOf[n] /\ IndexOf[m] # NoIndex => m = n
ASSUME TimestampsAssumption == Timestamps \subseteq Int

VARIABLE directory  \* the contents of the files by their names

-----------------------------------------------------------------------------

(* Options are a dictionary, in which a key is missing or of the wrong type, or  *)
(* has a number; what is not there has its default.  A custom size has none.   *)
Unset == -1
Option == {"force_version", "bloom_hash_id", "bloom_k", "bloom_size", "repository_index",
           "port", "size_level", "custom_size"}
lookup(options, key, default) == IF options[key] = Unset THEN default ELSE options[key]

NoOptions == [key \in Option |-> Unset]

bloom_size(options) == lookup(options, "bloom_size", 250)
repository_index(options) == lookup(options, "repository_index", 0)
size_level(options) == lookup(options, "size_level", 2)

CUSTOM == 0
SUPPORT_FAULTY_HARDWARE == 1
ABSOLUTELY_LAX == 6
Limit == <<256, 400, 1300, 8900, 65535>>

check_version(options) == lookup(options, "force_version", 1) = 1

(* get_and_check_bloom_size: a record has room for "rb", "=" and two bytes more. *)
check_bloom_size(options) == bloom_size(options) \in 1 .. 255 - 2 - 3

check_bloom(options) ==
    /\ check_bloom_size(options)
    /\ lookup(options, "bloom_k", 1) # 0
    /\ lookup(options, "bloom_hash_id", 1) = 1
check_port(options) == lookup(options, "port", 43381) # 0

check_size_level(options) ==
    /\ size_level(options) \in 0 .. 6
    /\ size_level(options) = CUSTOM => options["custom_size"] # Unset

(* Mutant: the port is left for generating to check.                          *)
check_options_portless(options) ==
    /\ check_version(options) /\ check_bloom(options) /\ check_size_level(options)

(* eos_ostree_avahi_service_file_check_options.                              *)
check_options(options) ==
    /\ check_version(options) /\ check_bloom(options)
    /\ check_port(options) /\ check_size_level(options)

(* The lengths of the four records: key, equal sign, and value.                *)
record_sizes(options) ==
    <<1 + 1 + 1, 2 + 1 + (1 + 1 + bloom_size(options)), 2 + 1 + 8, 2 + 1 + 2>>

check_record_sizes(options) == \A i \in 1 .. 4 : record_sizes(options)[i] <= 255

(* Each record is preceded by a byte for its length.                           *)
total_size(options) ==
    LET size == record_sizes(options) IN (1 + size[1]) + (1 + size[2]) + (1 + size[3]) + (1 + size[4])

(* validate_total_size, of a size level that is valid.                         *)
validate_total_size(options) ==
    \/ ~check_size_level(options)
    \/ size_level(options) = ABSOLUTELY_LAX
    \/ size_level(options) = CUSTOM /\ total_size(options) <= options["custom_size"]
    \/ size_level(options) \in 1 .. 5 /\ total_size(options) <= Limit[size_level(options)]

(* What generating a file stumbles over; the first of these is the error.       *)
Failures(options, timestamp) ==
    {c \in {"version", "bloom", "port", "timestamp", "record", "level", "total"} :
        \/ c = "version" /\ ~check_version(options)
        \/ c = "bloom" /\ ~check_bloom(options)
        \/ c = "port" /\ ~check_port(options)
        \/ c = "timestamp" /\ timestamp < 0
        \/ c = "record" /\ ~check_record_sizes(options)
        \/ c = "level" /\ ~check_size_level(options)
        \/ c = "total" /\ ~validate_total_size(options)}

service_file(index) == CHOOSE n \in Name : IndexOf[n] = index

(* eos_ostree_avahi_service_file_generate, when nothing fails: the file that was  *)
(* there is replaced in one go.                                              *)
generate(options, refs, timestamp) ==
    /\ Failures(options, timestamp) = {}
    /\ directory' = [directory EXCEPT ![service_file(repository_index(options))] =
                       [refs |-> refs, timestamp |-> timestamp]]

(* eos_ostree_avahi_service_file_delete, when it does not fail.                 *)
delete(index) == directory' = [directory EXCEPT ![service_file(index)] = NoFile]

=============================================================================
