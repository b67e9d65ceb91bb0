----------------------------- MODULE MCServiceFile -----------------------------
(* Instances of ServiceFileClient: all combinations of a few values of each       *)
(* option, at and beside the limits; and a directory with files of the updater's   *)
(* and of others to clean up.                                                *)
EXTENDS ServiceFileClient, TLC

CONSTANTS zero, six, large, other, one

MCIndexOf == [n \in Name |-> CASE n = zero -> 0 [] n = six -> 6 [] n = large -> 100000 [] n = other -> -1]
MCNoIndex == -1

Chosen(v, h, k, b, p, l, c) ==
    [NoOptions EXCEPT !["force_version"] = v, !["bloom_hash_id"] = h, !["bloom_k"] = k,
       !["bloom_size"] = b, !["port"] = p, !["size_level"] = l, !["custom_size"] = c]
MCAllOptions ==
    {Chosen(v, h, k, b, p, l, c) :
        v \in {Unset, 0, 2}, h \in {Unset, 0, 1}, k \in {Unset, 0}, b \in {Unset, 0, 12, 250, 251},
        p \in {Unset, 0}, l \in {Unset} \cup 0 .. 7, c \in {Unset, 0, 277, 278}}
MCTimestamps == {-1, 1}

(* Files are there where options do not matter.                               *)
MCFewOptions == {NoOptions, [NoOptions EXCEPT !["repository_index"] = 6], [NoOptions EXCEPT !["port"] = 0]}
MCOptions == MCAllOptions \cup MCFewOptions
MCPresent == [o \in MCOptions |-> IF o \in MCFewOptions THEN SUBSET Name ELSE {{}}]

=============================================================================
