---------------------------- MODULE MCCommitSizes ----------------------------
(* Integers of two bits: three objects overflow the unsigned sums, one object   *)
(* the signed properties.                                                        *)
EXTENDS CommitSizes
==============================================================================
