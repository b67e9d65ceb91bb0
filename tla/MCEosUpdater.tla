---------------------------- MODULE MCEosUpdater ----------------------------
(* Instances of EosUpdater for TLC.                                          *)
EXTENDS EosUpdater, TLC

CONSTANTS c0, c1, c2   \* commits; c2 is on another branch than c0 and c1

MCRefspec == [c \in Commits |-> IF c = c2 THEN "os:new" ELSE "os:old"]

=============================================================================
