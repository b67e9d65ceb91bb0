---------------------------- MODULE MCAutoUpdater ----------------------------
(* Instances of AutoUpdater for TLC.                                         *)
EXTENDS AutoUpdater
=============================================================================
