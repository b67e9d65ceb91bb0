---------------------------- MODULE MCContentFetch ----------------------------
(* Instances of ContentFetch for TLC.                                        *)
EXTENDS ContentFetch
=============================================================================
