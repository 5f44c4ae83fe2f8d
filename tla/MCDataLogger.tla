---------------------------- MODULE MCDataLogger ----------------------------
(* Instances of DataLogger for TLC; the values are in the .cfg files. *)
EXTENDS DataLogger
=============================================================================
