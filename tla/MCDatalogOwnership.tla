------------------------- MODULE MCDatalogOwnership -------------------------
(* Instances of DatalogOwnership for TLC; the values are in the .cfg files. *)
EXTENDS DatalogOwnership
=============================================================================
