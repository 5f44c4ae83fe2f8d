---------------------------- MODULE MCCommSession ----------------------------
(* Instances of CommSession for TLC; the values are in the .cfg files. *)
EXTENDS CommSession
=============================================================================
