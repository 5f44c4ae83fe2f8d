---------------------------- MODULE MCRawEncoder ----------------------------
(* Instances of RawEncoder for TLC; the values are in the .cfg files. *)
EXTENDS RawEncoder
=============================================================================
