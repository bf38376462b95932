-------------------------- MODULE MCActivityReader --------------------------
(* Three callers of the activity reader for TLC. *)
EXTENDS ActivityReader
=============================================================================
