-------------------------- MODULE MCAuthorization --------------------------
(* A small instance of Authorization.tla for TLC. *)
EXTENDS Authorization, TLC
=============================================================================
