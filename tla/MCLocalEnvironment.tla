------------------------- MODULE MCLocalEnvironment -------------------------
(* A small instance of LocalEnvironment for TLC; the sizes are in the .cfg. *)
EXTENDS LocalEnvironment
=============================================================================
