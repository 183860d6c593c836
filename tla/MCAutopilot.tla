---------------------------- MODULE MCAutopilot ----------------------------
(* A small instance of Autopilot for TLC; the sizes are in the .cfg. *)
EXTENDS Autopilot
=============================================================================
