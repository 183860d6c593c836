---------------------------- MODULE MCStopOnPass ----------------------------
(* Three cases of two attempts on two workers. *)
EXTENDS StopOnPass
=============================================================================
