--------------------------- MODULE MCHarborProcess ---------------------------
(* A small instance of HarborProcess for TLC; the sizes are in the .cfg.  No
   symmetry: the run checks liveness. *)
EXTENDS HarborProcess
=============================================================================
