------------------------- MODULE MCOutputProvenance -------------------------
(* Three calls of one user on one root. *)
EXTENDS OutputProvenance
=============================================================================
