----------------------------- MODULE MCHarborRun -----------------------------
(* Small instances of HarborRun for TLC. *)
EXTENDS HarborRun
=============================================================================
