-------------------------- MODULE MCSecurePublish --------------------------
(* The module has no size: TLC sees every behaviour. *)
EXTENDS SecurePublish
=============================================================================
