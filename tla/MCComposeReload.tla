--------------------------- MODULE MCComposeReload ---------------------------
(* Instances of ComposeReload for TLC. *)
EXTENDS ComposeReload
=============================================================================
