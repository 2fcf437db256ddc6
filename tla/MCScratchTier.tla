---------------------------- MODULE MCScratchTier ----------------------------
(***************************************************************************)
(* Two or three files and one or two restores for TLC.                     *)
(***************************************************************************)
EXTENDS ScratchTier
=============================================================================
