----------------------------- MODULE MC_Server -----------------------------
(***************************************************************************)
(* Server instantiated for TLC; the constants come from the .cfg files.    *)
(***************************************************************************)
EXTENDS Server

=============================================================================
