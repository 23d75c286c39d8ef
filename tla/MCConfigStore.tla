---------------------------- MODULE MCConfigStore ----------------------------
(***************************************************************************)
(* Two processes that load, create and save two configurations, and as     *)
(* many files as they can name and hold open.                              *)
(***************************************************************************)
EXTENDS ConfigStore

CONSTANT custom
=============================================================================
