---------------------------- MODULE MCStateFile ----------------------------
(* An instance of StateFile for TLC. *)
EXTENDS StateFile
=============================================================================
