----------------------------- MODULE MCLevelDB -----------------------------
(* Instances of LevelDB for TLC. *)
EXTENDS LevelDB, TLC
=============================================================================
