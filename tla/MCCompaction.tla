----------------------------- MODULE MCCompaction -----------------------------
(***************************************************************************)
(* Compaction, with a compaction free to end an output table between two   *)
(* entries of one key, as LevelDB's is.                                    *)
(***************************************************************************)
EXTENDS Compaction, TLC
=============================================================================
