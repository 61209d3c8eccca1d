----------------------------- MODULE MCTaskward -----------------------------
(* Small instances of Taskward for TLC. *)
EXTENDS Taskward
=============================================================================
