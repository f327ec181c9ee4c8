--------------------------- MODULE MCCapacityLocks ---------------------------
(* Small instances of CapacityLocks for TLC. *)
EXTENDS CapacityLocks
=============================================================================
