------------------------------- MODULE Absent -------------------------------
(* What stands where there is nothing: SQL null, undefined, a key that a map does not have. *)
CONSTANT None
=============================================================================
