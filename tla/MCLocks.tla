------------------------------ MODULE MCLocks ------------------------------
(* Locks for TLC: two harts, each with a task and a handler. *)
EXTENDS Locks
=============================================================================
