----------------------------- MODULE MCIdAlloc -----------------------------
(* IdAlloc for TLC: two whole blocks and a tail that is none. *)
EXTENDS IdAlloc
=============================================================================
