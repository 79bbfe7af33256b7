----------------------------- MODULE MCDevices -----------------------------
(* Devices for TLC: two flows, one disk of two sectors of two bytes. *)
EXTENDS Devices

\* Part of a sector and then a whole one, the rest of the first, and a read
\* of all of that.
MCFsCalls == {<<"write", 1, 3>>, <<"write", 0, 1>>, <<"read", 0, 3>>}
MCVdaReads == {<<1, 1>>}
MCRemovals == <<Blk, Rng>>
=============================================================================
