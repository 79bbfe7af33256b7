---------------------------- MODULE MCMemoryMap ----------------------------
(* Small instances of MemoryMap. *)
EXTENDS MemoryMap, TLC

FrameSymmetry == Permutations(Frames)

=============================================================================
