----------------------------- MODULE MCVirtMem -----------------------------
(* VirtMem for TLC: frames are interchangeable.                              *)
EXTENDS VirtMem, TLC

FrameSymmetry == Permutations(Frames)
=============================================================================
