-------------------------- MODULE MCFrameAllocator --------------------------
(* Small instances of FrameAllocator for TLC: the bitmap is smaller than the *)
(* memory it describes, as in the kernel, and a batch does not divide it.     *)
EXTENDS FrameAllocator
=============================================================================
