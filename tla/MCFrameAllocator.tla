-------------------------- MODULE MCFrameAllocator --------------------------
(***************************************************************************)
(* The instances of FrameAllocator that TLC checks.                        *)
(***************************************************************************)
EXTENDS FrameAllocator, TLC

\* The two threads run the same two functions.
ThreadSymmetry == Permutations(Threads)
=============================================================================
