--------------------------- MODULE MCFastpathQueue ---------------------------
(***************************************************************************)
(* The instances of FastpathQueue that TLC checks: the constants are given *)
(* in the .cfg files, scaled down from 4096 frames and batches of 32.      *)
(***************************************************************************)
EXTENDS FastpathQueue

\* FrameReturns for the first frame that a packet is received into: a received
\* packet's frame always gets back to the free list or the fill ring.  The other
\* frames differ from it only in their place in the initial stack.
WatchedFrameReturns == FrameReturns(NumFrames - 1)
=============================================================================
