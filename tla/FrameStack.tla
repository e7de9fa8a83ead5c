----------------------------- MODULE FrameStack -----------------------------
(***************************************************************************)
(* What xsk_alloc_frame and xsk_free_frame promise to callers that take    *)
(* turns: a stack of the free frames.  A call takes the top frame or puts  *)
(* one back on top, in one step; a returned frame always finds room.       *)
(* FastpathQueue's threads use this stack, and FrameAllocator provides it.  *)
(* Once two callers have not taken turns nothing is promised any more.     *)
(***************************************************************************)
EXTENDS Integers, Sequences

CONSTANTS
    NumFrames,
    Preloaded   \* frames not in the stack at the start

VARIABLES
    stack,      \* the free frames, the top one last
    out,        \* the frames in use
    misused     \* two calls have overlapped

vars == <<stack, out, misused>>

Init ==
    /\ stack = [i \in 1 .. NumFrames - Preloaded |-> i - 1]
    /\ out = NumFrames - Preloaded .. NumFrames - 1
    /\ misused = FALSE

Take ==
    /\ stack # <<>>
    /\ out' = out \cup {stack[Len(stack)]}
    /\ stack' = SubSeq(stack, 1, Len(stack) - 1)
    /\ UNCHANGED misused

Give(f) ==
    /\ Len(stack) < NumFrames
    /\ stack' = Append(stack, f)
    /\ out' = out \ {f}
    /\ UNCHANGED misused

Misuse == misused' = TRUE

Next == Misuse \/ Take \/ \E f \in out : Give(f)

Spec == Init /\ [][Next]_vars
=============================================================================
