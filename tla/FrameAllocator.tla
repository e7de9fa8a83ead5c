--------------------------- MODULE FrameAllocator ---------------------------
(***************************************************************************)
(* xsk_alloc_frame and xsk_free_frame of src/af_xdp/af_xdp_main.c, called  *)
(* by the IO thread and the worker thread of a queue on the same           *)
(* xsk_umem_info with no lock.  Both functions load umem_frame_free once   *)
(* and then access the count and the slot in an order left to the          *)
(* compiler, so after the load the remaining accesses of a call happen in  *)
(* any order (a slot is read before it is cleared) and interleave with     *)
(* those of the other thread.                                              *)
(*                                                                         *)
(* Where the frames outside the free list are is FastpathQueue's subject:  *)
(* here they are the set "out", from which either thread may free one.     *)
(***************************************************************************)
EXTENDS Integers, FiniteSets, Sequences

CONSTANTS
    NumFrames,  \* NUM_FRAMES
    Preloaded,  \* frames taken by configure_socket before the threads start
    Threads     \* the IO thread and the worker thread

ASSUME AllocatorAssumption ==
    /\ NumFrames \in Nat \ {0}
    /\ Preloaded \in 0 .. NumFrames

VARIABLES
    umem_frame_addr,    \* 0 .. NumFrames - 1 |-> a frame or INVALID
    umem_frame_free,
    out,                \* frames outside the free list
    call,               \* thread |-> its call under way
    overlapped          \* history: two calls have overlapped

vars == <<umem_frame_addr, umem_frame_free, out, call, overlapped>>

Frames == 0 .. NumFrames - 1

\* INVALID_UMEM_FRAME
INVALID == -1

Idle == [op |-> "none", cnt |-> 0, frame |-> INVALID, todo |-> {}]

Init ==
    /\ umem_frame_addr = [i \in Frames |-> IF i < NumFrames - Preloaded THEN i ELSE INVALID]
    /\ umem_frame_free = NumFrames - Preloaded
    /\ out = {i \in Frames : i >= NumFrames - Preloaded}
    /\ call = [t \in Threads |-> Idle]
    /\ overlapped = FALSE

Alone(t) == \A u \in Threads \ {t} : call[u] = Idle

Begins(t) ==
    /\ call[t] = Idle
    /\ overlapped' = (overlapped \/ ~Alone(t))

-----------------------------------------------------------------------------
\* xsk_alloc_frame: an empty list returns INVALID_UMEM_FRAME and does nothing.

AllocEmpty(t) ==
    /\ Begins(t)
    /\ umem_frame_free = 0
    /\ UNCHANGED <<umem_frame_addr, umem_frame_free, out, call>>

\* Mutant: the empty test is forgotten.
AllocLoad_NoTest(t) ==
    /\ Begins(t)
    /\ call' = [call EXCEPT ![t] = [op |-> "alloc", cnt |-> umem_frame_free,
                                    frame |-> INVALID, todo |-> {"count", "read", "clear"}]]
    /\ UNCHANGED <<umem_frame_addr, umem_frame_free, out>>

AllocLoad(t) ==
    /\ Begins(t)
    /\ umem_frame_free > 0
    /\ call' = [call EXCEPT ![t] = [op |-> "alloc", cnt |-> umem_frame_free,
                                    frame |-> INVALID, todo |-> {"count", "read", "clear"}]]
    /\ UNCHANGED <<umem_frame_addr, umem_frame_free, out>>

AllocCount(t) ==
    /\ call[t].op = "alloc" /\ "count" \in call[t].todo
    /\ umem_frame_free' = call[t].cnt - 1
    /\ call' = [call EXCEPT ![t].todo = @ \ {"count"}]
    /\ UNCHANGED <<umem_frame_addr, out, overlapped>>

\* Mutant: the frame at the bottom of the list is returned.
AllocRead_First(t) ==
    /\ call[t].op = "alloc" /\ "read" \in call[t].todo
    /\ call' = [call EXCEPT ![t].todo = @ \ {"read"}, ![t].frame = umem_frame_addr[0]]
    /\ UNCHANGED <<umem_frame_addr, umem_frame_free, out, overlapped>>

AllocRead(t) ==
    /\ call[t].op = "alloc" /\ "read" \in call[t].todo
    /\ call' = [call EXCEPT ![t].todo = @ \ {"read"},
                            ![t].frame = umem_frame_addr[call[t].cnt - 1]]
    /\ UNCHANGED <<umem_frame_addr, umem_frame_free, out, overlapped>>

AllocClear(t) ==
    /\ call[t].op = "alloc" /\ "clear" \in call[t].todo /\ "read" \notin call[t].todo
    /\ umem_frame_addr' = [umem_frame_addr EXCEPT ![call[t].cnt - 1] = INVALID]
    /\ call' = [call EXCEPT ![t].todo = @ \ {"clear"}]
    /\ UNCHANGED <<umem_frame_free, out, overlapped>>

\* Mutant: the slot is cleared and returned, but the count is not lowered.
AllocReturn_Leaky(t) ==
    /\ call[t].op = "alloc" /\ call[t].todo = {}
    /\ umem_frame_free' = call[t].cnt
    /\ out' = out \cup ({call[t].frame} \ {INVALID})
    /\ call' = [call EXCEPT ![t] = Idle]
    /\ UNCHANGED <<umem_frame_addr, overlapped>>

AllocReturn(t) ==
    /\ call[t].op = "alloc" /\ call[t].todo = {}
    /\ out' = out \cup ({call[t].frame} \ {INVALID})
    /\ call' = [call EXCEPT ![t] = Idle]
    /\ UNCHANGED <<umem_frame_addr, umem_frame_free, overlapped>>

-----------------------------------------------------------------------------
\* xsk_free_frame: a full list drops the frame silently.

FreeDropped(t, f) ==
    /\ Begins(t)
    /\ umem_frame_free >= NumFrames
    /\ out' = out \ {f}
    /\ UNCHANGED <<umem_frame_addr, umem_frame_free, call>>

FreeLoad(t, f) ==
    /\ Begins(t)
    /\ umem_frame_free < NumFrames
    /\ out' = out \ {f}
    /\ call' = [call EXCEPT ![t] = [op |-> "free", cnt |-> umem_frame_free,
                                    frame |-> f, todo |-> {"count", "store"}]]
    /\ UNCHANGED <<umem_frame_addr, umem_frame_free>>

FreeCount(t) ==
    /\ call[t].op = "free" /\ "count" \in call[t].todo
    /\ umem_frame_free' = call[t].cnt + 1
    /\ call' = [call EXCEPT ![t].todo = @ \ {"count"}]
    /\ UNCHANGED <<umem_frame_addr, out, overlapped>>

FreeStore(t) ==
    /\ call[t].op = "free" /\ "store" \in call[t].todo
    /\ umem_frame_addr' = [umem_frame_addr EXCEPT ![call[t].cnt] = call[t].frame]
    /\ call' = [call EXCEPT ![t].todo = @ \ {"store"}]
    /\ UNCHANGED <<umem_frame_free, out, overlapped>>

FreeReturn(t) ==
    /\ call[t].op = "free" /\ call[t].todo = {}
    /\ call' = [call EXCEPT ![t] = Idle]
    /\ UNCHANGED <<umem_frame_addr, umem_frame_free, out, overlapped>>

-----------------------------------------------------------------------------
Next ==
    \E t \in Threads :
        \/ AllocEmpty(t) \/ AllocLoad(t)
        \/ AllocCount(t) \/ AllocRead(t) \/ AllocClear(t) \/ AllocReturn(t)
        \/ \E f \in out : FreeDropped(t, f) \/ FreeLoad(t, f)
        \/ FreeCount(t) \/ FreeStore(t) \/ FreeReturn(t)

Spec == Init /\ [][Next]_vars

-----------------------------------------------------------------------------
Ops == [op : {"none", "alloc", "free"}, cnt : 0 .. NumFrames,
        frame : Frames \cup {INVALID}, todo : SUBSET {"count", "read", "clear", "store"}]

TypeOK ==
    /\ umem_frame_addr \in [Frames -> Frames \cup {INVALID}]
    /\ umem_frame_free \in 0 .. NumFrames
    /\ out \subseteq Frames
    /\ call \in [Threads -> Ops]
    /\ overlapped \in BOOLEAN

\* However the two threads' calls interleave, no access leaves umem_frame_addr:
\* the race costs frames, not memory.
IndexInBounds ==
    /\ umem_frame_free \in 0 .. NumFrames
    /\ \A t \in Threads :
        /\ call[t].op = "alloc" => call[t].cnt - 1 \in Frames
        /\ call[t].op = "free" => call[t].cnt \in Frames

Listed == {umem_frame_addr[i] : i \in 0 .. umem_frame_free - 1}

\* Between calls every frame is in the free list once or outside it, never both.
PoolExact ==
    (\A t \in Threads : call[t] = Idle) =>
        /\ Listed \cup out = Frames
        /\ Listed \cap out = {}
        /\ Cardinality(Listed) = umem_frame_free

\* As long as no two calls have overlapped the free list is exact: FastpathQueue,
\* whose calls are single steps, is what the code does until then.
ExactUntilOverlap == ~overlapped => PoolExact

\* The frame an xsk_alloc_frame takes: the last listed, until it is read.
Taken(c, a) == IF "read" \in c.todo THEN a[c.cnt - 1] ELSE c.frame

\* The first n slots, and f on top of them.
Listing(a, n) == [i \in 1 .. n |-> a[i - 1]]
Topped(a, n, f) == [i \in 1 .. n + 1 |-> IF i = n + 1 THEN f ELSE a[i - 1]]

\* An xsk_alloc_frame takes its frame when it returns, an xsk_free_frame puts it
\* back when it begins, whatever they have written so far.
During(c, a) ==
    IF c.op = "alloc" THEN Topped(a, c.cnt - 1, Taken(c, a)) ELSE Topped(a, c.cnt, c.frame)

StackOf(calls, a, n) ==
    IF \A t \in Threads : calls[t] = Idle THEN Listing(a, n)
    ELSE During(calls[CHOOSE t \in Threads : calls[t] # Idle], a)

Stack == StackOf(call, umem_frame_addr, umem_frame_free)

\* Until two calls overlap the array is a stack whose calls are single steps: this is
\* what FastpathQueue takes both functions for.
Pool == INSTANCE FrameStack WITH stack <- Stack, misused <- overlapped

ImplementsStack == Pool!Spec
=============================================================================
