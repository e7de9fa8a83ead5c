---------------------------- MODULE FastpathQueue ----------------------------
(***************************************************************************)
(* One queue of src/af_xdp/af_xdp_main.c: where each UMEM frame is while    *)
(* the IO thread, the worker thread and the kernel hand frames to each     *)
(* other through the fill ring, the RX ring, rx_ring, tx_ring, the TX ring *)
(* and the completion ring.                                                *)
(*                                                                         *)
(*   free -> fq -> (kernel) -> rx -> rx_ring -> worker -> tx_ring          *)
(*     ^                                          |          |             *)
(*     +------------------------------------------+          v             *)
(*     +---- cq <- (kernel) <- tx <--------------------------+             *)
(*                                                                         *)
(* rx_ring and tx_ring are the bounded FIFO queues that SpscRing is proved  *)
(* to implement.  A packet is the frame that holds it; what the worker      *)
(* finds in it is one of three verdicts.  A call of xsk_alloc_frame or      *)
(* xsk_free_frame is one step here; FrameAllocator models what two          *)
(* overlapping calls do.                                                   *)
(***************************************************************************)
EXTENDS Integers, Sequences, FiniteSets

CONSTANTS
    NumFrames,  \* NUM_FRAMES
    RingSize,   \* SPSC_RING_SIZE
    FillSize,   \* XSK_RING_PROD__DEFAULT_NUM_DESCS: fill ring size and preload
    RxSize,     \* XSK_RING_CONS__DEFAULT_NUM_DESCS
    TxSize,     \* XSK_RING_PROD__DEFAULT_NUM_DESCS
    Batch       \* 32: descriptors peeked, reserved or completed at once

\* 4096, 4096, 2048, 2048, 2048 and 32 in the source.
ASSUME SizesAssumption ==
    /\ {NumFrames, RingSize, FillSize, RxSize, TxSize, Batch} \subseteq Nat \ {0}
    /\ Batch <= FillSize
    /\ FillSize <= NumFrames
    /\ NumFrames <= RingSize

VARIABLES
    free,           \* umem_frame_addr[0 .. umem_frame_free - 1], a stack
    fq,             \* fill ring: the frames in it
    fq_bad,         \* fill ring: how many of its descriptors are INVALID_UMEM_FRAME
    rx,             \* RX ring
    rx_ring,        \* IO thread -> worker thread
    tx_ring,        \* worker thread -> IO thread
    tx,             \* TX ring
    cq,             \* completion ring
    outstanding_tx, \* xsk->outstanding_tx
    io,             \* the IO thread: program counter and locals
    worker          \* the worker thread: program counter and locals

rings == <<free, fq, fq_bad, rx, rx_ring, tx_ring, tx, cq>>
vars == <<rings, outstanding_tx, io, worker>>

Frames == 0 .. NumFrames - 1

Min2(a, b) == IF a < b THEN a ELSE b

\* No frame in a thread's local variable (INVALID_UMEM_FRAME for a borrowed one).
INVALID == -1

IoAt(pc) == [pc |-> pc, n |-> 0, got |-> 0, staged |-> <<>>, bad |-> 0]

WorkerAt(pc) == [pc |-> pc, frame |-> INVALID, query |-> INVALID]

-----------------------------------------------------------------------------
\* xsk_alloc_frame and xsk_free_frame: a stack that refuses to overflow.

CanAlloc == free # <<>>
TopFrame == free[Len(free)]
FreeAfterAlloc == SubSeq(free, 1, Len(free) - 1)
FreeAfterFree(f) == IF Len(free) >= NumFrames THEN free ELSE Append(free, f)

\* configure_umem, configure_socket, main: all frames free, then the fill ring
\* is preloaded from the top of the stack, both rings empty.
Init ==
    /\ free = [i \in 1 .. NumFrames - FillSize |-> i - 1]
    /\ fq = [i \in 1 .. FillSize |-> NumFrames - i]
    /\ fq_bad = 0
    /\ rx = <<>> /\ rx_ring = <<>> /\ tx_ring = <<>> /\ tx = <<>> /\ cq = <<>>
    /\ outstanding_tx = 0
    /\ io = IoAt("peek")
    /\ worker = WorkerAt("pop")

-----------------------------------------------------------------------------
(* The kernel and the driver, as the program relies on them *)

\* Entries of the RX ring the IO thread has copied but not yet released.
Unreleased == IF io.pc = "receive" THEN io.got - io.n ELSE 0

\* A redirected packet is received into the next fill descriptor, if the RX
\* ring has room.
KernelReceive ==
    /\ fq # <<>>
    /\ Len(rx) + Unreleased < RxSize
    /\ rx' = Append(rx, Head(fq))
    /\ fq' = Tail(fq)
    /\ UNCHANGED <<free, fq_bad, rx_ring, tx_ring, tx, cq, outstanding_tx, io, worker>>

\* An invalid fill descriptor is discarded.
KernelDiscard ==
    /\ fq_bad > 0
    /\ fq_bad' = fq_bad - 1
    /\ UNCHANGED <<free, fq, rx, rx_ring, tx_ring, tx, cq, outstanding_tx, io, worker>>

\* A descriptor of the TX ring is sent and completed.
KernelTransmit ==
    /\ tx # <<>>
    /\ cq' = Append(cq, Head(tx))
    /\ tx' = Tail(tx)
    /\ UNCHANGED <<free, fq, fq_bad, rx, rx_ring, tx_ring, outstanding_tx, io, worker>>

-----------------------------------------------------------------------------
(* io_thread_func *)

\* n counts down the descriptors of the batch at hand, got remembers its size.
IoPeek ==
    /\ io.pc = "peek"
    /\ LET rcvd == Min2(Len(rx), Batch)
       IN  io' = [io EXCEPT !.pc = IF rcvd > 0 THEN "receive" ELSE "send",
                            !.n = rcvd, !.got = rcvd]
    /\ UNCHANGED <<rings, outstanding_tx, worker>>

\* One received descriptor goes to the worker; if rx_ring is full its frame is
\* freed.  After the last one the batch is released to the kernel.
IoReceive ==
    /\ io.pc = "receive"
    /\ IF Len(rx_ring) < RingSize
       THEN /\ rx_ring' = Append(rx_ring, Head(rx))
            /\ free' = free
       ELSE /\ free' = FreeAfterFree(Head(rx))
            /\ rx_ring' = rx_ring
    /\ rx' = Tail(rx)
    /\ io' = IF io.n = 1 THEN IoAt("refill") ELSE [io EXCEPT !.n = @ - 1]
    /\ UNCHANGED <<fq, fq_bad, tx_ring, tx, cq, outstanding_tx, worker>>

\* Mutant: the room in the fill ring is not looked at.
IoRefill_NoRoomTest ==
    /\ io.pc = "refill"
    /\ IF Len(free) > Batch
       THEN io' = [io EXCEPT !.pc = "fill", !.n = Batch]
       ELSE io' = IoAt("send")
    /\ UNCHANGED <<rings, outstanding_tx, worker>>

\* Refill only with more than a batch of free frames and a batch of room.
IoRefill ==
    /\ io.pc = "refill"
    /\ IF Len(free) > Batch /\ Len(fq) + fq_bad + Batch <= FillSize
       THEN io' = [io EXCEPT !.pc = "fill", !.n = Batch]
       ELSE io' = IoAt("send")
    /\ UNCHANGED <<rings, outstanding_tx, worker>>

\* One of the Batch allocations; the worker may have emptied the stack since the
\* test of IoRefill.  The last one submits the batch.
IoFill ==
    /\ io.pc = "fill"
    /\ LET staged == IF CanAlloc THEN Append(io.staged, TopFrame) ELSE io.staged
           bad == IF CanAlloc THEN io.bad ELSE io.bad + 1
       IN  IF io.n = 1
           THEN /\ fq' = fq \o staged
                /\ fq_bad' = fq_bad + bad
                /\ io' = IoAt("send")
           ELSE /\ io' = [io EXCEPT !.n = @ - 1, !.staged = staged, !.bad = bad]
                /\ UNCHANGED <<fq, fq_bad>>
    /\ free' = IF CanAlloc THEN FreeAfterAlloc ELSE free
    /\ UNCHANGED <<rx, rx_ring, tx_ring, tx, cq, outstanding_tx, worker>>

\* The loop over tx_ring: a descriptor is submitted to the TX ring, or its frame
\* freed if that ring is full.
IoSend ==
    /\ io.pc = "send"
    /\ tx_ring # <<>>
    /\ tx_ring' = Tail(tx_ring)
    /\ IF Len(tx) < TxSize
       THEN /\ tx' = Append(tx, Head(tx_ring))
            /\ outstanding_tx' = outstanding_tx + 1
            /\ free' = free
       ELSE /\ free' = FreeAfterFree(Head(tx_ring))
            /\ UNCHANGED <<tx, outstanding_tx>>
    /\ UNCHANGED <<fq, fq_bad, rx, rx_ring, cq, io, worker>>

\* tx_ring is empty; look at the completion ring if anything is outstanding.
IoSent ==
    /\ io.pc = "send"
    /\ tx_ring = <<>>
    /\ LET completed == IF outstanding_tx > 0 THEN Min2(Len(cq), Batch) ELSE 0
       IN  io' = [IoAt(IF completed > 0 THEN "complete" ELSE "peek")
                    EXCEPT !.n = completed, !.got = completed]
    /\ UNCHANGED <<rings, outstanding_tx, worker>>

\* Mutants: the completed frame is not freed; the counter is lowered by the
\* capacity of the batch instead of what it held.
IoComplete_KeepFrame ==
    /\ io.pc = "complete"
    /\ cq' = Tail(cq)
    /\ io' = IF io.n = 1 THEN IoAt("peek") ELSE [io EXCEPT !.n = @ - 1]
    /\ outstanding_tx' = IF io.n = 1 THEN outstanding_tx - io.got ELSE outstanding_tx
    /\ UNCHANGED <<free, fq, fq_bad, rx, rx_ring, tx_ring, tx, worker>>

IoComplete_WholeBatch ==
    /\ io.pc = "complete"
    /\ cq' = Tail(cq)
    /\ free' = FreeAfterFree(Head(cq))
    /\ io' = IF io.n = 1 THEN IoAt("peek") ELSE [io EXCEPT !.n = @ - 1]
    /\ outstanding_tx' = IF io.n = 1 THEN outstanding_tx - Batch ELSE outstanding_tx
    /\ UNCHANGED <<fq, fq_bad, rx, rx_ring, tx_ring, tx, worker>>

\* One completed frame is freed; after the last one outstanding_tx is lowered.
IoComplete ==
    /\ io.pc = "complete"
    /\ cq' = Tail(cq)
    /\ free' = FreeAfterFree(Head(cq))
    /\ io' = IF io.n = 1 THEN IoAt("peek") ELSE [io EXCEPT !.n = @ - 1]
    /\ outstanding_tx' = IF io.n = 1 THEN outstanding_tx - io.got ELSE outstanding_tx
    /\ UNCHANGED <<fq, fq_bad, rx, rx_ring, tx_ring, tx, worker>>

IoStep ==
    IoPeek \/ IoReceive \/ IoRefill \/ IoFill \/ IoSend \/ IoSent \/ IoComplete

-----------------------------------------------------------------------------
(* worker_thread_func *)

\* The packet's verdict: "forward" (a 0x49 response, or a query answered with a
\* 0x41 challenge), "stale" (a 0x55 answer from an expired cache entry) or
\* "drop" (everything else, the blocked and the validated queries included).
WorkerPop ==
    /\ worker.pc = "pop"
    /\ rx_ring # <<>>
    /\ rx_ring' = Tail(rx_ring)
    /\ \E verdict \in {"forward", "stale", "drop"} :
           worker' = [WorkerAt(verdict) EXCEPT !.frame = Head(rx_ring)]
    /\ UNCHANGED <<free, fq, fq_bad, rx, tx_ring, tx, cq, outstanding_tx, io>>

\* spsc_ring_push(&ctx->tx_ring, ...), whose result no caller looks at.
TxRingAfterPush(f) == IF Len(tx_ring) < RingSize THEN Append(tx_ring, f) ELSE tx_ring

\* Mutant: the frame is freed although tx_ring now has it.
WorkerForward_Frees ==
    /\ worker.pc = "forward"
    /\ tx_ring' = TxRingAfterPush(worker.frame)
    /\ free' = FreeAfterFree(worker.frame)
    /\ worker' = WorkerAt("pop")
    /\ UNCHANGED <<fq, fq_bad, rx, rx_ring, tx, cq, outstanding_tx, io>>

WorkerForward ==
    /\ worker.pc = "forward"
    /\ tx_ring' = TxRingAfterPush(worker.frame)
    /\ worker' = WorkerAt("pop")
    /\ UNCHANGED <<free, fq, fq_bad, rx, rx_ring, tx, cq, outstanding_tx, io>>

\* The stale answer is sent first; the worker keeps reading the frame afterwards.
WorkerSendStale ==
    /\ worker.pc = "stale"
    /\ tx_ring' = TxRingAfterPush(worker.frame)
    /\ worker' = [worker EXCEPT !.pc = "borrow"]
    /\ UNCHANGED <<free, fq, fq_bad, rx, rx_ring, tx, cq, outstanding_tx, io>>

\* A frame is borrowed for the refresh query; without one the query is skipped.
WorkerBorrow ==
    /\ worker.pc = "borrow"
    /\ IF CanAlloc
       THEN /\ free' = FreeAfterAlloc
            /\ worker' = [worker EXCEPT !.pc = "query", !.query = TopFrame]
       ELSE /\ free' = free
            /\ worker' = WorkerAt("pop")
    /\ UNCHANGED <<fq, fq_bad, rx, rx_ring, tx_ring, tx, cq, outstanding_tx, io>>

\* The refresh query is built from the packet in worker.frame and sent.
WorkerQuery ==
    /\ worker.pc = "query"
    /\ tx_ring' = TxRingAfterPush(worker.query)
    /\ worker' = WorkerAt("pop")
    /\ UNCHANGED <<free, fq, fq_bad, rx, rx_ring, tx, cq, outstanding_tx, io>>

\* Mutant: an early "continue" that forgets the frame.
WorkerDrop_Forget ==
    /\ worker.pc = "drop"
    /\ worker' = WorkerAt("pop")
    /\ UNCHANGED <<rings, outstanding_tx, io>>

WorkerDrop ==
    /\ worker.pc = "drop"
    /\ free' = FreeAfterFree(worker.frame)
    /\ worker' = WorkerAt("pop")
    /\ UNCHANGED <<fq, fq_bad, rx, rx_ring, tx_ring, tx, cq, outstanding_tx, io>>

WorkerStep ==
    \/ WorkerPop \/ WorkerForward \/ WorkerSendStale
    \/ WorkerBorrow \/ WorkerQuery \/ WorkerDrop

-----------------------------------------------------------------------------
Next ==
    \/ KernelReceive \/ KernelDiscard \/ KernelTransmit
    \/ IoPeek \/ IoReceive \/ IoRefill \/ IoFill \/ IoSend \/ IoSent \/ IoComplete
    \/ WorkerPop \/ WorkerForward \/ WorkerSendStale
    \/ WorkerBorrow \/ WorkerQuery \/ WorkerDrop

Spec == Init /\ [][Next]_vars

\* Both threads are pinned loops that never block for good (the IO thread polls
\* with a 10 ms timeout, the worker sleeps 10 us), and the driver keeps sending.
\* Nothing makes a packet arrive.
Fairness ==
    /\ WF_vars(IoStep)
    /\ WF_vars(WorkerStep)
    /\ WF_vars(KernelTransmit)
    /\ WF_vars(KernelDiscard)

FairSpec == Spec /\ Fairness

-----------------------------------------------------------------------------
TypeOK ==
    /\ {free, fq, rx, rx_ring, tx_ring, tx, cq, io.staged} \subseteq Seq(Frames)
    /\ fq_bad \in Nat
    /\ outstanding_tx \in Nat
    /\ io \in [pc : {"peek", "receive", "refill", "fill", "send", "complete"},
              n : Nat, got : Nat, staged : Seq(Frames), bad : Nat]
    /\ worker \in [pc : {"pop", "forward", "stale", "drop", "borrow", "query"},
                  frame : Frames \cup {INVALID}, query : Frames \cup {INVALID}]

\* The frame the worker must still hand on.
WorkerOwns ==
    CASE worker.pc \in {"forward", "stale", "drop"} -> <<worker.frame>>
      [] worker.pc = "query" -> <<worker.query>>
      [] OTHER -> <<>>

Placed == free \o fq \o rx \o rx_ring \o tx_ring \o tx \o cq \o io.staged \o WorkerOwns

\* Every UMEM frame is in exactly one place, whatever the verdicts, the full
\* rings and the invalid descriptors: none leaks, none is handed out twice.
FramesConserved ==
    /\ Len(Placed) = NumFrames
    /\ {Placed[i] : i \in 1 .. Len(Placed)} = Frames

\* The pushes whose result the code ignores or treats as an overload never
\* fail, and a refill never overruns the fill ring.
NoRingOverflows ==
    /\ io.pc = "receive" => Len(rx_ring) < RingSize
    /\ worker.pc \in {"forward", "stale", "query"} => Len(tx_ring) < RingSize
    /\ Len(fq) + fq_bad + Len(io.staged) + io.bad <= FillSize

\* outstanding_tx is exact: the completion ring is only looked at while it is
\* positive, so one short would strand the last frames there for ever.
OutstandingExact ==
    outstanding_tx =
        Len(tx) + Len(cq) + (IF io.pc = "complete" THEN io.got - io.n ELSE 0)

In(f, s) == \E i \in 1 .. Len(s) : s[i] = f

\* Whatever becomes of the packet received into frame f, f returns to the pool.
FrameReturns(f) == In(f, rx) ~> In(f, free \o fq)

\* "Refill Fill Ring": a fill ring run empty is refilled, so that the queue
\* goes on receiving what XDP redirects to it.
FillRingServed ==
    fq = <<>> ~> fq # <<>>

\* The threads use the free list as FrameAllocator's callers do: a frame is freed only
\* while it is out, so none is freed twice, and it always finds room.
Listed == {free[i] : i \in 1 .. Len(free)}

Pool == INSTANCE FrameStack
            WITH stack <- free, out <- Frames \ Listed, misused <- FALSE, Preloaded <- FillSize

ImplementsStack == Pool!Spec
=============================================================================
