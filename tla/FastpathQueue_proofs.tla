------------------------ MODULE FastpathQueue_proofs ------------------------
(***************************************************************************)
(* Proofs about FastpathQueue for every number of frames, ring size and    *)
(* batch size.  They count frames: the frames in the seven places and in   *)
(* the threads' hands always add up to NumFrames.  As no ring has room for *)
(* fewer frames than exist, no push whose result is ignored can fail.  And *)
(* as every frame is somewhere, the count leaves none to be in two places: *)
(* no frame is freed twice, and the free list is used as a stack.          *)
(***************************************************************************)
EXTENDS FastpathQueue, FiniteSetTheorems, SequenceTheorems, TLAPS

\* How many frames are in each place.
nFree == Len(free)
nFq == Len(fq)
nRx == Len(rx)
nRxRing == Len(rx_ring)
nTxRing == Len(tx_ring)
nTx == Len(tx)
nCq == Len(cq)
nStaged == Len(io.staged)
nOwned == IF worker.pc \in {"forward", "stale", "drop", "query"} THEN 1 ELSE 0

FrameCount ==
    nFree + nFq + nRx + nRxRing + nTxRing + nTx + nCq + nStaged + nOwned = NumFrames

IoInv ==
    /\ io.pc = "receive" => 1 <= io.n /\ io.n <= io.got /\ io.n <= nRx
    /\ io.pc = "complete" => 1 <= io.n /\ io.n <= io.got /\ io.n <= nCq
    /\ io.pc = "fill" =>
        /\ 1 <= io.n
        /\ nStaged + io.bad + io.n = Batch
        /\ nFq + fq_bad + Batch <= FillSize
    /\ io.pc # "fill" => nStaged = 0 /\ io.bad = 0
    /\ nFq + fq_bad <= FillSize

WorkerInv ==
    /\ worker.pc \in {"forward", "stale", "drop"} => worker.frame \in Frames
    /\ worker.pc = "query" => worker.query \in Frames

Outstanding ==
    outstanding_tx = nTx + nCq + (IF io.pc = "complete" THEN io.got - io.n ELSE 0)

QueueInv == TypeOK /\ FrameCount /\ IoInv /\ WorkerInv /\ Outstanding

\* The assumptions on the sizes, one by one.
LEMMA Sizes ==
    /\ NumFrames \in Nat /\ RingSize \in Nat /\ FillSize \in Nat
    /\ RxSize \in Nat /\ TxSize \in Nat /\ Batch \in Nat
    /\ NumFrames > 0 /\ Batch > 0 /\ Batch <= FillSize
    /\ FillSize <= NumFrames /\ NumFrames <= RingSize
  BY SizesAssumption

\* TypeOK, one conjunct per place.
LEMMA Typed ==
    TypeOK <=>
        /\ free \in Seq(Frames) /\ fq \in Seq(Frames) /\ rx \in Seq(Frames)
        /\ rx_ring \in Seq(Frames) /\ tx_ring \in Seq(Frames)
        /\ tx \in Seq(Frames) /\ cq \in Seq(Frames)
        /\ fq_bad \in Nat /\ outstanding_tx \in Nat
        /\ io \in [pc : {"peek", "receive", "refill", "fill", "send", "complete"},
                   n : Nat, got : Nat, staged : Seq(Frames), bad : Nat]
        /\ worker \in [pc : {"pop", "forward", "stale", "drop", "borrow", "query"},
                       frame : Frames \cup {INVALID}, query : Frames \cup {INVALID}]
  BY DEF TypeOK

\* The counts are numbers.
LEMMA Counts ==
    ASSUME TypeOK
    PROVE  /\ nFree \in Nat /\ nFq \in Nat /\ nRx \in Nat /\ nRxRing \in Nat
           /\ nTxRing \in Nat /\ nTx \in Nat /\ nCq \in Nat /\ nStaged \in Nat
           /\ nOwned \in 0 .. 1
           /\ io.n \in Nat /\ io.got \in Nat /\ io.bad \in Nat
           /\ fq_bad \in Nat /\ outstanding_tx \in Nat
  BY Typed DEF nFree, nFq, nRx, nRxRing, nTxRing, nTx, nCq, nStaged, nOwned

\* Putting a frame at the end of a queue.
LEMMA PutOp ==
    ASSUME NEW s \in Seq(Frames), NEW f \in Frames
    PROVE  /\ Append(s, f) \in Seq(Frames)
           /\ Len(Append(s, f)) = Len(s) + 1
  OBVIOUS

\* Taking a frame from the head of a queue or from the top of the stack.
LEMMA TakeOp ==
    ASSUME NEW s \in Seq(Frames), s # <<>>
    PROVE  /\ Head(s) \in Frames /\ s[Len(s)] \in Frames
           /\ Tail(s) \in Seq(Frames) /\ Len(Tail(s)) = Len(s) - 1
           /\ SubSeq(s, 1, Len(s) - 1) \in Seq(Frames)
           /\ Len(SubSeq(s, 1, Len(s) - 1)) = Len(s) - 1
           /\ Len(s) > 0
  <1>1. Len(s) \in Nat /\ Len(s) > 0
    OBVIOUS
  <1>2. /\ Head(s) \in Frames /\ s[Len(s)] \in Frames
        /\ Tail(s) \in Seq(Frames) /\ Len(Tail(s)) = Len(s) - 1
    BY <1>1
  <1>3. /\ SubSeq(s, 1, Len(s) - 1) \in Seq(Frames)
        /\ Len(SubSeq(s, 1, Len(s) - 1)) = Len(s) - 1
    <2> DEFINE l == Len(s) - 1
    <2>1. l \in Nat /\ l <= Len(s)
      BY <1>1
    <2>2. \A i \in 1 .. l : s[i] \in Frames
      BY <2>1
    <2>3. SubSeq(s, 1, l) = [i \in 1 .. l |-> s[i]]
      BY <2>1
    <2> HIDE DEF l
    <2> DEFINE t == [i \in 1 .. l |-> s[i]]
    <2>4. t \in [1 .. l -> Frames]
      BY <2>2
    <2>5. t \in Seq(Frames)
      <3>1. \A n \in Nat : [1 .. n -> Frames] \subseteq Seq(Frames)
        BY SeqDef, Zenon
      <3>2. QED
        BY <2>1, <2>4, <3>1, Zenon
    <2>6. Len(t) = l
      BY <2>1, <2>5
    <2>7. QED
      BY <2>3, <2>5, <2>6 DEF l
  <1>4. QED
    BY <1>1, <1>2, <1>3

\* The initial stack and the preloaded fill ring hold all frames.
LEMMA InitInv == Init => QueueInv
  <1> SUFFICES ASSUME Init PROVE QueueInv
    OBVIOUS
  <1>1. /\ NumFrames \in Nat /\ FillSize \in Nat /\ FillSize <= NumFrames
        /\ NumFrames - FillSize \in Nat
    BY Sizes
  <1>2. /\ free \in Seq(Frames) /\ Len(free) = NumFrames - FillSize
        /\ fq \in Seq(Frames) /\ Len(fq) = FillSize
    <2> DEFINE a == NumFrames - FillSize
               s == [i \in 1 .. a |-> i - 1]
               t == [i \in 1 .. FillSize |-> NumFrames - i]
    <2>1. s \in [1 .. a -> Frames] /\ t \in [1 .. FillSize -> Frames]
      BY <1>1 DEF Frames
    <2>2. free = s /\ fq = t /\ a \in Nat
      BY <1>1 DEF Init
    <2> HIDE DEF a, s, t
    <2>3. s \in Seq(Frames) /\ t \in Seq(Frames)
      <3>1. a \in Nat /\ FillSize \in Nat
        BY <1>1, <2>2
      <3>2. \A n \in Nat : [1 .. n -> Frames] \subseteq Seq(Frames)
        BY SeqDef, Zenon
      <3>3. QED
        BY <2>1, <3>1, <3>2, Zenon
    <2>4. Len(s) = a /\ Len(t) = FillSize
      BY <1>1, <2>1, <2>2, <2>3, LenProperties
    <2>5. QED
      BY <2>2, <2>3, <2>4 DEF a
  <1>3. <<>> \in Seq(Frames) /\ Len(<<>>) = 0
    OBVIOUS
  <1>4. TypeOK
    BY <1>2, <1>3, Typed DEF Init, IoAt, WorkerAt
  <1>5. /\ nFree = NumFrames - FillSize /\ nFq = FillSize
        /\ nRx = 0 /\ nRxRing = 0 /\ nTxRing = 0 /\ nTx = 0 /\ nCq = 0
        /\ nStaged = 0 /\ nOwned = 0
    BY <1>2, <1>3 DEF Init, IoAt, WorkerAt,
        nFree, nFq, nRx, nRxRing, nTxRing, nTx, nCq, nStaged, nOwned
  <1>6. FrameCount
    BY <1>1, <1>5 DEF FrameCount
  <1>7. IoInv /\ WorkerInv /\ Outstanding
    BY <1>1, <1>5 DEF Init, IoAt, WorkerAt, IoInv, WorkerInv, Outstanding
  <1>8. QED
    BY <1>4, <1>6, <1>7 DEF QueueInv

\* While a frame is in another place the stack has room for it.
LEMMA FreeHasRoom ==
    ASSUME QueueInv, NEW f \in Frames, nRx > 0 \/ nTxRing > 0 \/ nCq > 0 \/ nOwned > 0
    PROVE  /\ FreeAfterFree(f) \in Seq(Frames)
           /\ Len(FreeAfterFree(f)) = nFree + 1
  <1>1. nFree < NumFrames
    BY Counts, Sizes DEF QueueInv, FrameCount
  <1>2. FreeAfterFree(f) = Append(free, f)
    BY <1>1, Counts, Sizes DEF FreeAfterFree, nFree, QueueInv
  <1>3. QED
    BY <1>2, Typed, PutOp DEF nFree, QueueInv

\* Taking the top of the stack.
LEMMA AllocTakes ==
    ASSUME TypeOK, CanAlloc
    PROVE  /\ TopFrame \in Frames
           /\ FreeAfterAlloc \in Seq(Frames)
           /\ Len(FreeAfterAlloc) = nFree - 1
           /\ nFree > 0
  BY Typed, TakeOp DEF CanAlloc, TopFrame, FreeAfterAlloc, nFree

\* No ring is ever full when the code pushes to it.
LEMMA RoomToPush ==
    ASSUME QueueInv
    PROVE  NoRingOverflows
  <1>1. io.pc = "receive" => nRxRing < RingSize
    BY Counts, Sizes DEF QueueInv, FrameCount, IoInv
  <1>2. worker.pc \in {"forward", "stale", "query"} => nTxRing < RingSize
    <2>1. worker.pc \in {"forward", "stale", "query"} => nOwned = 1
      BY DEF nOwned
    <2>2. QED
      BY <2>1, Counts, Sizes DEF QueueInv, FrameCount
  <1>3. nFq + fq_bad + nStaged + io.bad <= FillSize
    BY Counts, Sizes DEF QueueInv, IoInv
  <1>4. QED
    BY <1>1, <1>2, <1>3 DEF NoRingOverflows, nRxRing, nTxRing, nFq, nStaged

-----------------------------------------------------------------------------
(* The steps *)

\* What the invariant says, one conjunct per fact.
InvFacts ==
    /\ QueueInv /\ TypeOK /\ FrameCount /\ IoInv /\ WorkerInv /\ Outstanding
    /\ free \in Seq(Frames) /\ fq \in Seq(Frames) /\ rx \in Seq(Frames)
    /\ rx_ring \in Seq(Frames) /\ tx_ring \in Seq(Frames)
    /\ tx \in Seq(Frames) /\ cq \in Seq(Frames) /\ io.staged \in Seq(Frames)
    /\ <<>> \in Seq(Frames) /\ Len(<<>>) = 0
    /\ nFree \in Nat /\ nFq \in Nat /\ nRx \in Nat /\ nRxRing \in Nat
    /\ nTxRing \in Nat /\ nTx \in Nat /\ nCq \in Nat /\ nStaged \in Nat
    /\ nOwned \in 0 .. 1 /\ io.n \in Nat /\ io.got \in Nat /\ io.bad \in Nat
    /\ fq_bad \in Nat /\ outstanding_tx \in Nat
    /\ io \in [pc : {"peek", "receive", "refill", "fill", "send", "complete"},
              n : Nat, got : Nat, staged : Seq(Frames), bad : Nat]
    /\ worker \in [pc : {"pop", "forward", "stale", "drop", "borrow", "query"},
                  frame : Frames \cup {INVALID}, query : Frames \cup {INVALID}]

LEMMA Facts == QueueInv => InvFacts
  BY Typed, Counts DEF QueueInv, InvFacts

\* The facts about numbers alone.
NumFacts ==
    /\ nFree \in Nat /\ nFq \in Nat /\ nRx \in Nat /\ nRxRing \in Nat
    /\ nTxRing \in Nat /\ nTx \in Nat /\ nCq \in Nat /\ nStaged \in Nat
    /\ nOwned \in 0 .. 1 /\ io.n \in Nat /\ io.got \in Nat /\ io.bad \in Nat
    /\ fq_bad \in Nat /\ outstanding_tx \in Nat /\ Batch \in Nat /\ FillSize \in Nat

LEMMA Numbers == QueueInv => NumFacts
  BY Counts, Sizes DEF QueueInv, NumFacts

\* What the kernel does moves a frame from one ring to another.
LEMMA KernelInv ==
    ASSUME QueueInv, KernelReceive \/ KernelDiscard \/ KernelTransmit
    PROVE  QueueInv'
  <1>0. InvFacts
    BY Facts
  <1>1. CASE KernelReceive
    <2>1. /\ fq # <<>> /\ fq' = Tail(fq) /\ rx' = Append(rx, Head(fq))
      BY <1>1 DEF KernelReceive
    <2>2. /\ fq' \in Seq(Frames) /\ Len(fq') = Len(fq) - 1
          /\ rx' \in Seq(Frames) /\ Len(rx') = Len(rx) + 1
      BY <2>1, <1>0, TakeOp, PutOp DEF InvFacts
    <2>3. TypeOK'
      BY <1>1, <1>0, <2>1, <2>2, Typed DEF InvFacts, KernelReceive, TypeOK
    <2>4. /\ nFq' = nFq - 1 /\ nRx' = nRx + 1 /\ nFree' = nFree
          /\ nRxRing' = nRxRing /\ nTxRing' = nTxRing /\ nTx' = nTx
          /\ nCq' = nCq /\ nStaged' = nStaged /\ nOwned' = nOwned
      BY <1>1, <1>0, <2>1, <2>2 DEF InvFacts, KernelReceive, nFree, nFq, nRx, nRxRing,
          nTxRing, nTx, nCq, nStaged, nOwned
    <2>5. /\ io' = io /\ fq_bad' = fq_bad /\ outstanding_tx' = outstanding_tx
      BY <1>1, <2>1, <2>2 DEF KernelReceive
    <2>6. FrameCount' /\ IoInv' /\ Outstanding'
      BY <1>0, <2>1, <2>2, <2>4, <2>5, Sizes DEF InvFacts, FrameCount, IoInv, Outstanding
    <2>7. WorkerInv'
      BY <1>1, <1>0, <2>1, <2>2 DEF InvFacts, KernelReceive, WorkerInv
    <2>8. QED
      BY <2>3, <2>6, <2>7 DEF QueueInv
  <1>2. CASE KernelDiscard
    <2>1. fq_bad > 0
      BY <1>2 DEF KernelDiscard
    <2>2. TypeOK'
      BY <1>2, <1>0, <2>1, Typed DEF InvFacts, KernelDiscard, TypeOK
    <2>3. /\ nFree' = nFree /\ nFq' = nFq /\ nRx' = nRx /\ nRxRing' = nRxRing
          /\ nTxRing' = nTxRing /\ nTx' = nTx /\ nCq' = nCq
          /\ nStaged' = nStaged /\ nOwned' = nOwned
      BY <1>2, <1>0, <2>1 DEF InvFacts, KernelDiscard, nFree, nFq, nRx, nRxRing,
          nTxRing, nTx, nCq, nStaged, nOwned
    <2>4. /\ io' = io /\ fq_bad' = fq_bad - 1
          /\ outstanding_tx' = outstanding_tx
      BY <1>2, <2>1 DEF KernelDiscard
    <2>5. FrameCount' /\ IoInv' /\ Outstanding'
      BY <1>0, <2>1, <2>3, <2>4, Sizes DEF InvFacts, FrameCount, IoInv, Outstanding
    <2>6. WorkerInv'
      BY <1>2, <1>0, <2>1 DEF InvFacts, KernelDiscard, WorkerInv
    <2>7. QED
      BY <2>2, <2>5, <2>6 DEF QueueInv
  <1>3. CASE KernelTransmit
    <2>1. /\ tx # <<>> /\ tx' = Tail(tx) /\ cq' = Append(cq, Head(tx))
      BY <1>3 DEF KernelTransmit
    <2>2. /\ tx' \in Seq(Frames) /\ Len(tx') = Len(tx) - 1
          /\ cq' \in Seq(Frames) /\ Len(cq') = Len(cq) + 1
      BY <2>1, <1>0, TakeOp, PutOp DEF InvFacts
    <2>3. TypeOK'
      BY <1>3, <1>0, <2>1, <2>2, Typed DEF InvFacts, KernelTransmit, TypeOK
    <2>4. /\ nTx' = nTx - 1 /\ nCq' = nCq + 1 /\ nFree' = nFree /\ nFq' = nFq
          /\ nRx' = nRx /\ nRxRing' = nRxRing /\ nTxRing' = nTxRing
          /\ nStaged' = nStaged /\ nOwned' = nOwned
      BY <1>3, <1>0, <2>1, <2>2 DEF InvFacts, KernelTransmit, nFree, nFq, nRx, nRxRing,
          nTxRing, nTx, nCq, nStaged, nOwned
    <2>5. /\ io' = io /\ fq_bad' = fq_bad /\ outstanding_tx' = outstanding_tx
      BY <1>3, <2>1, <2>2 DEF KernelTransmit
    <2>6. FrameCount' /\ IoInv' /\ Outstanding'
      BY <1>0, <2>1, <2>2, <2>4, <2>5, Sizes DEF InvFacts, FrameCount, IoInv, Outstanding
    <2>7. WorkerInv'
      BY <1>3, <1>0, <2>1, <2>2 DEF InvFacts, KernelTransmit, WorkerInv
    <2>8. QED
      BY <2>3, <2>6, <2>7 DEF QueueInv
  <1>4. QED
    BY <1>1, <1>2, <1>3

\* The IO thread's locals when only its program counter and counts change.
LEMMA IoSet ==
    ASSUME io \in [pc : {"peek", "receive", "refill", "fill", "send", "complete"},
                   n : Nat, got : Nat, staged : Seq(Frames), bad : Nat],
           NEW p \in {"peek", "receive", "refill", "fill", "send", "complete"},
           NEW k \in Nat, NEW g \in Nat,
           io' = [io EXCEPT !.pc = p, !.n = k, !.got = g]
    PROVE  /\ io'.pc = p /\ io'.n = k /\ io'.got = g
           /\ io'.staged = io.staged /\ io'.bad = io.bad
           /\ io' \in [pc : {"peek", "receive", "refill", "fill", "send", "complete"},
                       n : Nat, got : Nat, staged : Seq(Frames), bad : Nat]
  OBVIOUS

\* The IO thread's locals at the start of a phase.
LEMMA IoStart ==
    ASSUME NEW p \in {"peek", "receive", "refill", "fill", "send", "complete"},
           NEW k \in Nat, NEW g \in Nat, <<>> \in Seq(Frames),
           io' = [IoAt(p) EXCEPT !.n = k, !.got = g]
    PROVE  /\ io'.pc = p /\ io'.n = k /\ io'.got = g
           /\ io'.staged = <<>> /\ io'.bad = 0
           /\ io' \in [pc : {"peek", "receive", "refill", "fill", "send", "complete"},
                       n : Nat, got : Nat, staged : Seq(Frames), bad : Nat]
  BY DEF IoAt

\* A step that moves no frame and only changes the IO thread's locals.
LEMMA IoOnly ==
    ASSUME QueueInv, UNCHANGED <<rings, outstanding_tx, worker>>,
           io' \in [pc : {"peek", "receive", "refill", "fill", "send", "complete"},
                    n : Nat, got : Nat, staged : Seq(Frames), bad : Nat],
           io'.staged = io.staged
    PROVE  /\ TypeOK' /\ FrameCount' /\ WorkerInv'
           /\ nRx' = nRx /\ nCq' = nCq /\ nTx' = nTx /\ nFq' = nFq /\ nStaged' = nStaged
           /\ fq_bad' = fq_bad /\ outstanding_tx' = outstanding_tx
  <1>0. InvFacts
    BY Facts
  <1>1. /\ free' = free /\ fq' = fq /\ fq_bad' = fq_bad /\ rx' = rx
        /\ rx_ring' = rx_ring /\ tx_ring' = tx_ring /\ tx' = tx /\ cq' = cq
        /\ outstanding_tx' = outstanding_tx /\ worker' = worker
    BY DEF rings
  <1>2. TypeOK' /\ WorkerInv'
    BY <1>0, <1>1 DEF InvFacts, TypeOK, WorkerInv
  <1>3. /\ nFree' = nFree /\ nFq' = nFq /\ nRx' = nRx /\ nRxRing' = nRxRing
        /\ nTxRing' = nTxRing /\ nTx' = nTx /\ nCq' = nCq
        /\ nStaged' = nStaged /\ nOwned' = nOwned
    BY <1>1 DEF nFree, nFq, nRx, nRxRing, nTxRing, nTx, nCq, nStaged, nOwned
  <1>4. FrameCount'
    BY <1>0, <1>3 DEF InvFacts, FrameCount
  <1>5. QED
    BY <1>1, <1>2, <1>3, <1>4

\* A batch is peeked.
LEMMA IoPeekInv ==
    ASSUME QueueInv, IoPeek
    PROVE  QueueInv'
  <1>0. InvFacts
    BY Facts
  <1> DEFINE rcvd == Min2(Len(rx), Batch)
             p == IF rcvd > 0 THEN "receive" ELSE "send"
  <1>1. rcvd \in Nat /\ rcvd <= nRx /\ p \in {"receive", "send"}
    BY <1>0, Sizes DEF InvFacts, Min2, nRx
  <1>2. /\ io.pc = "peek" /\ UNCHANGED <<rings, outstanding_tx, worker>>
        /\ io' = [io EXCEPT !.pc = p, !.n = rcvd, !.got = rcvd]
        /\ p = "receive" => rcvd > 0
    BY DEF IoPeek
  <1> HIDE DEF rcvd, p
  <1>3. /\ io'.pc = p /\ io'.n = rcvd /\ io'.got = rcvd
        /\ io'.staged = io.staged /\ io'.bad = io.bad
        /\ io' \in [pc : {"peek", "receive", "refill", "fill", "send", "complete"},
                    n : Nat, got : Nat, staged : Seq(Frames), bad : Nat]
    BY <1>0, <1>1, <1>2, IoSet DEF InvFacts
  <1>4. /\ TypeOK' /\ FrameCount' /\ WorkerInv'
        /\ nRx' = nRx /\ nCq' = nCq /\ nTx' = nTx /\ nFq' = nFq /\ nStaged' = nStaged
        /\ fq_bad' = fq_bad /\ outstanding_tx' = outstanding_tx
    BY <1>2, <1>3, IoOnly
  <1>5. nStaged = 0 /\ io.bad = 0 /\ nFq + fq_bad <= FillSize
        /\ outstanding_tx = nTx + nCq
    BY <1>0, <1>2 DEF InvFacts, IoInv, Outstanding
  <1>6. IoInv'
    <2>1. /\ io'.pc # "fill" /\ io'.pc # "complete"
          /\ io'.pc = "receive" => 1 <= io'.n /\ io'.n <= io'.got /\ io'.n <= nRx'
      BY <1>1, <1>2, <1>3, <1>4
    <2>2. nStaged' = 0 /\ io'.bad = 0 /\ nFq' + fq_bad' <= FillSize
      BY <1>3, <1>4, <1>5
    <2>3. QED
      BY <2>1, <2>2 DEF IoInv
  <1>7. Outstanding'
    BY <1>1, <1>3, <1>4, <1>5 DEF Outstanding
  <1>8. QED
    BY <1>4, <1>6, <1>7 DEF QueueInv

\* A received frame goes to rx_ring, which has room for it.
LEMMA IoReceiveInv ==
    ASSUME QueueInv, IoReceive
    PROVE  QueueInv'
  <1>0. InvFacts
    BY Facts
  <1>1. /\ io.pc = "receive" /\ 1 <= io.n /\ io.n <= io.got /\ io.n <= nRx
        /\ nStaged = 0 /\ io.bad = 0 /\ nFq + fq_bad <= FillSize
        /\ outstanding_tx = nTx + nCq
    BY <1>0 DEF InvFacts, IoReceive, IoInv, Outstanding
  <1>2. Len(rx_ring) < RingSize /\ rx # <<>> /\ io.staged = <<>>
    BY <1>0, <1>1, RoomToPush DEF InvFacts, NoRingOverflows, nRx, nStaged
  <1>3. /\ rx' = Tail(rx) /\ rx_ring' = Append(rx_ring, Head(rx)) /\ free' = free
        /\ fq' = fq /\ fq_bad' = fq_bad /\ tx_ring' = tx_ring /\ tx' = tx /\ cq' = cq
        /\ outstanding_tx' = outstanding_tx /\ worker' = worker
    BY <1>2 DEF IoReceive
  <1>4. /\ rx' \in Seq(Frames) /\ Len(rx') = Len(rx) - 1
        /\ rx_ring' \in Seq(Frames) /\ Len(rx_ring') = Len(rx_ring) + 1
    BY <1>0, <1>2, <1>3, TakeOp, PutOp DEF InvFacts
  <1>5. /\ io'.staged = io.staged /\ io'.bad = 0
        /\ io' \in [pc : {"peek", "receive", "refill", "fill", "send", "complete"},
                    n : Nat, got : Nat, staged : Seq(Frames), bad : Nat]
        /\ \/ io'.pc = "refill"
           \/ io'.pc = "receive" /\ io.n > 1 /\ io'.n = io.n - 1 /\ io'.got = io.got
    <2>1. CASE io.n = 1
      <3>1. io' = IoAt("refill")
        BY <2>1 DEF IoReceive
      <3>2. QED
        BY <1>0, <1>2, <3>1 DEF InvFacts, IoAt
    <2>2. CASE io.n # 1
      <3>1. io' = [io EXCEPT !.n = @ - 1]
        BY <2>2 DEF IoReceive
      <3>2. io.n > 1 /\ io.n - 1 \in Nat
        BY <1>0, <1>1, <2>2 DEF InvFacts
      <3>3. QED
        BY <1>0, <1>1, <3>1, <3>2 DEF InvFacts
    <2>3. QED
      BY <2>1, <2>2
  <1>6. TypeOK'
    BY <1>0, <1>3, <1>4, <1>5 DEF InvFacts, TypeOK
  <1>7. /\ nRx' = nRx - 1 /\ nRxRing' = nRxRing + 1 /\ nFree' = nFree /\ nFq' = nFq
        /\ nTxRing' = nTxRing /\ nTx' = nTx /\ nCq' = nCq
        /\ nStaged' = nStaged /\ nOwned' = nOwned
    BY <1>3, <1>4, <1>5 DEF nFree, nFq, nRx, nRxRing, nTxRing, nTx, nCq, nStaged, nOwned
  <1>8. FrameCount' /\ WorkerInv'
    BY <1>0, <1>3, <1>7 DEF InvFacts, FrameCount, WorkerInv
  <1>9. IoInv' /\ Outstanding'
    BY <1>0, <1>1, <1>3, <1>5, <1>7, Sizes DEF InvFacts, IoInv, Outstanding
  <1>10. QED
    BY <1>6, <1>8, <1>9 DEF QueueInv

\* The test before a refill.
LEMMA IoRefillInv ==
    ASSUME QueueInv, IoRefill
    PROVE  QueueInv'
  <1>0. InvFacts
    BY Facts
  <1>1. /\ io.pc = "refill" /\ UNCHANGED <<rings, outstanding_tx, worker>>
        /\ nStaged = 0 /\ io.bad = 0 /\ nFq + fq_bad <= FillSize
        /\ outstanding_tx = nTx + nCq
    BY <1>0 DEF InvFacts, IoRefill, IoInv, Outstanding
  <1>2. CASE Len(free) > Batch /\ Len(fq) + fq_bad + Batch <= FillSize
    <2>1. io' = [io EXCEPT !.pc = "fill", !.n = Batch]
      BY <1>2 DEF IoRefill
    <2>2. /\ io'.pc = "fill" /\ io'.n = Batch /\ io'.staged = io.staged /\ io'.bad = io.bad
          /\ io' \in [pc : {"peek", "receive", "refill", "fill", "send", "complete"},
                      n : Nat, got : Nat, staged : Seq(Frames), bad : Nat]
      BY <1>0, <2>1, Sizes DEF InvFacts
    <2>3. /\ TypeOK' /\ FrameCount' /\ WorkerInv'
          /\ nRx' = nRx /\ nCq' = nCq /\ nTx' = nTx /\ nFq' = nFq /\ nStaged' = nStaged
          /\ fq_bad' = fq_bad /\ outstanding_tx' = outstanding_tx
      BY <1>1, <2>2, IoOnly
    <2>4. IoInv' /\ Outstanding'
      BY <1>0, <1>1, <1>2, <2>2, <2>3, Sizes DEF InvFacts, IoInv, Outstanding, nFq
    <2>5. QED
      BY <2>3, <2>4 DEF QueueInv
  <1>3. CASE ~(Len(free) > Batch /\ Len(fq) + fq_bad + Batch <= FillSize)
    <2>1. io' = IoAt("send")
      BY <1>3 DEF IoRefill
    <2>2. /\ io'.pc = "send" /\ io'.staged = <<>> /\ io'.bad = 0
          /\ io' \in [pc : {"peek", "receive", "refill", "fill", "send", "complete"},
                      n : Nat, got : Nat, staged : Seq(Frames), bad : Nat]
      BY <1>0, <2>1 DEF InvFacts, IoAt
    <2>3. io.staged = <<>>
      BY <1>0, <1>1 DEF InvFacts, nStaged
    <2>4. /\ TypeOK' /\ FrameCount' /\ WorkerInv'
          /\ nRx' = nRx /\ nCq' = nCq /\ nTx' = nTx /\ nFq' = nFq /\ nStaged' = nStaged
          /\ fq_bad' = fq_bad /\ outstanding_tx' = outstanding_tx
      BY <1>1, <2>2, <2>3, IoOnly
    <2>5. IoInv' /\ Outstanding'
      BY <1>0, <1>1, <2>2, <2>4, Sizes DEF InvFacts, IoInv, Outstanding
    <2>6. QED
      BY <2>4, <2>5 DEF QueueInv
  <1>4. QED
    BY <1>2, <1>3

\* An allocation of a refill: the frame is staged, or one more descriptor is invalid.
LEMMA IoFillInv ==
    ASSUME QueueInv, IoFill
    PROVE  QueueInv'
  <1>0. InvFacts
    BY Facts
  <1> DEFINE staged == IF CanAlloc THEN Append(io.staged, TopFrame) ELSE io.staged
             bad == IF CanAlloc THEN io.bad ELSE io.bad + 1
             got == IF CanAlloc THEN 1 ELSE 0
  <1>1. /\ io.pc = "fill" /\ 1 <= io.n /\ nStaged + io.bad + io.n = Batch
        /\ nFq + fq_bad + Batch <= FillSize /\ outstanding_tx = nTx + nCq
    BY <1>0 DEF InvFacts, IoFill, IoInv, Outstanding
  <1>2. /\ got \in 0 .. 1 /\ bad \in Nat /\ bad = io.bad + 1 - got
        /\ staged \in Seq(Frames) /\ Len(staged) = nStaged + got
        /\ free' \in Seq(Frames) /\ Len(free') = nFree - got
    <2>1. CASE CanAlloc
      <3>1. /\ got = 1 /\ bad = io.bad /\ staged = Append(io.staged, TopFrame)
            /\ free' = FreeAfterAlloc
        BY <2>1 DEF IoFill
      <3>2. /\ TopFrame \in Frames /\ free' \in Seq(Frames) /\ Len(free') = nFree - 1
        BY <1>0, <2>1, <3>1, AllocTakes DEF InvFacts
      <3>3. staged \in Seq(Frames) /\ Len(staged) = nStaged + 1
        BY <1>0, <3>1, <3>2, PutOp DEF InvFacts, nStaged
      <3> HIDE DEF staged, bad, got
      <3>4. QED
        BY <1>0, <3>1, <3>2, <3>3 DEF InvFacts
    <2>2. CASE ~CanAlloc
      <3>1. got = 0 /\ bad = io.bad + 1 /\ staged = io.staged /\ free' = free
        BY <2>2 DEF IoFill
      <3> HIDE DEF staged, bad, got
      <3>2. QED
        BY <1>0, <3>1 DEF InvFacts, nFree, nStaged
    <2>3. QED
      BY <2>1, <2>2
  <1>3. /\ rx' = rx /\ rx_ring' = rx_ring /\ tx_ring' = tx_ring /\ tx' = tx /\ cq' = cq
        /\ outstanding_tx' = outstanding_tx /\ worker' = worker
    BY DEF IoFill
  <1>4. \/ /\ io.n = 1 /\ fq' = fq \o staged /\ fq_bad' = fq_bad + bad
           /\ io' = IoAt("send")
        \/ /\ io.n # 1 /\ fq' = fq /\ fq_bad' = fq_bad
           /\ io' = [io EXCEPT !.n = @ - 1, !.staged = staged, !.bad = bad]
    BY DEF IoFill
  <1> HIDE DEF staged, bad, got
  <1>5. /\ nFree' = nFree - got /\ nRx' = nRx /\ nRxRing' = nRxRing
        /\ nTxRing' = nTxRing /\ nTx' = nTx /\ nCq' = nCq /\ nOwned' = nOwned
    BY <1>2, <1>3 DEF nFree, nRx, nRxRing, nTxRing, nTx, nCq, nOwned
  <1>6. WorkerInv'
    BY <1>0, <1>3 DEF InvFacts, WorkerInv
  <1>7. CASE io.n = 1
    <2>1. /\ fq' = fq \o staged /\ fq_bad' = fq_bad + bad /\ io' = IoAt("send")
      BY <1>4, <1>7
    <2>2. /\ fq' \in Seq(Frames) /\ Len(fq') = Len(fq) + Len(staged)
      <3>1. fq \in Seq(Frames) /\ staged \in Seq(Frames)
        BY <1>0, <1>2 DEF InvFacts
      <3>2. QED
        BY <2>1, <3>1
    <2>3. /\ io'.pc = "send" /\ io'.n = 0 /\ io'.got = 0 /\ io'.staged = <<>> /\ io'.bad = 0
          /\ io' \in [pc : {"peek", "receive", "refill", "fill", "send", "complete"},
                      n : Nat, got : Nat, staged : Seq(Frames), bad : Nat]
      BY <1>0, <2>1 DEF InvFacts, IoAt
    <2>4. nFq' = nFq + nStaged + got /\ nStaged' = 0
      BY <1>0, <1>2, <2>2, <2>3 DEF InvFacts, nFq, nStaged
    <2>5. fq_bad' \in Nat
      <3>1. fq_bad' = fq_bad + bad /\ fq_bad \in Nat /\ bad \in Nat
        BY <1>2, <2>1, Numbers DEF NumFacts
      <3>2. QED
        BY <3>1
    <2>6. TypeOK'
      BY <1>0, <1>2, <1>3, <2>2, <2>3, <2>5 DEF InvFacts, TypeOK
    <2>7. FrameCount'
      BY <1>0, <1>2, <1>5, <2>4 DEF InvFacts, FrameCount
    <2>8. nFq' + fq_bad' <= FillSize
      <3>1. NumFacts /\ fq_bad' = fq_bad + bad /\ nFq' = nFq + nStaged + got
            /\ got \in 0 .. 1 /\ bad = io.bad + 1 - got
        BY <1>2, <2>1, <2>4, Numbers
      <3>2. QED
        BY <1>1, <1>7, <3>1 DEF NumFacts
    <2>9. IoInv' /\ Outstanding'
      BY <1>1, <1>3, <1>5, <2>3, <2>4, <2>8 DEF IoInv, Outstanding
    <2>10. QED
      BY <1>6, <2>6, <2>7, <2>9 DEF QueueInv
  <1>8. CASE io.n # 1
    <2>1. /\ fq' = fq /\ fq_bad' = fq_bad
          /\ io' = [io EXCEPT !.n = @ - 1, !.staged = staged, !.bad = bad]
      BY <1>4, <1>8
    <2>2. io.n - 1 \in Nat /\ io.n - 1 >= 1
      BY <1>0, <1>1, <1>8 DEF InvFacts
    <2>3. /\ io'.pc = "fill" /\ io'.n = io.n - 1 /\ io'.staged = staged /\ io'.bad = bad
          /\ io' \in [pc : {"peek", "receive", "refill", "fill", "send", "complete"},
                      n : Nat, got : Nat, staged : Seq(Frames), bad : Nat]
      BY <1>0, <1>1, <1>2, <2>1, <2>2 DEF InvFacts
    <2>4. nFq' = nFq /\ nStaged' = nStaged + got
      BY <1>2, <2>1, <2>3 DEF nFq, nStaged
    <2>5. TypeOK'
      BY <1>0, <1>2, <1>3, <2>1, <2>3 DEF InvFacts, TypeOK
    <2>6. FrameCount'
      BY <1>0, <1>2, <1>5, <2>4 DEF InvFacts, FrameCount
    <2>7. nStaged' + io'.bad + io'.n = Batch
      <3>1. NumFacts /\ nStaged' = nStaged + got /\ io'.n = io.n - 1 /\ io'.bad = bad
            /\ got \in 0 .. 1 /\ bad = io.bad + 1 - got
        BY <1>2, <2>3, <2>4, Numbers
      <3>2. QED
        BY <1>1, <3>1 DEF NumFacts
    <2>8. nFq' + fq_bad' + Batch <= FillSize /\ nFq' + fq_bad' <= FillSize /\ 1 <= io'.n
      <3>1. NumFacts /\ fq_bad' = fq_bad /\ nFq' = nFq /\ io'.n = io.n - 1 /\ io.n - 1 >= 1
        BY <2>1, <2>2, <2>3, <2>4, Numbers
      <3>2. QED
        BY <1>1, <3>1 DEF NumFacts
    <2>9. IoInv' /\ Outstanding'
      BY <1>1, <1>3, <1>5, <2>3, <2>7, <2>8 DEF IoInv, Outstanding
    <2>10. QED
      BY <1>6, <2>5, <2>6, <2>9 DEF QueueInv
  <1>9. QED
    BY <1>7, <1>8

\* A frame of tx_ring goes to the TX ring or, if that is full, to the stack.
LEMMA IoSendInv ==
    ASSUME QueueInv, IoSend
    PROVE  QueueInv'
  <1>0. InvFacts
    BY Facts
  <1>1. CASE Len(tx) < TxSize
    <2>1. /\ io.pc = "send" /\ tx_ring # <<>> /\ tx_ring' = Tail(tx_ring)
          /\ Len(tx) < TxSize
      BY <1>1 DEF IoSend
    <2>2. /\ tx' = Append(tx, Head(tx_ring)) /\ free' = free
          /\ outstanding_tx' = outstanding_tx + 1
      BY <1>1, <2>1 DEF IoSend
    <2>3. /\ tx_ring' \in Seq(Frames) /\ Len(tx_ring') = Len(tx_ring) - 1
          /\ tx' \in Seq(Frames) /\ Len(tx') = Len(tx) + 1
      BY <2>1, <2>2, <1>0, TakeOp, PutOp DEF InvFacts
    <2>4. TypeOK'
      BY <1>1, <1>0, <2>1, <2>2, <2>3, Typed DEF InvFacts, IoSend, TypeOK
    <2>5. /\ nTxRing' = nTxRing - 1 /\ nTx' = nTx + 1 /\ nFree' = nFree
          /\ nFq' = nFq /\ nRx' = nRx /\ nRxRing' = nRxRing /\ nCq' = nCq
          /\ nStaged' = nStaged /\ nOwned' = nOwned
      BY <1>1, <1>0, <2>1, <2>2, <2>3 DEF InvFacts, IoSend, nFree, nFq, nRx, nRxRing,
          nTxRing, nTx, nCq, nStaged, nOwned
    <2>6. /\ io' = io /\ fq_bad' = fq_bad
      BY <1>1, <2>1, <2>2, <2>3 DEF IoSend
    <2>7. FrameCount' /\ IoInv' /\ Outstanding'
      BY <1>0, <2>1, <2>2, <2>3, <2>5, <2>6, Sizes DEF InvFacts, FrameCount, IoInv,
          Outstanding
    <2>8. WorkerInv'
      BY <1>1, <1>0, <2>1, <2>2, <2>3 DEF InvFacts, IoSend, WorkerInv
    <2>9. QED
      BY <2>4, <2>7, <2>8 DEF QueueInv
  <1>2. CASE ~(Len(tx) < TxSize)
    <2>1. /\ io.pc = "send" /\ tx_ring # <<>> /\ tx_ring' = Tail(tx_ring)
          /\ ~(Len(tx) < TxSize)
      BY <1>2 DEF IoSend
    <2>2. /\ free' = FreeAfterFree(Head(tx_ring)) /\ tx' = tx
          /\ outstanding_tx' = outstanding_tx
      BY <1>2, <2>1 DEF IoSend
    <2>3. /\ tx_ring' \in Seq(Frames) /\ Len(tx_ring') = Len(tx_ring) - 1
          /\ Head(tx_ring) \in Frames /\ nTxRing > 0
      BY <2>1, <2>2, <1>0, TakeOp DEF InvFacts, nTxRing
    <2>4. /\ free' \in Seq(Frames) /\ Len(free') = nFree + 1
      BY <2>1, <2>2, <2>3, FreeHasRoom
    <2>5. TypeOK'
      BY <1>2, <1>0, <2>1, <2>2, <2>3, <2>4, Typed DEF InvFacts, IoSend, TypeOK
    <2>6. /\ nFree' = nFree + 1 /\ nTxRing' = nTxRing - 1 /\ nFq' = nFq
          /\ nRx' = nRx /\ nRxRing' = nRxRing /\ nTx' = nTx /\ nCq' = nCq
          /\ nStaged' = nStaged /\ nOwned' = nOwned
      BY <1>2, <1>0, <2>1, <2>2, <2>3, <2>4 DEF InvFacts, IoSend, nFree, nFq, nRx,
          nRxRing, nTxRing, nTx, nCq, nStaged, nOwned
    <2>7. /\ io' = io /\ fq_bad' = fq_bad
      BY <1>2, <2>1, <2>2, <2>3, <2>4 DEF IoSend
    <2>8. FrameCount' /\ IoInv' /\ Outstanding'
      BY <1>0, <2>1, <2>2, <2>3, <2>4, <2>6, <2>7, Sizes DEF InvFacts, FrameCount,
          IoInv, Outstanding
    <2>9. WorkerInv'
      BY <1>2, <1>0, <2>1, <2>2, <2>3, <2>4 DEF InvFacts, IoSend, WorkerInv
    <2>10. QED
      BY <2>5, <2>8, <2>9 DEF QueueInv
  <1>3. QED
    BY <1>1, <1>2

\* The completion ring is looked at.
LEMMA IoSentInv ==
    ASSUME QueueInv, IoSent
    PROVE  QueueInv'
  <1>0. InvFacts
    BY Facts
  <1> DEFINE completed == IF outstanding_tx > 0 THEN Min2(Len(cq), Batch) ELSE 0
             p == IF completed > 0 THEN "complete" ELSE "peek"
  <1>1. completed \in Nat /\ completed <= nCq /\ p \in {"complete", "peek"}
    BY <1>0, Sizes DEF InvFacts, Min2, nCq
  <1>2. /\ io.pc = "send" /\ UNCHANGED <<rings, outstanding_tx, worker>>
        /\ io' = [IoAt(p) EXCEPT !.n = completed, !.got = completed]
        /\ p = "complete" => completed > 0
    BY DEF IoSent
  <1> HIDE DEF completed, p
  <1>3. /\ io'.pc = p /\ io'.n = completed /\ io'.got = completed
        /\ io'.staged = <<>> /\ io'.bad = 0
        /\ io' \in [pc : {"peek", "receive", "refill", "fill", "send", "complete"},
                    n : Nat, got : Nat, staged : Seq(Frames), bad : Nat]
    BY <1>0, <1>1, <1>2, IoStart DEF InvFacts
  <1>4. /\ nStaged = 0 /\ nFq + fq_bad <= FillSize /\ outstanding_tx = nTx + nCq
    BY <1>0, <1>2 DEF InvFacts, IoInv, Outstanding
  <1>5. io.staged = <<>>
    BY <1>0, <1>4 DEF InvFacts, nStaged
  <1>6. /\ TypeOK' /\ FrameCount' /\ WorkerInv'
        /\ nRx' = nRx /\ nCq' = nCq /\ nTx' = nTx /\ nFq' = nFq /\ nStaged' = nStaged
        /\ fq_bad' = fq_bad /\ outstanding_tx' = outstanding_tx
    BY <1>2, <1>3, <1>5, IoOnly
  <1>7. IoInv'
    <2>1. /\ io'.pc # "fill" /\ io'.pc # "receive"
          /\ io'.pc = "complete" => 1 <= io'.n /\ io'.n <= io'.got /\ io'.n <= nCq'
      BY <1>1, <1>2, <1>3, <1>6
    <2>2. nStaged' = 0 /\ io'.bad = 0 /\ nFq' + fq_bad' <= FillSize
      BY <1>3, <1>4, <1>6
    <2>3. QED
      BY <2>1, <2>2 DEF IoInv
  <1>8. Outstanding'
    BY <1>0, <1>1, <1>3, <1>4, <1>6 DEF InvFacts, Outstanding
  <1>9. QED
    BY <1>6, <1>7, <1>8 DEF QueueInv

\* A completed frame is freed; the last one of a batch settles outstanding_tx.
LEMMA IoCompleteInv ==
    ASSUME QueueInv, IoComplete
    PROVE  QueueInv'
  <1>0. InvFacts
    BY Facts
  <1>1. /\ io.pc = "complete" /\ 1 <= io.n /\ io.n <= io.got /\ io.n <= nCq
        /\ nStaged = 0 /\ io.bad = 0 /\ nFq + fq_bad <= FillSize
        /\ outstanding_tx = nTx + nCq + (io.got - io.n)
    BY <1>0 DEF InvFacts, IoComplete, IoInv, Outstanding
  <1>2. cq # <<>> /\ nCq > 0 /\ io.staged = <<>>
    BY <1>0, <1>1 DEF InvFacts, nCq, nStaged
  <1>3. /\ cq' = Tail(cq) /\ free' = FreeAfterFree(Head(cq))
        /\ fq' = fq /\ fq_bad' = fq_bad /\ rx' = rx /\ rx_ring' = rx_ring
        /\ tx_ring' = tx_ring /\ tx' = tx /\ worker' = worker
    BY DEF IoComplete
  <1>4. /\ cq' \in Seq(Frames) /\ Len(cq') = Len(cq) - 1 /\ Head(cq) \in Frames
    BY <1>0, <1>2, <1>3, TakeOp DEF InvFacts
  <1>5. /\ free' \in Seq(Frames) /\ Len(free') = nFree + 1
    BY <1>2, <1>3, <1>4, FreeHasRoom
  <1>6. /\ io'.staged = io.staged /\ io'.bad = 0
        /\ io' \in [pc : {"peek", "receive", "refill", "fill", "send", "complete"},
                    n : Nat, got : Nat, staged : Seq(Frames), bad : Nat]
        /\ \/ /\ io'.pc = "peek" /\ io.n = 1
              /\ outstanding_tx' = outstanding_tx - io.got
           \/ /\ io'.pc = "complete" /\ io.n > 1 /\ io'.n = io.n - 1 /\ io'.got = io.got
              /\ outstanding_tx' = outstanding_tx
    <2>1. CASE io.n = 1
      <3>1. io' = IoAt("peek") /\ outstanding_tx' = outstanding_tx - io.got
        BY <2>1 DEF IoComplete
      <3>2. QED
        BY <1>0, <1>2, <2>1, <3>1 DEF InvFacts, IoAt
    <2>2. CASE io.n # 1
      <3>1. io' = [io EXCEPT !.n = @ - 1] /\ outstanding_tx' = outstanding_tx
        BY <2>2 DEF IoComplete
      <3>2. io.n > 1 /\ io.n - 1 \in Nat
        BY <1>0, <1>1, <2>2 DEF InvFacts
      <3>3. QED
        BY <1>0, <1>1, <3>1, <3>2 DEF InvFacts
    <2>3. QED
      BY <2>1, <2>2
  <1>7. /\ nFree' = nFree + 1 /\ nCq' = nCq - 1 /\ nFq' = nFq /\ nRx' = nRx
        /\ nRxRing' = nRxRing /\ nTxRing' = nTxRing /\ nTx' = nTx
        /\ nStaged' = nStaged /\ nOwned' = nOwned
    BY <1>3, <1>4, <1>5, <1>6 DEF nFree, nFq, nRx, nRxRing, nTxRing, nTx, nCq, nStaged, nOwned
  <1>8. Outstanding' /\ outstanding_tx' \in Nat
    <2>1. NumFacts /\ nTx' = nTx /\ nCq' = nCq - 1
      BY <1>7, Numbers
    <2>2. CASE io'.pc = "peek" /\ io.n = 1 /\ outstanding_tx' = outstanding_tx - io.got
      BY <1>1, <2>1, <2>2 DEF NumFacts, Outstanding
    <2>3. CASE /\ io'.pc = "complete" /\ io.n > 1 /\ io'.n = io.n - 1 /\ io'.got = io.got
               /\ outstanding_tx' = outstanding_tx
      BY <1>1, <2>1, <2>3 DEF NumFacts, Outstanding
    <2>4. QED
      BY <1>6, <2>2, <2>3
  <1>9. TypeOK'
    BY <1>0, <1>3, <1>4, <1>5, <1>6, <1>8 DEF InvFacts, TypeOK
  <1>10. FrameCount' /\ WorkerInv'
    BY <1>0, <1>3, <1>7 DEF InvFacts, FrameCount, WorkerInv
  <1>11. IoInv'
    <2>1. NumFacts /\ nCq' = nCq - 1 /\ nStaged' = 0 /\ io'.bad = 0
          /\ nFq' + fq_bad' <= FillSize
      BY <1>1, <1>3, <1>6, <1>7, Numbers
    <2>2. CASE io'.pc = "peek"
      BY <2>1, <2>2 DEF IoInv
    <2>3. CASE io'.pc = "complete" /\ io.n > 1 /\ io'.n = io.n - 1 /\ io'.got = io.got
      BY <1>1, <2>1, <2>3 DEF NumFacts, IoInv
    <2>4. QED
      BY <1>6, <2>2, <2>3
  <1>12. QED
    BY <1>8, <1>9, <1>10, <1>11 DEF QueueInv

\* What the worker does with a packet.
LEMMA WorkerInvStep ==
    ASSUME QueueInv, WorkerStep
    PROVE  QueueInv'
  <1>0. InvFacts
    BY Facts
  <1>1. CASE WorkerPop
    <2>1. /\ worker.pc = "pop" /\ rx_ring # <<>> /\ rx_ring' = Tail(rx_ring)
      BY <1>1 DEF WorkerPop
    <2>2. /\ rx_ring' \in Seq(Frames) /\ Len(rx_ring') = Len(rx_ring) - 1
          /\ Head(rx_ring) \in Frames
      BY <2>1, <1>0, TakeOp DEF InvFacts
    <2>3. /\ worker'.pc \in {"forward", "stale", "drop"}
          /\ worker'.frame = Head(rx_ring)
      BY <1>1 DEF WorkerPop, WorkerAt
    <2>4. worker' \in [pc : {"pop", "forward", "stale", "drop", "borrow", "query"},
                    frame : Frames \cup {INVALID}, query : Frames \cup {INVALID}]
      BY <1>1, <2>2 DEF WorkerPop, WorkerAt
    <2>5. TypeOK'
      BY <1>1, <1>0, <2>1, <2>2, <2>3, <2>4, Typed DEF InvFacts, WorkerPop, TypeOK
    <2>6. /\ nRxRing' = nRxRing - 1 /\ nOwned' = nOwned + 1 /\ nFree' = nFree
          /\ nFq' = nFq /\ nRx' = nRx /\ nTxRing' = nTxRing /\ nTx' = nTx
          /\ nCq' = nCq /\ nStaged' = nStaged
      BY <1>1, <1>0, <2>1, <2>2, <2>3, <2>4 DEF InvFacts, WorkerPop, nFree, nFq, nRx,
          nRxRing, nTxRing, nTx, nCq, nStaged, nOwned
    <2>7. /\ io' = io /\ fq_bad' = fq_bad /\ outstanding_tx' = outstanding_tx
      BY <1>1, <2>1, <2>2, <2>3, <2>4 DEF WorkerPop
    <2>8. FrameCount' /\ IoInv' /\ Outstanding'
      BY <1>0, <2>1, <2>2, <2>3, <2>4, <2>6, <2>7, Sizes DEF InvFacts, FrameCount,
          IoInv, Outstanding
    <2>9. WorkerInv'
      BY <1>1, <1>0, <2>1, <2>2, <2>3, <2>4 DEF InvFacts, WorkerPop, WorkerInv
    <2>10. QED
      BY <2>5, <2>8, <2>9 DEF QueueInv
  <1>2. CASE WorkerForward
    <2>1. /\ worker.pc = "forward" /\ worker.frame \in Frames
          /\ Len(tx_ring) < RingSize
      BY <1>2, <1>0, RoomToPush DEF InvFacts, WorkerForward, WorkerInv, NoRingOverflows
    <2>2. /\ tx_ring' = Append(tx_ring, worker.frame)
      BY <1>2, <2>1 DEF WorkerForward, TxRingAfterPush
    <2>3. /\ tx_ring' \in Seq(Frames) /\ Len(tx_ring') = Len(tx_ring) + 1
      BY <2>1, <2>2, <1>0, PutOp DEF InvFacts
    <2>4. /\ worker'.pc = "pop"
      BY <1>2, <2>1, <1>0, Typed DEF InvFacts, WorkerForward, WorkerAt
    <2>5. worker' \in [pc : {"pop", "forward", "stale", "drop", "borrow", "query"},
                    frame : Frames \cup {INVALID}, query : Frames \cup {INVALID}]
      BY <1>2, <2>1, <1>0, Typed DEF InvFacts, WorkerForward, WorkerAt
    <2>6. TypeOK'
      BY <1>2, <1>0, <2>1, <2>2, <2>3, <2>4, <2>5, Typed DEF InvFacts, WorkerForward, TypeOK
    <2>7. /\ nTxRing' = nTxRing + 1 /\ nOwned' = nOwned - 1 /\ nFree' = nFree
          /\ nFq' = nFq /\ nRx' = nRx /\ nRxRing' = nRxRing /\ nTx' = nTx
          /\ nCq' = nCq /\ nStaged' = nStaged
      BY <1>2, <1>0, <2>1, <2>2, <2>3, <2>4, <2>5 DEF InvFacts, WorkerForward, nFree,
          nFq, nRx, nRxRing, nTxRing, nTx, nCq, nStaged, nOwned
    <2>8. /\ io' = io /\ fq_bad' = fq_bad /\ outstanding_tx' = outstanding_tx
      BY <1>2, <2>1, <2>2, <2>3, <2>4, <2>5 DEF WorkerForward
    <2>9. FrameCount' /\ IoInv' /\ Outstanding'
      BY <1>0, <2>1, <2>2, <2>3, <2>4, <2>5, <2>7, <2>8, Sizes DEF InvFacts, FrameCount,
          IoInv, Outstanding
    <2>10. WorkerInv'
      BY <1>2, <1>0, <2>1, <2>2, <2>3, <2>4, <2>5 DEF InvFacts, WorkerForward, WorkerInv
    <2>11. QED
      BY <2>6, <2>9, <2>10 DEF QueueInv
  <1>3. CASE WorkerSendStale
    <2>1. /\ worker.pc = "stale" /\ worker.frame \in Frames
          /\ Len(tx_ring) < RingSize
      BY <1>3, <1>0, RoomToPush DEF InvFacts, WorkerSendStale, WorkerInv, NoRingOverflows
    <2>2. /\ tx_ring' = Append(tx_ring, worker.frame)
      BY <1>3, <2>1 DEF WorkerSendStale, TxRingAfterPush
    <2>3. /\ tx_ring' \in Seq(Frames) /\ Len(tx_ring') = Len(tx_ring) + 1
      BY <2>1, <2>2, <1>0, PutOp DEF InvFacts
    <2>4. /\ worker'.pc = "borrow"
      BY <1>3, <2>1, <1>0, Typed DEF InvFacts, WorkerSendStale, WorkerAt
    <2>5. worker' \in [pc : {"pop", "forward", "stale", "drop", "borrow", "query"},
                    frame : Frames \cup {INVALID}, query : Frames \cup {INVALID}]
      BY <1>3, <2>1, <1>0, Typed DEF InvFacts, WorkerSendStale, WorkerAt
    <2>6. TypeOK'
      BY <1>3, <1>0, <2>1, <2>2, <2>3, <2>4, <2>5, Typed DEF InvFacts, WorkerSendStale,
          TypeOK
    <2>7. /\ nTxRing' = nTxRing + 1 /\ nOwned' = nOwned - 1 /\ nFree' = nFree
          /\ nFq' = nFq /\ nRx' = nRx /\ nRxRing' = nRxRing /\ nTx' = nTx
          /\ nCq' = nCq /\ nStaged' = nStaged
      BY <1>3, <1>0, <2>1, <2>2, <2>3, <2>4, <2>5 DEF InvFacts, WorkerSendStale, nFree,
          nFq, nRx, nRxRing, nTxRing, nTx, nCq, nStaged, nOwned
    <2>8. /\ io' = io /\ fq_bad' = fq_bad /\ outstanding_tx' = outstanding_tx
      BY <1>3, <2>1, <2>2, <2>3, <2>4, <2>5 DEF WorkerSendStale
    <2>9. FrameCount' /\ IoInv' /\ Outstanding'
      BY <1>0, <2>1, <2>2, <2>3, <2>4, <2>5, <2>7, <2>8, Sizes DEF InvFacts, FrameCount,
          IoInv, Outstanding
    <2>10. WorkerInv'
      BY <1>3, <1>0, <2>1, <2>2, <2>3, <2>4, <2>5 DEF InvFacts, WorkerSendStale, WorkerInv
    <2>11. QED
      BY <2>6, <2>9, <2>10 DEF QueueInv
  <1>4. CASE WorkerBorrow
    <2>1. /\ worker.pc = "borrow" /\ nOwned = 0 /\ fq' = fq /\ fq_bad' = fq_bad /\ rx' = rx
          /\ rx_ring' = rx_ring /\ tx_ring' = tx_ring /\ tx' = tx /\ cq' = cq
          /\ outstanding_tx' = outstanding_tx /\ io' = io
      BY <1>4 DEF WorkerBorrow, nOwned
    <2>2. /\ free' \in Seq(Frames) /\ Len(free') + nOwned' = nFree
          /\ nOwned' \in 0 .. 1 /\ WorkerInv'
          /\ worker' \in [pc : {"pop", "forward", "stale", "drop", "borrow", "query"},
                    frame : Frames \cup {INVALID}, query : Frames \cup {INVALID}]
      <3>1. CASE CanAlloc
        <4>1. /\ free' = FreeAfterAlloc
              /\ worker' = [worker EXCEPT !.pc = "query", !.query = TopFrame]
          BY <1>4, <3>1 DEF WorkerBorrow
        <4>2. /\ TopFrame \in Frames /\ free' \in Seq(Frames) /\ Len(free') = nFree - 1
          BY <1>0, <3>1, <4>1, AllocTakes DEF InvFacts
        <4>3. /\ worker'.pc = "query" /\ worker'.query \in Frames
              /\ worker' \in [pc : {"pop", "forward", "stale", "drop", "borrow", "query"},
                    frame : Frames \cup {INVALID}, query : Frames \cup {INVALID}]
          BY <1>0, <4>1, <4>2 DEF InvFacts
        <4>4. nOwned' = 1 /\ WorkerInv'
          BY <4>3 DEF nOwned, WorkerInv
        <4>5. QED
          BY <1>0, <4>2, <4>3, <4>4 DEF InvFacts
      <3>2. CASE ~CanAlloc
        <4>1. free' = free /\ worker' = WorkerAt("pop")
          BY <1>4, <3>2 DEF WorkerBorrow
        <4>2. nOwned' = 0 /\ WorkerInv'
          BY <4>1 DEF nOwned, WorkerAt, WorkerInv
        <4>3. QED
          BY <1>0, <4>1, <4>2 DEF InvFacts, WorkerAt, nFree
      <3>3. QED
        BY <3>1, <3>2
    <2>3. TypeOK'
      BY <1>0, <2>1, <2>2 DEF InvFacts, TypeOK
    <2>4. /\ nFree' + nOwned' = nFree /\ nFree' \in Nat /\ nFq' = nFq /\ nRx' = nRx
          /\ nRxRing' = nRxRing /\ nTxRing' = nTxRing /\ nTx' = nTx /\ nCq' = nCq
          /\ nStaged' = nStaged
      BY <2>1, <2>2 DEF nFree, nFq, nRx, nRxRing, nTxRing, nTx, nCq, nStaged
    <2>5. FrameCount' /\ IoInv' /\ Outstanding'
      <3>1. NumFacts /\ nOwned = 0 /\ nOwned' \in 0 .. 1
        BY <2>1, <2>2, Numbers
      <3>2. FrameCount'
        <4>1. nFree + nFq + nRx + nRxRing + nTxRing + nTx + nCq + nStaged + nOwned = NumFrames
          BY <1>0 DEF InvFacts, FrameCount
        <4>2. nFree = nFree' + nOwned' /\ nFree' \in Nat /\ nOwned' \in Nat
          BY <2>4, <3>1
        <4>3. nFree' + nFq + nRx + nRxRing + nTxRing + nTx + nCq + nStaged + nOwned'
                = NumFrames
          BY <3>1, <4>1, <4>2 DEF NumFacts
        <4>4. QED
          BY <2>4, <4>3 DEF FrameCount
      <3>3. fq_bad' = fq_bad /\ io' = io /\ outstanding_tx' = outstanding_tx
        BY <2>1
      <3>4. IoInv' /\ Outstanding'
        BY <1>0, <2>4, <3>3 DEF InvFacts, IoInv, Outstanding
      <3>5. QED
        BY <3>2, <3>4
    <2>6. QED
      BY <2>2, <2>3, <2>5 DEF QueueInv
  <1>5. CASE WorkerQuery
    <2>1. /\ worker.pc = "query" /\ worker.query \in Frames
          /\ Len(tx_ring) < RingSize
      BY <1>5, <1>0, RoomToPush DEF InvFacts, WorkerQuery, WorkerInv, NoRingOverflows
    <2>2. /\ tx_ring' = Append(tx_ring, worker.query)
      BY <1>5, <2>1 DEF WorkerQuery, TxRingAfterPush
    <2>3. /\ tx_ring' \in Seq(Frames) /\ Len(tx_ring') = Len(tx_ring) + 1
      BY <2>1, <2>2, <1>0, PutOp DEF InvFacts
    <2>4. /\ worker'.pc = "pop"
      BY <1>5, <2>1, <1>0, Typed DEF InvFacts, WorkerQuery, WorkerAt
    <2>5. worker' \in [pc : {"pop", "forward", "stale", "drop", "borrow", "query"},
                    frame : Frames \cup {INVALID}, query : Frames \cup {INVALID}]
      BY <1>5, <2>1, <1>0, Typed DEF InvFacts, WorkerQuery, WorkerAt
    <2>6. TypeOK'
      BY <1>5, <1>0, <2>1, <2>2, <2>3, <2>4, <2>5, Typed DEF InvFacts, WorkerQuery, TypeOK
    <2>7. /\ nTxRing' = nTxRing + 1 /\ nOwned' = nOwned - 1 /\ nFree' = nFree
          /\ nFq' = nFq /\ nRx' = nRx /\ nRxRing' = nRxRing /\ nTx' = nTx
          /\ nCq' = nCq /\ nStaged' = nStaged
      BY <1>5, <1>0, <2>1, <2>2, <2>3, <2>4, <2>5 DEF InvFacts, WorkerQuery, nFree, nFq,
          nRx, nRxRing, nTxRing, nTx, nCq, nStaged, nOwned
    <2>8. /\ io' = io /\ fq_bad' = fq_bad /\ outstanding_tx' = outstanding_tx
      BY <1>5, <2>1, <2>2, <2>3, <2>4, <2>5 DEF WorkerQuery
    <2>9. FrameCount' /\ IoInv' /\ Outstanding'
      BY <1>0, <2>1, <2>2, <2>3, <2>4, <2>5, <2>7, <2>8, Sizes DEF InvFacts, FrameCount,
          IoInv, Outstanding
    <2>10. WorkerInv'
      BY <1>5, <1>0, <2>1, <2>2, <2>3, <2>4, <2>5 DEF InvFacts, WorkerQuery, WorkerInv
    <2>11. QED
      BY <2>6, <2>9, <2>10 DEF QueueInv
  <1>6. CASE WorkerDrop
    <2>1. /\ worker.pc = "drop" /\ worker.frame \in Frames /\ nOwned > 0
      BY <1>6, <1>0 DEF InvFacts, WorkerDrop, WorkerInv, nOwned
    <2>2. free' = FreeAfterFree(worker.frame)
      BY <1>6 DEF WorkerDrop
    <2>3. /\ free' \in Seq(Frames) /\ Len(free') = nFree + 1
      BY <2>1, <2>2, FreeHasRoom
    <2>4. /\ worker'.pc = "pop"
      BY <1>6 DEF WorkerDrop, WorkerAt
    <2>5. worker' \in [pc : {"pop", "forward", "stale", "drop", "borrow", "query"},
                    frame : Frames \cup {INVALID}, query : Frames \cup {INVALID}]
      BY <1>6 DEF WorkerDrop, WorkerAt
    <2>6. TypeOK'
      BY <1>6, <1>0, <2>1, <2>2, <2>3, <2>4, <2>5, Typed DEF InvFacts, WorkerDrop, TypeOK
    <2>7. /\ nFree' = nFree + 1 /\ nOwned' = nOwned - 1 /\ nFq' = nFq
          /\ nRx' = nRx /\ nRxRing' = nRxRing /\ nTxRing' = nTxRing
          /\ nTx' = nTx /\ nCq' = nCq /\ nStaged' = nStaged
      BY <1>6, <1>0, <2>1, <2>2, <2>3, <2>4, <2>5 DEF InvFacts, WorkerDrop, nFree, nFq,
          nRx, nRxRing, nTxRing, nTx, nCq, nStaged, nOwned
    <2>8. /\ io' = io /\ fq_bad' = fq_bad /\ outstanding_tx' = outstanding_tx
      BY <1>6, <2>1, <2>2, <2>3, <2>4, <2>5 DEF WorkerDrop
    <2>9. FrameCount' /\ IoInv' /\ Outstanding'
      BY <1>0, <2>1, <2>2, <2>3, <2>4, <2>5, <2>7, <2>8, Sizes DEF InvFacts, FrameCount,
          IoInv, Outstanding
    <2>10. WorkerInv'
      BY <1>6, <1>0, <2>1, <2>2, <2>3, <2>4, <2>5 DEF InvFacts, WorkerDrop, WorkerInv
    <2>11. QED
      BY <2>6, <2>9, <2>10 DEF QueueInv
  <1>7. QED
    BY <1>1, <1>2, <1>3, <1>4, <1>5, <1>6 DEF WorkerStep

-----------------------------------------------------------------------------
(* The invariant *)

LEMMA NextInv == QueueInv /\ [Next]_vars => QueueInv'
  <1> SUFFICES ASSUME QueueInv, [Next]_vars PROVE QueueInv'
    OBVIOUS
  <1>0. QueueInv => InvFacts
    BY Facts
  <1>1. CASE KernelReceive \/ KernelDiscard \/ KernelTransmit
    BY <1>1, KernelInv
  <1>2. CASE IoStep
    BY <1>2, IoPeekInv, IoReceiveInv, IoRefillInv, IoFillInv, IoSendInv, IoSentInv,
       IoCompleteInv DEF IoStep
  <1>3. CASE WorkerStep
    BY <1>3, WorkerInvStep
  <1>4. CASE UNCHANGED vars
    <2>1. /\ free' = free /\ fq' = fq /\ fq_bad' = fq_bad /\ rx' = rx
          /\ rx_ring' = rx_ring /\ tx_ring' = tx_ring /\ tx' = tx /\ cq' = cq
          /\ outstanding_tx' = outstanding_tx /\ io' = io /\ worker' = worker
      BY <1>4 DEF vars, rings
    <2>2. TypeOK' /\ WorkerInv'
      BY <2>1, <1>0 DEF InvFacts, TypeOK, WorkerInv
    <2>3. FrameCount' /\ IoInv' /\ Outstanding'
      BY <2>1, <1>0 DEF InvFacts, FrameCount, IoInv, Outstanding,
        nFree, nFq, nRx, nRxRing, nTxRing, nTx, nCq, nStaged, nOwned
    <2>4. QED
      BY <2>2, <2>3 DEF QueueInv
  <1>5. QED
    BY <1>1, <1>2, <1>3, <1>4 DEF Next, IoStep, WorkerStep

\* The frames counted in the places and in the threads' hands always add up to
\* NumFrames: no handler of the three actors loses or invents one.
THEOREM QueueInvariant == Spec => []QueueInv
  <1>1. QED
    BY InitInv, NextInv, PTL DEF Spec

\* Every ring holds frames of the UMEM, and the unsigned outstanding_tx is never
\* lowered below zero by the completions of io_thread_func.
THEOREM TypeCorrect == Spec => []TypeOK
  <1>1. QueueInv => TypeOK
    BY DEF QueueInv
  <1>2. QED
    BY <1>1, QueueInvariant, PTL

\* The pushes to rx_ring and tx_ring whose result is ignored never fail, and
\* the refill of the fill ring never overruns it.
THEOREM RingsNeverOverflow == Spec => []NoRingOverflows
  <1>1. QueueInv => NoRingOverflows
    BY RoomToPush
  <1>2. QED
    BY <1>1, QueueInvariant, PTL

\* outstanding_tx counts exactly the frames the kernel has not given back.
THEOREM OutstandingIsExact == Spec => []OutstandingExact
  <1>1. QueueInv => OutstandingExact
    BY DEF QueueInv, Outstanding, OutstandingExact, nTx, nCq
  <1>2. QED
    BY <1>1, QueueInvariant, PTL

-----------------------------------------------------------------------------
(* Which frames are in the places, not only how many *)

\* The frames in a queue, and the one the worker must still hand on.
Held(s) == {s[i] : i \in 1 .. Len(s)}
Owned == IF worker.pc \in {"forward", "stale", "drop"} THEN {worker.frame}
         ELSE IF worker.pc = "query" THEN {worker.query} ELSE {}

Accounted ==
    Held(free) \cup Held(fq) \cup Held(rx) \cup Held(rx_ring) \cup Held(tx_ring)
        \cup Held(tx) \cup Held(cq) \cup Held(io.staged) \cup Owned

\* As many frames are counted as there are, so that no frame can be in two places
\* once each of them is in one.
Covered == Frames \subseteq Accounted

PlacesInv == QueueInv /\ Covered

LEMMA HeldPut ==
    ASSUME NEW s \in Seq(Frames), NEW f \in Frames
    PROVE  Held(Append(s, f)) = Held(s) \cup {f}
  <1> DEFINE t == Append(s, f)
  <1>1. Len(s) \in Nat /\ Len(t) = Len(s) + 1 /\ t[Len(s) + 1] = f
        /\ \A i \in 1 .. Len(s) : t[i] = s[i]
    OBVIOUS
  <1> HIDE DEF t
  <1>2. \A i \in 1 .. Len(t) : i = Len(s) + 1 \/ i \in 1 .. Len(s)
    BY <1>1
  <1>3. \A i \in 1 .. Len(s) : i \in 1 .. Len(t)
    BY <1>1
  <1>4. Len(s) + 1 \in 1 .. Len(t)
    BY <1>1
  <1>5. QED
    BY <1>1, <1>2, <1>3, <1>4 DEF Held, t

LEMMA HeldTake ==
    ASSUME NEW s \in Seq(Frames), s # <<>>
    PROVE  Held(s) = Held(Tail(s)) \cup {Head(s)}
  <1> DEFINE t == Tail(s)
  <1>1. Len(s) \in Nat /\ Len(s) > 0 /\ Len(t) = Len(s) - 1 /\ Head(s) = s[1]
        /\ \A i \in 1 .. Len(t) : t[i] = s[i + 1]
    OBVIOUS
  <1> HIDE DEF t
  <1>2. \A i \in 1 .. Len(s) : i = 1 \/ (i - 1 \in 1 .. Len(t) /\ (i - 1) + 1 = i)
    BY <1>1
  <1>3. \A i \in 1 .. Len(t) : i + 1 \in 1 .. Len(s)
    BY <1>1
  <1>4. 1 \in 1 .. Len(s)
    BY <1>1
  <1>5. ASSUME NEW f \in Held(s) PROVE f \in Held(t) \cup {s[1]}
    <2>1. PICK i \in 1 .. Len(s) : f = s[i]
      BY DEF Held
    <2>2. CASE i = 1
      BY <2>1, <2>2
    <2>3. CASE i # 1
      <3>1. i - 1 \in 1 .. Len(t) /\ t[i - 1] = s[i]
        BY <1>1, <1>2, <2>3
      <3>2. QED
        BY <2>1, <3>1 DEF Held
    <2>4. QED
      BY <2>2, <2>3
  <1>6. Held(t) \subseteq Held(s)
    BY <1>1, <1>3 DEF Held
  <1>7. s[1] \in Held(s)
    BY <1>4 DEF Held
  <1>8. QED
    BY <1>1, <1>5, <1>6, <1>7 DEF t

\* The frames of the stack without its top, and the top.
LEMMA HeldAlloc ==
    ASSUME TypeOK, CanAlloc
    PROVE  Held(free) = Held(FreeAfterAlloc) \cup {TopFrame}
  <1>1. free \in Seq(Frames) /\ free # <<>>
    BY Typed DEF CanAlloc
  <1> DEFINE l == Len(free) - 1
             t == SubSeq(free, 1, l)
  <1>2. l \in Nat /\ Len(free) = l + 1
    BY <1>1
  <1>3. Len(t) = l /\ \A i \in 1 .. l : t[i] = free[i]
    <2>1. Len(t) = l
      BY <1>1, TakeOp
    <2>2. t = [i \in 1 .. l |-> free[i]]
      BY <1>1, <1>2
    <2>3. QED
      BY <2>1, <2>2
  <1>4. FreeAfterAlloc = t /\ TopFrame = free[l + 1]
    BY <1>2 DEF FreeAfterAlloc, TopFrame
  <1> HIDE DEF l, t
  <1>5. \A i \in 1 .. l + 1 : i = l + 1 \/ i \in 1 .. l
    BY <1>2
  <1>6. (\A i \in 1 .. l : i \in 1 .. l + 1) /\ l + 1 \in 1 .. l + 1
    BY <1>2
  <1>7. QED
    BY <1>2, <1>3, <1>4, <1>5, <1>6 DEF Held

LEMMA HeldCat ==
    ASSUME NEW s \in Seq(Frames), NEW t \in Seq(Frames)
    PROVE  /\ s \o t \in Seq(Frames)
           /\ Len(s \o t) = Len(s) + Len(t)
           /\ Held(s \o t) = Held(s) \cup Held(t)
  <1>1. s \o t \in Seq(Frames) /\ Len(s \o t) = Len(s) + Len(t)
    OBVIOUS
  <1>2. Held(s) = Range(s) /\ Held(t) = Range(t) /\ Held(s \o t) = Range(s \o t)
    BY <1>1, RangeEquality DEF Held
  <1>3. QED
    BY <1>1, <1>2, RangeConcatenation

LEMMA HeldNone == Held(<<>>) = {}
  BY DEF Held

\* A freed frame is on the stack.
LEMMA HeldFree ==
    ASSUME QueueInv, NEW f \in Frames, nRx > 0 \/ nTxRing > 0 \/ nCq > 0 \/ nOwned > 0
    PROVE  Held(FreeAfterFree(f)) = Held(free) \cup {f}
  <1>1. nFree < NumFrames
    BY Counts, Sizes DEF QueueInv, FrameCount
  <1>2. FreeAfterFree(f) = Append(free, f) /\ free \in Seq(Frames)
    BY <1>1, Counts, Sizes, Typed DEF FreeAfterFree, nFree, QueueInv
  <1>3. QED
    BY <1>2, HeldPut

LEMMA InitCovered == Init => Covered
  <1> SUFFICES ASSUME Init, NEW f \in Frames PROVE f \in Held(free) \cup Held(fq)
    BY DEF Covered, Accounted
  <1> DEFINE a == NumFrames - FillSize
  <1>1. NumFrames \in Nat /\ FillSize \in Nat /\ FillSize <= NumFrames /\ a \in Nat
        /\ f \in Int /\ 0 <= f /\ f < NumFrames
    BY Sizes DEF Frames
  <1>2. free = [i \in 1 .. a |-> i - 1] /\ fq = [i \in 1 .. FillSize |-> NumFrames - i]
    BY DEF Init
  <1>3. Len(free) = a /\ Len(fq) = FillSize
    BY <1>1, <1>2
  <1>4. CASE f < a
    <2>1. f + 1 \in 1 .. a /\ (f + 1) - 1 = f
      BY <1>1, <1>4
    <2> HIDE DEF a
    <2>2. free[f + 1] = f
      BY <1>2, <2>1
    <2>3. QED
      BY <1>3, <2>1, <2>2 DEF Held
  <1>5. CASE ~(f < a)
    <2>1. NumFrames - f \in 1 .. FillSize /\ NumFrames - (NumFrames - f) = f
      BY <1>1, <1>5
    <2>2. fq[NumFrames - f] = f
      BY <1>2, <2>1
    <2>3. QED
      BY <1>3, <2>1, <2>2 DEF Held
  <1>6. QED
    BY <1>4, <1>5

\* The places hold the same frames before and after each step.
LEMMA KernelKeeps ==
    ASSUME QueueInv, KernelReceive \/ KernelDiscard \/ KernelTransmit
    PROVE  Accounted' = Accounted
  <1>0. InvFacts
    BY Facts
  <1>1. CASE KernelReceive
    <2>1. /\ fq # <<>> /\ fq' = Tail(fq) /\ rx' = Append(rx, Head(fq))
          /\ UNCHANGED <<free, rx_ring, tx_ring, tx, cq, io, worker>>
      BY <1>1 DEF KernelReceive
    <2>2. Held(fq) = Held(fq') \cup {Head(fq)} /\ Head(fq) \in Frames
      BY <1>0, <2>1, HeldTake, TakeOp DEF InvFacts
    <2>3. Held(rx') = Held(rx) \cup {Head(fq)}
      BY <1>0, <2>1, <2>2, HeldPut DEF InvFacts
    <2>4. QED
      BY <2>1, <2>2, <2>3 DEF Accounted, Owned
  <1>2. CASE KernelDiscard
    BY <1>2 DEF KernelDiscard, Accounted, Owned
  <1>3. CASE KernelTransmit
    <2>1. /\ tx # <<>> /\ tx' = Tail(tx) /\ cq' = Append(cq, Head(tx))
          /\ UNCHANGED <<free, fq, rx, rx_ring, tx_ring, io, worker>>
      BY <1>3 DEF KernelTransmit
    <2>2. Held(tx) = Held(tx') \cup {Head(tx)} /\ Head(tx) \in Frames
      BY <1>0, <2>1, HeldTake, TakeOp DEF InvFacts
    <2>3. Held(cq') = Held(cq) \cup {Head(tx)}
      BY <1>0, <2>1, <2>2, HeldPut DEF InvFacts
    <2>4. QED
      BY <2>1, <2>2, <2>3 DEF Accounted, Owned
  <1>4. QED
    BY <1>1, <1>2, <1>3

\* Outside a refill the IO thread has no frame staged.
LEMMA NothingStaged ==
    ASSUME QueueInv
    PROVE  io.pc # "fill" => io.staged = <<>> /\ Held(io.staged) = {}
  <1> SUFFICES ASSUME io.pc # "fill" PROVE io.staged = <<>>
    BY HeldNone
  <1>1. nStaged = 0 /\ io.staged \in Seq(Frames)
    BY Facts DEF InvFacts, IoInv
  <1>2. QED
    BY <1>1 DEF nStaged

\* Steps that move no frame.
LEMMA IoTestsKeep ==
    ASSUME QueueInv, IoPeek \/ IoRefill \/ IoSent
    PROVE  Accounted' = Accounted
  <1>1. Held(io.staged) = {}
    BY NothingStaged DEF IoPeek, IoRefill, IoSent
  <1>2. Held(io'.staged) = {}
    <2>1. io.staged = <<>> /\ InvFacts
      BY NothingStaged, Facts DEF IoPeek, IoRefill, IoSent
    <2>2. io'.staged = <<>>
      <3>1. CASE IoPeek
        <4>1. \E p, k : io' = [io EXCEPT !.pc = p, !.n = k, !.got = k]
          BY <3>1 DEF IoPeek
        <4>2. QED
          BY <2>1, <4>1 DEF InvFacts
      <3>2. CASE IoRefill
        <4>1. io' = [io EXCEPT !.pc = "fill", !.n = Batch] \/ io' = IoAt("send")
          BY <3>2 DEF IoRefill
        <4>2. CASE io' = [io EXCEPT !.pc = "fill", !.n = Batch]
          BY <2>1, <4>2 DEF InvFacts
        <4>3. CASE io' = IoAt("send")
          BY <4>3 DEF IoAt
        <4>4. QED
          BY <4>1, <4>2, <4>3
      <3>3. CASE IoSent
        BY <3>3 DEF IoSent, IoAt
      <3>4. QED
        BY <3>1, <3>2, <3>3
    <2>3. QED
      BY <2>2, HeldNone
  <1>3. UNCHANGED <<free, fq, rx, rx_ring, tx_ring, tx, cq, worker>>
    BY DEF IoPeek, IoRefill, IoSent, rings
  <1>4. QED
    BY <1>1, <1>2, <1>3 DEF Accounted, Owned

LEMMA IoReceiveKeeps ==
    ASSUME QueueInv, IoReceive
    PROVE  Accounted' = Accounted
  <1>0. InvFacts
    BY Facts
  <1>1. io.pc = "receive" /\ nRx > 0 /\ io.staged = <<>>
    BY <1>0, NothingStaged DEF InvFacts, IoReceive, IoInv
  <1>2. Len(rx_ring) < RingSize /\ rx # <<>>
    BY <1>0, <1>1, RoomToPush DEF InvFacts, NoRingOverflows, nRx
  <1>3. /\ rx' = Tail(rx) /\ rx_ring' = Append(rx_ring, Head(rx))
        /\ UNCHANGED <<free, fq, tx_ring, tx, cq, worker>>
    BY <1>2 DEF IoReceive
  <1>4. io'.staged = io.staged
    BY <1>0, <1>1 DEF IoReceive, IoAt, InvFacts
  <1>5. Held(rx) = Held(rx') \cup {Head(rx)} /\ Head(rx) \in Frames
    BY <1>0, <1>2, <1>3, HeldTake, TakeOp DEF InvFacts
  <1>6. Held(rx_ring') = Held(rx_ring) \cup {Head(rx)}
    BY <1>0, <1>3, <1>5, HeldPut DEF InvFacts
  <1>7. QED
    BY <1>3, <1>4, <1>5, <1>6 DEF Accounted, Owned

\* A refill moves the tops of the stack into the fill ring.
LEMMA IoFillKeeps ==
    ASSUME QueueInv, IoFill
    PROVE  Accounted' = Accounted
  <1>0. InvFacts
    BY Facts
  <1> DEFINE staged == IF CanAlloc THEN Append(io.staged, TopFrame) ELSE io.staged
             bad == IF CanAlloc THEN io.bad ELSE io.bad + 1
  <1>1. /\ staged \in Seq(Frames)
        /\ Held(free) \cup Held(io.staged) = Held(free') \cup Held(staged)
    <2>1. CASE CanAlloc
      <3>1. free' = FreeAfterAlloc /\ staged = Append(io.staged, TopFrame)
        BY <2>1 DEF IoFill
      <3>2. TopFrame \in Frames
        BY <1>0, <2>1, AllocTakes DEF InvFacts
      <3>3. Held(free) = Held(free') \cup {TopFrame}
        BY <1>0, <2>1, <3>1, HeldAlloc DEF InvFacts
      <3> HIDE DEF staged
      <3>4. staged \in Seq(Frames) /\ Held(staged) = Held(io.staged) \cup {TopFrame}
        BY <1>0, <3>1, <3>2, HeldPut, PutOp DEF InvFacts
      <3>5. QED
        BY <3>3, <3>4
    <2>2. CASE ~CanAlloc
      BY <1>0, <2>2 DEF IoFill, InvFacts
    <2>3. QED
      BY <2>1, <2>2
  <1>2. UNCHANGED <<rx, rx_ring, tx_ring, tx, cq, worker>>
    BY DEF IoFill
  <1>3. \/ fq' = fq \o staged /\ io' = IoAt("send")
        \/ fq' = fq /\ io' = [io EXCEPT !.n = @ - 1, !.staged = staged, !.bad = bad]
    BY DEF IoFill
  <1> HIDE DEF staged, bad
  <1>4. CASE fq' = fq \o staged /\ io' = IoAt("send")
    <2>1. Held(fq') = Held(fq) \cup Held(staged)
      BY <1>0, <1>1, <1>4, HeldCat DEF InvFacts
    <2>2. Held(io'.staged) = {}
      BY <1>4, HeldNone DEF IoAt
    <2>3. QED
      BY <1>1, <1>2, <2>1, <2>2 DEF Accounted, Owned
  <1>5. CASE fq' = fq /\ io' = [io EXCEPT !.n = @ - 1, !.staged = staged, !.bad = bad]
    <2>1. io'.staged = staged
      BY <1>0, <1>5 DEF InvFacts
    <2>2. QED
      BY <1>1, <1>2, <1>5, <2>1 DEF Accounted, Owned
  <1>6. QED
    BY <1>3, <1>4, <1>5

LEMMA IoSendKeeps ==
    ASSUME QueueInv, IoSend
    PROVE  Accounted' = Accounted
  <1>0. InvFacts
    BY Facts
  <1>1. /\ tx_ring # <<>> /\ tx_ring' = Tail(tx_ring)
        /\ UNCHANGED <<fq, rx, rx_ring, cq, io, worker>>
        /\ \/ tx' = Append(tx, Head(tx_ring)) /\ free' = free
           \/ tx' = tx /\ free' = FreeAfterFree(Head(tx_ring))
    BY DEF IoSend
  <1>2. /\ Held(tx_ring) = Held(tx_ring') \cup {Head(tx_ring)}
        /\ Head(tx_ring) \in Frames /\ nTxRing > 0
    BY <1>0, <1>1, HeldTake, TakeOp DEF InvFacts, nTxRing
  <1>3. CASE tx' = Append(tx, Head(tx_ring)) /\ free' = free
    <2>1. Held(tx') = Held(tx) \cup {Head(tx_ring)}
      BY <1>0, <1>2, <1>3, HeldPut DEF InvFacts
    <2>2. QED
      BY <1>1, <1>2, <1>3, <2>1 DEF Accounted, Owned
  <1>4. CASE tx' = tx /\ free' = FreeAfterFree(Head(tx_ring))
    <2>1. Held(free') = Held(free) \cup {Head(tx_ring)}
      BY <1>2, <1>4, HeldFree
    <2>2. QED
      BY <1>1, <1>2, <1>4, <2>1 DEF Accounted, Owned
  <1>5. QED
    BY <1>1, <1>3, <1>4

LEMMA IoCompleteKeeps ==
    ASSUME QueueInv, IoComplete
    PROVE  Accounted' = Accounted
  <1>0. InvFacts
    BY Facts
  <1>1. io.pc = "complete" /\ nCq > 0 /\ io.staged = <<>>
    BY <1>0, NothingStaged DEF InvFacts, IoComplete, IoInv
  <1>2. /\ cq # <<>> /\ cq' = Tail(cq) /\ free' = FreeAfterFree(Head(cq))
        /\ UNCHANGED <<fq, rx, rx_ring, tx_ring, tx, worker>>
    BY <1>0, <1>1 DEF IoComplete, InvFacts, nCq
  <1>3. io'.staged = io.staged
    BY <1>0, <1>1 DEF IoComplete, IoAt, InvFacts
  <1>4. Held(cq) = Held(cq') \cup {Head(cq)} /\ Head(cq) \in Frames
    BY <1>0, <1>2, HeldTake, TakeOp DEF InvFacts
  <1>5. Held(free') = Held(free) \cup {Head(cq)}
    BY <1>1, <1>2, <1>4, HeldFree
  <1>6. QED
    BY <1>2, <1>3, <1>4, <1>5 DEF Accounted, Owned

LEMMA WorkerKeeps ==
    ASSUME QueueInv, WorkerStep
    PROVE  Accounted' = Accounted
  <1>0. InvFacts
    BY Facts
  <1>1. CASE WorkerPop
    <2>1. /\ rx_ring # <<>> /\ rx_ring' = Tail(rx_ring) /\ worker.pc = "pop"
          /\ UNCHANGED <<free, fq, rx, tx_ring, tx, cq, io>>
      BY <1>1 DEF WorkerPop
    <2>2. Owned = {} /\ Owned' = {Head(rx_ring)}
      BY <1>1 DEF WorkerPop, WorkerAt, Owned
    <2>3. Held(rx_ring) = Held(rx_ring') \cup {Head(rx_ring)}
      BY <1>0, <2>1, HeldTake DEF InvFacts
    <2>4. QED
      BY <2>1, <2>2, <2>3 DEF Accounted
  <1>2. CASE WorkerForward \/ WorkerSendStale
    <2>1. /\ worker.pc \in {"forward", "stale"} /\ worker.frame \in Frames
          /\ Len(tx_ring) < RingSize
          /\ UNCHANGED <<free, fq, rx, rx_ring, tx, cq, io>>
      BY <1>0, <1>2, RoomToPush
         DEF InvFacts, WorkerForward, WorkerSendStale, WorkerInv, NoRingOverflows
    <2>2. tx_ring' = Append(tx_ring, worker.frame)
      BY <1>2, <2>1 DEF WorkerForward, WorkerSendStale, TxRingAfterPush
    <2>3. worker'.pc \in {"pop", "borrow"}
      BY <1>0, <1>2 DEF WorkerForward, WorkerSendStale, WorkerAt, InvFacts
    <2>4. Owned = {worker.frame} /\ Owned' = {}
      BY <2>1, <2>3 DEF Owned
    <2>5. Held(tx_ring') = Held(tx_ring) \cup {worker.frame}
      BY <1>0, <2>1, <2>2, HeldPut DEF InvFacts
    <2>6. QED
      BY <2>1, <2>4, <2>5 DEF Accounted
  <1>3. CASE WorkerBorrow
    <2>1. /\ worker.pc = "borrow" /\ Owned = {}
          /\ UNCHANGED <<fq, rx, rx_ring, tx_ring, tx, cq, io>>
      BY <1>3 DEF WorkerBorrow, Owned
    <2>2. CASE CanAlloc
      <3>1. /\ free' = FreeAfterAlloc
            /\ worker' = [worker EXCEPT !.pc = "query", !.query = TopFrame]
        BY <1>3, <2>2 DEF WorkerBorrow
      <3>2. worker'.pc = "query" /\ worker'.query = TopFrame
        BY <1>0, <3>1 DEF InvFacts
      <3>3. Owned' = {TopFrame}
        BY <3>2 DEF Owned
      <3>4. Held(free) = Held(free') \cup {TopFrame}
        BY <1>0, <2>2, <3>1, HeldAlloc DEF InvFacts
      <3>5. QED
        BY <2>1, <3>3, <3>4 DEF Accounted
    <2>3. CASE ~CanAlloc
      <3>1. free' = free /\ worker'.pc = "pop"
        BY <1>3, <2>3 DEF WorkerBorrow, WorkerAt
      <3>2. Owned' = {}
        BY <3>1 DEF Owned
      <3>3. QED
        BY <2>1, <3>1, <3>2 DEF Accounted
    <2>4. QED
      BY <2>2, <2>3
  <1>4. CASE WorkerQuery
    <2>1. /\ worker.pc = "query" /\ worker.query \in Frames
          /\ Len(tx_ring) < RingSize
          /\ UNCHANGED <<free, fq, rx, rx_ring, tx, cq, io>>
      BY <1>0, <1>4, RoomToPush DEF InvFacts, WorkerQuery, WorkerInv, NoRingOverflows
    <2>2. tx_ring' = Append(tx_ring, worker.query) /\ worker'.pc = "pop"
      BY <1>4, <2>1 DEF WorkerQuery, WorkerAt, TxRingAfterPush
    <2>3. Owned = {worker.query} /\ Owned' = {}
      BY <2>1, <2>2 DEF Owned
    <2>4. Held(tx_ring') = Held(tx_ring) \cup {worker.query}
      BY <1>0, <2>1, <2>2, HeldPut DEF InvFacts
    <2>5. QED
      BY <2>1, <2>3, <2>4 DEF Accounted
  <1>5. CASE WorkerDrop
    <2>1. /\ worker.pc = "drop" /\ worker.frame \in Frames /\ nOwned > 0
          /\ free' = FreeAfterFree(worker.frame) /\ worker'.pc = "pop"
          /\ UNCHANGED <<fq, rx, rx_ring, tx_ring, tx, cq, io>>
      BY <1>0, <1>5 DEF InvFacts, WorkerDrop, WorkerInv, WorkerAt, nOwned
    <2>2. Owned = {worker.frame} /\ Owned' = {}
      BY <2>1 DEF Owned
    <2>3. Held(free') = Held(free) \cup {worker.frame}
      BY <2>1, HeldFree
    <2>4. QED
      BY <2>1, <2>2, <2>3 DEF Accounted
  <1>6. QED
    BY <1>1, <1>2, <1>3, <1>4, <1>5 DEF WorkerStep

\* The worker owns the frame it must still hand on, if there is one.
LEMMA OwnsOne ==
    ASSUME QueueInv
    PROVE  /\ WorkerOwns \in Seq(Frames) /\ Len(WorkerOwns) = nOwned
           /\ Held(WorkerOwns) = Owned
  <1>0. InvFacts
    BY Facts
  <1>1. CASE worker.pc \in {"forward", "stale", "drop"}
    <2>1. WorkerOwns = <<worker.frame>> /\ worker.frame \in Frames
      BY <1>0, <1>1 DEF WorkerOwns, WorkerInv, InvFacts
    <2>2. /\ WorkerOwns \in Seq(Frames) /\ Len(WorkerOwns) = 1
          /\ Held(WorkerOwns) = {worker.frame}
      BY <2>1 DEF Held
    <2>3. QED
      BY <1>1, <2>2 DEF nOwned, Owned
  <1>2. CASE worker.pc = "query"
    <2>1. WorkerOwns = <<worker.query>> /\ worker.query \in Frames
      BY <1>0, <1>2 DEF WorkerOwns, WorkerInv, InvFacts
    <2>2. /\ WorkerOwns \in Seq(Frames) /\ Len(WorkerOwns) = 1
          /\ Held(WorkerOwns) = {worker.query}
      BY <2>1 DEF Held
    <2>3. QED
      BY <1>2, <2>2 DEF nOwned, Owned
  <1>3. CASE worker.pc \notin {"forward", "stale", "drop", "query"}
    <2>1. WorkerOwns = <<>>
      BY <1>3 DEF WorkerOwns
    <2>2. QED
      BY <1>3, <2>1, HeldNone DEF nOwned, Owned
  <1>4. QED
    BY <1>1, <1>2, <1>3

\* The frames counted in Placed are those accounted for.
LEMMA PlacedFrames ==
    ASSUME QueueInv
    PROVE  Len(Placed) = NumFrames /\ Held(Placed) = Accounted
  <1>0. InvFacts
    BY Facts
  <1>1. /\ WorkerOwns \in Seq(Frames) /\ Len(WorkerOwns) = nOwned
        /\ Held(WorkerOwns) = Owned
    BY OwnsOne
  <1> DEFINE a == free \o fq
             b == a \o rx
             c == b \o rx_ring
             d == c \o tx_ring
             e == d \o tx
             f == e \o cq
             g == f \o io.staged
             h == g \o WorkerOwns
  <1>2. a \in Seq(Frames) /\ Len(a) = nFree + nFq /\ Held(a) = Held(free) \cup Held(fq)
    BY <1>0, HeldCat DEF InvFacts, nFree, nFq
  <1> HIDE DEF a
  <1>3. b \in Seq(Frames) /\ Len(b) = Len(a) + nRx /\ Held(b) = Held(a) \cup Held(rx)
    BY <1>0, <1>2, HeldCat DEF InvFacts, nRx
  <1> HIDE DEF b
  <1>4. /\ c \in Seq(Frames) /\ Len(c) = Len(b) + nRxRing
        /\ Held(c) = Held(b) \cup Held(rx_ring)
    BY <1>0, <1>3, HeldCat DEF InvFacts, nRxRing
  <1> HIDE DEF c
  <1>5. /\ d \in Seq(Frames) /\ Len(d) = Len(c) + nTxRing
        /\ Held(d) = Held(c) \cup Held(tx_ring)
    BY <1>0, <1>4, HeldCat DEF InvFacts, nTxRing
  <1> HIDE DEF d
  <1>6. e \in Seq(Frames) /\ Len(e) = Len(d) + nTx /\ Held(e) = Held(d) \cup Held(tx)
    BY <1>0, <1>5, HeldCat DEF InvFacts, nTx
  <1> HIDE DEF e
  <1>7. f \in Seq(Frames) /\ Len(f) = Len(e) + nCq /\ Held(f) = Held(e) \cup Held(cq)
    BY <1>0, <1>6, HeldCat DEF InvFacts, nCq
  <1> HIDE DEF f
  <1>8. /\ g \in Seq(Frames) /\ Len(g) = Len(f) + nStaged
        /\ Held(g) = Held(f) \cup Held(io.staged)
    BY <1>0, <1>7, HeldCat DEF InvFacts, nStaged
  <1> HIDE DEF g
  <1>9. /\ Len(h) = Len(g) + nOwned /\ Held(h) = Held(g) \cup Owned
    BY <1>1, <1>8, HeldCat
  <1> HIDE DEF h
  <1>10. Placed = h
    BY DEF Placed, a, b, c, d, e, f, g, h
  <1>11. Len(h) = nFree + nFq + nRx + nRxRing + nTxRing + nTx + nCq + nStaged + nOwned
    BY <1>2, <1>3, <1>4, <1>5, <1>6, <1>7, <1>8, <1>9, Numbers DEF NumFacts
  <1>12. Len(h) = NumFrames
    BY <1>0, <1>11 DEF InvFacts, FrameCount
  <1>13. Held(h) = Accounted
    BY <1>2, <1>3, <1>4, <1>5, <1>6, <1>7, <1>8, <1>9 DEF Accounted
  <1>14. QED
    BY <1>10, <1>12, <1>13

\* Every step of the three actors keeps the frames in the places they can be in.
THEOREM PlacesInvariant == Spec => []PlacesInv
  <1>1. Init => PlacesInv
    BY InitInv, InitCovered DEF PlacesInv
  <1>2. PlacesInv /\ [Next]_vars => PlacesInv'
    <2> SUFFICES ASSUME PlacesInv, [Next]_vars PROVE PlacesInv'
      OBVIOUS
    <2>0. QueueInv /\ QueueInv' /\ Covered
      BY NextInv DEF PlacesInv
    <2>1. Accounted' = Accounted
      <3>1. CASE KernelReceive \/ KernelDiscard \/ KernelTransmit
        BY <2>0, <3>1, KernelKeeps
      <3>2. CASE IoStep
        BY <2>0, <3>2, IoTestsKeep, IoReceiveKeeps, IoFillKeeps, IoSendKeeps,
           IoCompleteKeeps DEF IoStep
      <3>3. CASE WorkerStep
        BY <2>0, <3>3, WorkerKeeps
      <3>4. CASE UNCHANGED vars
        BY <3>4 DEF vars, rings, Accounted, Owned
      <3>5. QED
        BY <3>1, <3>2, <3>3, <3>4 DEF Next, IoStep, WorkerStep
    <2>2. QED
      BY <2>0, <2>1 DEF PlacesInv, Covered
  <1>3. QED
    BY <1>1, <1>2, PTL DEF Spec

LEMMA OnlyFrames ==
    ASSUME QueueInv
    PROVE  Accounted \subseteq Frames
  <1>1. InvFacts
    BY Facts
  <1>2. \A s \in Seq(Frames) : Held(s) \subseteq Frames
    BY DEF Held
  <1>3. Owned \subseteq Frames
    BY <1>1 DEF InvFacts, WorkerInv, Owned
  <1>4. QED
    BY <1>1, <1>2, <1>3 DEF Accounted, InvFacts

\* Every frame of the UMEM is in exactly one place: no handler of the IO thread,
\* the worker or the kernel loses one or hands one out twice.
THEOREM FramesAreConserved == Spec => []FramesConserved
  <1>1. PlacesInv => FramesConserved
    <2> SUFFICES ASSUME PlacesInv PROVE FramesConserved
      OBVIOUS
    <2>1. Len(Placed) = NumFrames /\ Held(Placed) = Accounted /\ Frames \subseteq Accounted
      BY PlacedFrames DEF PlacesInv, Covered
    <2>2. Accounted \subseteq Frames
      BY OnlyFrames DEF PlacesInv
    <2>3. QED
      BY <2>1, <2>2 DEF FramesConserved, Held
  <1>2. QED
    BY <1>1, PlacesInvariant, PTL

-----------------------------------------------------------------------------
(* The free list is used as a stack *)

Distinct(s) == \A i, j \in 1 .. Len(s) : s[i] = s[j] => i = j

\* Parts of a sequence without repetition repeat nothing and share nothing.
LEMMA PartsApart ==
    ASSUME NEW s \in Seq(Frames), NEW t \in Seq(Frames), Distinct(s \o t)
    PROVE  Distinct(s) /\ Held(s) \cap Held(t) = {}
  <1> DEFINE u == s \o t
  <1>1. /\ Len(s) \in Nat /\ Len(t) \in Nat /\ Len(u) = Len(s) + Len(t)
        /\ \A i \in 1 .. Len(s) : i \in 1 .. Len(u) /\ u[i] = s[i]
        /\ \A j \in 1 .. Len(t) : Len(s) + j \in 1 .. Len(u) /\ u[Len(s) + j] = t[j]
    OBVIOUS
  <1> HIDE DEF u
  <1>2. Distinct(s)
    BY <1>1 DEF Distinct, u
  <1>3. ASSUME NEW i \in 1 .. Len(s), NEW j \in 1 .. Len(t) PROVE s[i] # t[j]
    <2>1. i # Len(s) + j
      BY <1>1
    <2>2. u[i] # u[Len(s) + j]
      BY <1>1, <2>1 DEF Distinct, u
    <2>3. QED
      BY <1>1, <2>2
  <1>4. QED
    BY <1>2, <1>3 DEF Held

\* A sequence as long as there are frames that holds every frame repeats none.
LEMMA FullIsDistinct ==
    ASSUME NEW s \in Seq(Frames), Len(s) = NumFrames, Held(s) = Frames
    PROVE  Distinct(s)
  <1> DEFINE S == 1 .. Len(s)
  <1>0. NumFrames \in Nat
    BY Sizes
  <1>1. IsFiniteSet(S) /\ Cardinality(S) = NumFrames
    BY <1>0, FS_Interval
  <1>2. Cardinality(Frames) = NumFrames
    BY <1>0, FS_Interval DEF Frames
  <1>3. s \in [S -> Frames]
    OBVIOUS
  <1>4. \A f \in Frames : \E i \in S : s[i] = f
    BY DEF Held
  <1> HIDE DEF S
  <1>5. s \in Surjection(S, Frames)
    BY <1>3, <1>4 DEF Surjection
  <1>6. s \in Injection(S, Frames)
    BY <1>1, <1>2, <1>5, FS_Surjection
  <1>7. QED
    BY <1>6 DEF Distinct, S, Injection, IsInjective

\* A listed frame is nowhere else, and listed once.
LEMMA ListedApart ==
    ASSUME PlacesInv
    PROVE  /\ Distinct(free)
           /\ Held(free) \cap (Held(tx_ring) \cup Held(cq) \cup Owned) = {}
  <1>0. InvFacts /\ QueueInv
    BY Facts DEF PlacesInv
  <1> DEFINE a == free \o fq
             b == a \o rx
             c == b \o rx_ring
             d == c \o tx_ring
             e == d \o tx
             f == e \o cq
             g == f \o io.staged
             w == WorkerOwns
             h == g \o w
  <1>1. w \in Seq(Frames) /\ Held(w) = Owned
    BY <1>0, OwnsOne
  <1>2. /\ a \in Seq(Frames) /\ b \in Seq(Frames) /\ c \in Seq(Frames)
        /\ d \in Seq(Frames) /\ e \in Seq(Frames) /\ f \in Seq(Frames)
        /\ g \in Seq(Frames) /\ h \in Seq(Frames)
    BY <1>0, <1>1 DEF InvFacts
  <1>3. /\ Held(free) \subseteq Held(a) /\ Held(a) \subseteq Held(b)
        /\ Held(b) \subseteq Held(c) /\ Held(c) \subseteq Held(d)
        /\ Held(d) \subseteq Held(e) /\ Held(e) \subseteq Held(f)
        /\ Held(f) \subseteq Held(g)
    <2> HIDE DEF a, b, c, d, e, f, g, w
    <2>1. Held(free) \subseteq Held(a)
      BY <1>0, HeldCat DEF a, InvFacts
    <2>2. Held(a) \subseteq Held(b)
      BY <1>0, <1>2, HeldCat DEF b, InvFacts
    <2>3. Held(b) \subseteq Held(c)
      BY <1>0, <1>2, HeldCat DEF c, InvFacts
    <2>4. Held(c) \subseteq Held(d)
      BY <1>0, <1>2, HeldCat DEF d, InvFacts
    <2>5. Held(d) \subseteq Held(e)
      BY <1>0, <1>2, HeldCat DEF e, InvFacts
    <2>6. Held(e) \subseteq Held(f)
      BY <1>0, <1>2, HeldCat DEF f, InvFacts
    <2>7. Held(f) \subseteq Held(g)
      BY <1>0, <1>2, HeldCat DEF g, InvFacts
    <2>8. QED
      BY <2>1, <2>2, <2>3, <2>4, <2>5, <2>6, <2>7
  <1>4. Distinct(h)
    <2>1. Placed = h
      BY DEF Placed
    <2> HIDE DEF h
    <2>2. Len(h) = NumFrames /\ Held(h) = Frames
      BY <1>0, <2>1, PlacedFrames, OnlyFrames DEF PlacesInv, Covered
    <2>3. QED
      BY <1>2, <2>2, FullIsDistinct
  <1> HIDE DEF a, b, c, d, e, f, g, h, w
  <1>5. Distinct(g) /\ Held(g) \cap Owned = {}
    BY <1>1, <1>2, <1>4, PartsApart DEF h
  <1>6. Distinct(f)
    BY <1>0, <1>2, <1>5, PartsApart DEF g, InvFacts
  <1>7. Distinct(e) /\ Held(e) \cap Held(cq) = {}
    BY <1>0, <1>2, <1>6, PartsApart DEF f, InvFacts
  <1>8. Distinct(d)
    BY <1>0, <1>2, <1>7, PartsApart DEF e, InvFacts
  <1>9. Distinct(c) /\ Held(c) \cap Held(tx_ring) = {}
    BY <1>0, <1>2, <1>8, PartsApart DEF d, InvFacts
  <1>10. Distinct(b)
    BY <1>0, <1>2, <1>9, PartsApart DEF c, InvFacts
  <1>11. Distinct(a)
    BY <1>0, <1>2, <1>10, PartsApart DEF b, InvFacts
  <1>12. Distinct(free)
    BY <1>0, <1>11, PartsApart DEF a, InvFacts
  <1>13. QED
    BY <1>3, <1>5, <1>7, <1>9, <1>12

\* An allocation takes the top of the stack.
LEMMA TakesTop ==
    ASSUME PlacesInv, CanAlloc, free' = FreeAfterAlloc
    PROVE  Pool!Take
  <1>0. TypeOK /\ free \in Seq(Frames) /\ Distinct(free)
    BY ListedApart, Typed DEF PlacesInv, QueueInv
  <1>1. Held(free) = Held(free') \cup {TopFrame} /\ TopFrame \in Frames
    BY <1>0, HeldAlloc, AllocTakes
  <1>2. TopFrame \notin Held(free')
    <2> DEFINE l == Len(free) - 1
               t == SubSeq(free, 1, l)
    <2>1. l \in Nat /\ Len(free) = l + 1
      BY <1>0 DEF CanAlloc
    <2>2. Len(t) = l /\ \A i \in 1 .. l : t[i] = free[i]
      <3>1. Len(t) = l
        BY <1>0, TakeOp DEF CanAlloc
      <3>2. t = [i \in 1 .. l |-> free[i]]
        BY <1>0, <2>1
      <3>3. QED
        BY <3>1, <3>2
    <2>3. free' = t /\ TopFrame = free[l + 1]
      BY <2>1 DEF FreeAfterAlloc, TopFrame
    <2> HIDE DEF l, t
    <2>4. \A i \in 1 .. l : i \in 1 .. l + 1 /\ i # l + 1 /\ l + 1 \in 1 .. l + 1
      BY <2>1
    <2>5. \A i \in 1 .. l : free[i] # free[l + 1]
      BY <1>0, <2>1, <2>4 DEF Distinct
    <2>6. QED
      BY <2>2, <2>3, <2>5 DEF Held
  <1>3. Listed = Held(free) /\ Listed' = Held(free')
    BY DEF Listed, Held
  <1>4. (Frames \ Listed)' = (Frames \ Listed) \cup {TopFrame}
    BY <1>1, <1>2, <1>3
  <1>5. QED
    BY <1>4 DEF Pool!Take, CanAlloc, TopFrame, FreeAfterAlloc

\* A call of xsk_free_frame with a frame that is not listed puts it on top.
LEMMA GivesBack ==
    ASSUME PlacesInv, NEW f \in Frames, f \notin Held(free), free' = FreeAfterFree(f),
           nRx > 0 \/ nTxRing > 0 \/ nCq > 0 \/ nOwned > 0
    PROVE  Pool!Next
  <1>0. QueueInv
    BY DEF PlacesInv
  <1>1. nFree < NumFrames
    BY <1>0, Counts, Sizes DEF QueueInv, FrameCount
  <1>2. free' = Append(free, f) /\ Len(free) < NumFrames
    BY <1>0, <1>1, Counts, Sizes DEF FreeAfterFree, nFree, QueueInv
  <1>3. Held(free') = Held(free) \cup {f}
    BY <1>0, HeldFree
  <1>4. Listed = Held(free) /\ Listed' = Held(free')
    BY DEF Listed, Held
  <1>5. (Frames \ Listed)' = (Frames \ Listed) \ {f} /\ f \in Frames \ Listed
    BY <1>3, <1>4
  <1>6. Pool!Give(f)
    BY <1>2, <1>5 DEF Pool!Give
  <1>7. QED
    BY <1>5, <1>6 DEF Pool!Next

\* Each call the threads make of xsk_alloc_frame and xsk_free_frame is one the stack
\* of frames allows: no frame is freed that is in the list already, whatever the
\* verdicts and the full rings, and none is dropped for want of room.
THEOREM ListUsedAsStack == Spec => ImplementsStack
  <1>1. Init => Pool!Init
    <2> SUFFICES ASSUME Init PROVE Pool!Init
      OBVIOUS
    <2> DEFINE m == NumFrames - FillSize
    <2>1. NumFrames \in Nat /\ m \in Nat /\ m <= NumFrames
      BY Sizes
    <2>2. free = [i \in 1 .. m |-> i - 1]
      BY DEF Init
    <2> HIDE DEF m
    <2>3. Listed = 0 .. m - 1
      <3>1. Len(free) = m /\ \A i \in 1 .. m : free[i] = i - 1
        BY <2>1, <2>2
      <3>2. \A f \in 0 .. m - 1 : f + 1 \in 1 .. m /\ (f + 1) - 1 = f
        BY <2>1
      <3>3. \A i \in 1 .. m : i - 1 \in 0 .. m - 1
        BY <2>1
      <3>4. QED
        BY <3>1, <3>2, <3>3 DEF Listed
    <2>4. Frames \ Listed = m .. NumFrames - 1
      BY <2>1, <2>3 DEF Frames
    <2>5. QED
      BY <2>2, <2>4 DEF Pool!Init, m
  <1>2. PlacesInv /\ [Next]_vars => [Pool!Next]_(Pool!vars)
    <2> SUFFICES ASSUME PlacesInv, [Next]_vars PROVE [Pool!Next]_(Pool!vars)
      OBVIOUS
    <2>0. InvFacts /\ QueueInv
      BY Facts DEF PlacesInv
    <2>1. ASSUME free' = free PROVE UNCHANGED Pool!vars
      BY <2>1 DEF Pool!vars, Listed
    <2>2. CASE \/ KernelReceive \/ KernelDiscard \/ KernelTransmit
               \/ IoPeek \/ IoRefill \/ IoSent
               \/ WorkerPop \/ WorkerForward \/ WorkerSendStale \/ WorkerQuery
               \/ UNCHANGED vars
      BY <2>1, <2>2
         DEF KernelReceive, KernelDiscard, KernelTransmit, IoPeek, IoRefill, IoSent,
             WorkerPop, WorkerForward, WorkerSendStale, WorkerQuery, rings, vars
    <2>3. CASE IoReceive
      <3>1. Len(rx_ring) < RingSize
        BY <2>0, <2>3, RoomToPush DEF InvFacts, NoRingOverflows, IoReceive
      <3>2. QED
        BY <2>1, <2>3, <3>1 DEF IoReceive
    <2>4. CASE IoFill
      <3>1. (CanAlloc /\ free' = FreeAfterAlloc) \/ free' = free
        BY <2>4 DEF IoFill
      <3>2. QED
        BY <2>1, <3>1, TakesTop DEF Pool!Next
    <2>5. CASE IoSend
      <3>1. free' = free \/ free' = FreeAfterFree(Head(tx_ring))
        BY <2>5 DEF IoSend
      <3>2. tx_ring # <<>>
        BY <2>5 DEF IoSend
      <3>3. Head(tx_ring) \in Frames \cap Held(tx_ring) /\ nTxRing > 0
        BY <2>0, <3>2, HeldTake, TakeOp DEF InvFacts, nTxRing
      <3>4. Head(tx_ring) \notin Held(free)
        BY <3>3, ListedApart
      <3>5. QED
        BY <2>1, <3>1, <3>3, <3>4, GivesBack
    <2>6. CASE IoComplete
      <3>1. free' = FreeAfterFree(Head(cq)) /\ nCq > 0
        BY <2>0, <2>6 DEF InvFacts, IoComplete, IoInv
      <3>2. cq # <<>>
        BY <2>0, <3>1 DEF InvFacts, nCq
      <3>3. Head(cq) \in Frames \cap Held(cq)
        BY <2>0, <3>2, HeldTake, TakeOp DEF InvFacts
      <3>4. Head(cq) \notin Held(free)
        BY <3>3, ListedApart
      <3>5. QED
        BY <3>1, <3>3, <3>4, GivesBack
    <2>7. CASE WorkerBorrow
      <3>1. (CanAlloc /\ free' = FreeAfterAlloc) \/ free' = free
        BY <2>7 DEF WorkerBorrow
      <3>2. QED
        BY <2>1, <3>1, TakesTop DEF Pool!Next
    <2>8. CASE WorkerDrop
      <3>1. /\ worker.pc = "drop" /\ worker.frame \in Frames /\ nOwned > 0
            /\ free' = FreeAfterFree(worker.frame)
        BY <2>0, <2>8 DEF InvFacts, WorkerDrop, WorkerInv, nOwned
      <3>2. worker.frame \in Owned
        BY <3>1 DEF Owned
      <3>3. worker.frame \notin Held(free)
        BY <3>2, ListedApart
      <3>4. QED
        BY <3>1, <3>3, GivesBack
    <2>9. QED
      BY <2>2, <2>3, <2>4, <2>5, <2>6, <2>7, <2>8 DEF Next
  <1>3. QED
    BY <1>1, <1>2, PlacesInvariant, PTL DEF Spec, ImplementsStack, Pool!Spec
==============================================================================
