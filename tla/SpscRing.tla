------------------------------ MODULE SpscRing ------------------------------
(***************************************************************************)
(* src/af_xdp/spsc_ring.h: the single-producer single-consumer ring that   *)
(* carries packet descriptors between the IO thread and the worker thread  *)
(* of one queue.  A call is split where the other thread can interleave:   *)
(* the acquire load of the other side's index, the access to the slot, and *)
(* the release store of the own index.  The acquire/release pairs of the   *)
(* source order the slot access before the index store for the other side, *)
(* which is the order of the steps below.                                  *)
(***************************************************************************)
EXTENDS Integers, Sequences

CONSTANTS
    Size,       \* SPSC_RING_SIZE
    Wrap,       \* 2^32: the indices are uint32_t and are never masked when stored
    Values,     \* packet_desc_t, as the callers fill it
    NoValue     \* the all-zero descriptor: static storage, and no descriptor at all

\* "Phai la luy thua cua 2": a power of two divides 2^32, which is all the
\* masking w & (SPSC_RING_SIZE - 1) needs of it.
ASSUME SizeAssumption ==
    /\ Size \in Nat \ {0}
    /\ Wrap \in Nat
    /\ Wrap > Size
    /\ Wrap % Size = 0

ASSUME ValueAssumption == NoValue \notin Values

VARIABLES
    buffer,     \* slot |-> descriptor
    write_idx, read_idx,
    prod,       \* the producer's call: where it is, its argument, its last result
    cons        \* the consumer's call: where it is, the copied descriptor, its last result

vars == <<buffer, write_idx, read_idx, prod, cons>>

Slots == 0 .. Size - 1

\* w & (SPSC_RING_SIZE - 1)
Slot(idx) == idx % Size

\* (uint32_t)(w - r)
Used(w, r) == (w - r) % Wrap

Init ==
    /\ buffer = [s \in Slots |-> NoValue]
    /\ write_idx = 0
    /\ read_idx = 0
    /\ prod = [pc |-> "idle", desc |-> NoValue, ok |-> TRUE]
    /\ cons = [pc |-> "idle", desc |-> NoValue, got |-> NoValue]

-----------------------------------------------------------------------------
\* spsc_ring_push(ring, v)

PushCall(v) ==
    /\ prod.pc = "idle"
    /\ prod' = [prod EXCEPT !.pc = "check", !.desc = v]
    /\ UNCHANGED <<buffer, write_idx, read_idx, cons>>

\* Mutants of the full test: an off-by-one, and the cast to uint32_t forgotten.
IsFull_OffByOne(w, r) == Used(w, r) > Size
IsFull_NoCast(w, r) == w - r >= Size

IsFull(w, r) == Used(w, r) >= Size

PushFull ==
    /\ prod.pc = "check"
    /\ IsFull(write_idx, read_idx)
    /\ prod' = [pc |-> "idle", desc |-> NoValue, ok |-> FALSE]
    /\ UNCHANGED <<buffer, write_idx, read_idx, cons>>

PushRoom ==
    /\ prod.pc = "check"
    /\ ~IsFull(write_idx, read_idx)
    /\ prod' = [prod EXCEPT !.pc = "write"]
    /\ UNCHANGED <<buffer, write_idx, read_idx, cons>>

PushWrite ==
    /\ prod.pc = "write"
    /\ buffer' = [buffer EXCEPT ![Slot(write_idx)] = prod.desc]
    /\ prod' = [prod EXCEPT !.pc = "publish"]
    /\ UNCHANGED <<write_idx, read_idx, cons>>

\* Mutant: the index is not kept to its width.
PushPublish_Unwrapped ==
    /\ prod.pc = "publish"
    /\ write_idx' = write_idx + 1
    /\ prod' = [pc |-> "idle", desc |-> NoValue, ok |-> TRUE]
    /\ UNCHANGED <<buffer, read_idx, cons>>

PushPublish ==
    /\ prod.pc = "publish"
    /\ write_idx' = (write_idx + 1) % Wrap
    /\ prod' = [pc |-> "idle", desc |-> NoValue, ok |-> TRUE]
    /\ UNCHANGED <<buffer, read_idx, cons>>

-----------------------------------------------------------------------------
\* spsc_ring_pop(ring, desc)

PopCall ==
    /\ cons.pc = "idle"
    /\ cons' = [cons EXCEPT !.pc = "check"]
    /\ UNCHANGED <<buffer, write_idx, read_idx, prod>>

PopEmpty ==
    /\ cons.pc = "check"
    /\ read_idx = write_idx
    /\ cons' = [pc |-> "idle", desc |-> NoValue, got |-> NoValue]
    /\ UNCHANGED <<buffer, write_idx, read_idx, prod>>

PopSome ==
    /\ cons.pc = "check"
    /\ read_idx # write_idx
    /\ cons' = [cons EXCEPT !.pc = "copy"]
    /\ UNCHANGED <<buffer, write_idx, read_idx, prod>>

PopCopy ==
    /\ cons.pc = "copy"
    /\ cons' = [cons EXCEPT !.pc = "release", !.desc = buffer[Slot(read_idx)]]
    /\ UNCHANGED <<buffer, write_idx, read_idx, prod>>

PopRelease ==
    /\ cons.pc = "release"
    /\ read_idx' = (read_idx + 1) % Wrap
    /\ cons' = [pc |-> "idle", desc |-> NoValue, got |-> cons.desc]
    /\ UNCHANGED <<buffer, write_idx, prod>>

-----------------------------------------------------------------------------
Next ==
    \/ \E v \in Values : PushCall(v)
    \/ PushFull \/ PushRoom \/ PushWrite \/ PushPublish
    \/ PopCall \/ PopEmpty \/ PopSome \/ PopCopy \/ PopRelease

Spec == Init /\ [][Next]_vars

-----------------------------------------------------------------------------
TypeOK ==
    /\ buffer \in [Slots -> Values \cup {NoValue}]
    /\ write_idx \in 0 .. Wrap - 1
    /\ read_idx \in 0 .. Wrap - 1
    /\ prod \in [pc : {"idle", "check", "write", "publish"},
                desc : Values \cup {NoValue}, ok : BOOLEAN]
    /\ cons \in [pc : {"idle", "check", "copy", "release"},
                desc : Values \cup {NoValue}, got : Values \cup {NoValue}]

\* The descriptors pushed and not yet popped, oldest first.
Contents ==
    [i \in 1 .. Used(write_idx, read_idx) |-> buffer[Slot(read_idx + i - 1)]]

\* The two threads never touch one slot at the same time: the plain (non
\* atomic) copies of packet_desc_t in push and pop do not race, also when the
\* indices have wrapped around.
NoDataRace ==
    ~ /\ prod.pc = "write"
      /\ cons.pc = "copy"
      /\ Slot(write_idx) = Slot(read_idx)

\* Every push and every pop behaves as one atomic operation on a bounded FIFO:
\* nothing is lost, duplicated, reordered or read before it is written, push
\* fails only on a full ring and pop only on an empty one.
Fifo == INSTANCE BoundedFifo WITH
    Capacity <- Size,
    queue <- Contents,
    offered <- prod.desc,
    accepted <- prod.ok,
    popping <- cons.pc # "idle",
    taken <- cons.got

ImplementsFifo == Fifo!Spec

\* The inductive invariant: never more than Size entries; a producer past its
\* full test owns a free slot and a consumer past its empty test a used one; a
\* descriptor about to be published, or just copied, is the one in its slot.
RingInv ==
    /\ TypeOK
    /\ Used(write_idx, read_idx) <= Size
    /\ prod.pc \in {"write", "publish"} => Used(write_idx, read_idx) < Size
    /\ cons.pc \in {"copy", "release"} => Used(write_idx, read_idx) > 0
    /\ prod.pc = "publish" => buffer[Slot(write_idx)] = prod.desc
    /\ cons.pc = "release" => buffer[Slot(read_idx)] = cons.desc
    /\ IF prod.pc = "idle" THEN prod.desc = NoValue ELSE prod.desc \in Values
=============================================================================
