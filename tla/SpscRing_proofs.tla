--------------------------- MODULE SpscRing_proofs ---------------------------
(***************************************************************************)
(* Proofs about SpscRing, for every ring size, every index width it        *)
(* divides, and every set of descriptors.  The inductive invariant says    *)
(* how many slots are in use, that a producer past its full test has a     *)
(* free slot and a consumer past its empty test a used one, and what the   *)
(* slot under each of their hands holds.                                   *)
(***************************************************************************)
EXTENDS SpscRing, TLAPS

-----------------------------------------------------------------------------
(* Remainders *)

\* A remainder by k lies between 0 and k - 1, and it is what a multiple of k
\* leaves: the two facts on which the masked indices rest.
LEMMA Division ==
    ASSUME NEW n \in Int, NEW k \in Nat \ {0}
    PROVE  /\ n \div k \in Int
           /\ n % k \in 0 .. k - 1
           /\ n = k * (n \div k) + (n % k)
  OBVIOUS

\* The remainder is unique.
LEMMA RemainderOf ==
    ASSUME NEW q \in Int, NEW k \in Nat \ {0}, NEW r \in 0 .. k - 1
    PROVE  (k * q + r) % k = r
  OBVIOUS

\* Two numbers less than k apart have different remainders: distinct live
\* entries of the ring have distinct slots.
LEMMA RemaindersDiffer ==
    ASSUME NEW a \in Int, NEW b \in Int, NEW k \in Nat \ {0}, a < b, b - a < k
    PROVE  a % k # b % k
  <1> DEFINE p == a \div k
             q == b \div k
             r == a % k
  <1>1. SUFFICES ASSUME a % k = b % k PROVE FALSE
    OBVIOUS
  <1>2. /\ p \in Int /\ q \in Int /\ r \in Int
        /\ a = k * p + r /\ b = k * q + r
    BY <1>1, Division
  <1>3. b - a = k * q - k * p
    BY <1>2
  <1>4. k * (q - p) = k * q - k * p
    BY <1>2
  <1> HIDE DEF p, q, r
  <1>5. CASE q - p >= 1
    <2>1. k * (q - p) >= k
      BY <1>2, <1>5
    <2>2. QED
      BY <2>1, <1>2, <1>3, <1>4
  <1>6. CASE q - p <= 0
    <2>1. k * (q - p) <= 0
      BY <1>2, <1>6
    <2>2. QED
      BY <2>1, <1>2, <1>3, <1>4
  <1>7. QED
    BY <1>2, <1>5, <1>6

\* Adding a multiple of k leaves the remainder alone.
LEMMA RemainderShift ==
    ASSUME NEW a \in Int, NEW j \in Int, NEW k \in Nat \ {0}
    PROVE  (a + k * j) % k = a % k
  <1> DEFINE q == a \div k
             r == a % k
  <1>1. q \in Int /\ r \in 0 .. k - 1 /\ a = k * q + r
    BY Division
  <1> HIDE DEF q, r
  <1>2. a + k * j = k * (q + j) + r
    BY <1>1
  <1>3. (k * (q + j) + r) % k = r
    BY <1>1, RemainderOf
  <1>4. QED
    BY <1>1, <1>2, <1>3 DEF r

\* SPSC_RING_SIZE divides the 2^32 values of an index: an index that wrapped
\* points at the same slot as the index that did not.
LEMMA SlotPlusWrap ==
    ASSUME NEW a \in Int
    PROVE  Slot(a + Wrap) = Slot(a)
  <1> DEFINE c == Wrap \div Size
  <1>1. Size \in Nat \ {0}
    BY SizeAssumption
  <1>2. c \in Int /\ Wrap = Size * c
    BY Division, SizeAssumption
  <1> HIDE DEF c
  <1>3. (a + Size * c) % Size = a % Size
    BY <1>1, <1>2, RemainderShift, Zenon
  <1>4. QED
    BY <1>2, <1>3 DEF Slot

Index == 0 .. Wrap - 1

\* (uint32_t)(w - r), written without a remainder.
LEMMA UsedIs ==
    ASSUME NEW w \in Index, NEW r \in Index
    PROVE  Used(w, r) = IF w >= r THEN w - r ELSE w - r + Wrap
  BY SizeAssumption DEF Used, Index

\* The slot of write_idx is the slot "Used" entries after read_idx.
LEMMA SlotAfter ==
    ASSUME NEW w \in Index, NEW r \in Index
    PROVE  Slot(w) = Slot(r + Used(w, r))
  <1>1. CASE w >= r
    BY <1>1, UsedIs DEF Index
  <1>2. CASE ~(w >= r)
    <2>1. r + Used(w, r) = w + Wrap
      BY <1>2, UsedIs, SizeAssumption DEF Index
    <2>2. Slot(w + Wrap) = Slot(w)
      BY SlotPlusWrap DEF Index
    <2>3. QED
      BY <2>1, <2>2
  <1>3. QED
    BY <1>1, <1>2

\* Two entries less than Size apart have different slots.
LEMMA SlotsDiffer ==
    ASSUME NEW a \in Nat, NEW b \in Nat, a < b, b - a < Size
    PROVE  Slot(a) # Slot(b)
  <1>1. Size \in Nat \ {0} /\ a \in Int /\ b \in Int
    BY SizeAssumption
  <1>2. a % Size # b % Size
    BY <1>1, RemaindersDiffer
  <1>3. QED
    BY <1>2 DEF Slot

\* A masked index is an index of the buffer.
LEMMA SlotInRange ==
    ASSUME NEW a \in Nat
    PROVE  Slot(a) \in Slots
  BY Division, SizeAssumption DEF Slot, Slots

\* Entries counted from an index that has just wrapped.
LEMMA SlotFromNext ==
    ASSUME NEW r \in Index, NEW m \in Nat
    PROVE  Slot(((r + 1) % Wrap) + m) = Slot(r + 1 + m)
  <1>1. (r + 1) % Wrap = IF r + 1 = Wrap THEN 0 ELSE r + 1
    BY SizeAssumption DEF Index
  <1>2. CASE r + 1 = Wrap
    <2>1. Slot(m + Wrap) = Slot(m)
      BY SlotPlusWrap
    <2>2. QED
      BY <1>1, <1>2, <2>1 DEF Index
  <1>3. CASE r + 1 # Wrap
    BY <1>1, <1>3 DEF Index
  <1>4. QED
    BY <1>2, <1>3

\* What the two index increments do to the number of entries.
LEMMA UsedAfter ==
    ASSUME NEW w \in Index, NEW r \in Index
    PROVE  /\ (w + 1) % Wrap \in Index
           /\ (r + 1) % Wrap \in Index
           /\ Used(w, r) \in Nat
           /\ Used(w, r) = 0 <=> r = w
           /\ Used(w, r) < Size => Used((w + 1) % Wrap, r) = Used(w, r) + 1
           /\ Used(w, r) > 0 => Used(w, (r + 1) % Wrap) = Used(w, r) - 1
  <1> DEFINE w1 == (w + 1) % Wrap
             r1 == (r + 1) % Wrap
  <1>1. /\ w1 = IF w + 1 = Wrap THEN 0 ELSE w + 1
        /\ r1 = IF r + 1 = Wrap THEN 0 ELSE r + 1
    BY SizeAssumption DEF Index
  <1> HIDE DEF w1, r1
  <1>2. w1 \in Index /\ r1 \in Index
    BY <1>1, SizeAssumption DEF Index
  <1>3. /\ Used(w, r) = IF w >= r THEN w - r ELSE w - r + Wrap
        /\ Used(w1, r) = IF w1 >= r THEN w1 - r ELSE w1 - r + Wrap
        /\ Used(w, r1) = IF w >= r1 THEN w - r1 ELSE w - r1 + Wrap
    BY <1>2, UsedIs
  <1>4. Wrap \in Nat /\ Size \in Nat /\ Wrap > Size
    BY SizeAssumption
  <1>5. /\ Used(w, r) < Size => Used(w1, r) = Used(w, r) + 1
        /\ Used(w, r) > 0 => Used(w, r1) = Used(w, r) - 1
        /\ Used(w, r) \in Nat
        /\ Used(w, r) = 0 <=> r = w
    BY <1>1, <1>3, <1>4 DEF Index
  <1>6. QED
    BY <1>2, <1>5 DEF w1, r1

-----------------------------------------------------------------------------
(* The inductive invariant *)

\* The ring starts empty with both threads idle.
LEMMA InitInv == Init => RingInv
  <1> SUFFICES ASSUME Init PROVE RingInv
    OBVIOUS
  <1>1. Used(0, 0) = 0
    BY UsedIs, SizeAssumption DEF Index
  <1>2. QED
    BY <1>1, SizeAssumption DEF Init, RingInv, TypeOK

\* Every step of a push or a pop keeps the invariant.
LEMMA NextInv == RingInv /\ [Next]_vars => RingInv'
  <1> SUFFICES ASSUME RingInv, [Next]_vars PROVE RingInv'
    OBVIOUS
  <1> DEFINE u == Used(write_idx, read_idx)
  <1>1. /\ write_idx \in Index /\ read_idx \in Index
        /\ Slot(write_idx) \in Slots /\ Slot(read_idx) \in Slots
        /\ u \in Nat /\ u <= Size
    BY SlotInRange, UsedAfter DEF RingInv, TypeOK, Index
  <1>2. CASE \E v \in Values : PushCall(v)
    BY <1>2 DEF PushCall, RingInv, TypeOK
  <1>3. CASE PushFull
    BY <1>3 DEF PushFull, RingInv, TypeOK
  <1>4. CASE PushRoom
    BY <1>4, <1>1, SizeAssumption DEF PushRoom, IsFull, RingInv, TypeOK
  <1>5. CASE PushWrite
    <2>1. cons.pc = "release" => Slot(write_idx) # Slot(read_idx)
      <3> SUFFICES ASSUME cons.pc = "release" PROVE Slot(write_idx) # Slot(read_idx)
        OBVIOUS
      <3>1. 0 < u /\ u < Size
        BY <1>5, <1>1 DEF PushWrite, RingInv
      <3>2. read_idx < read_idx + u /\ (read_idx + u) - read_idx < Size
        BY <3>1, <1>1, SizeAssumption DEF Index
      <3> HIDE DEF u
      <3>3. read_idx \in Nat /\ read_idx + u \in Nat
        BY <1>1 DEF Index
      <3>4. Slot(read_idx) # Slot(read_idx + u)
        BY <3>2, <3>3, SlotsDiffer
      <3>5. QED
        BY <3>4, <1>1, SlotAfter DEF u
    <2>2. buffer'[Slot(write_idx)] = prod.desc
      BY <1>5, <1>1 DEF PushWrite, RingInv, TypeOK
    <2>3. cons.pc = "release" => buffer'[Slot(read_idx)] = buffer[Slot(read_idx)]
      BY <1>5, <1>1, <2>1 DEF PushWrite, RingInv, TypeOK
    <2>4. TypeOK'
      BY <1>5, <1>1 DEF PushWrite, RingInv, TypeOK
    <2>5. QED
      BY <1>5, <2>2, <2>3, <2>4 DEF PushWrite, RingInv
  <1>6. CASE PushPublish
    <2>1. Used(write_idx', read_idx') = u + 1 /\ write_idx' \in Index /\ u < Size
      BY <1>6, <1>1, UsedAfter DEF PushPublish, RingInv
    <2>2. TypeOK'
      BY <1>6, <2>1 DEF PushPublish, RingInv, TypeOK, Index
    <2>3. QED
      BY <1>6, <1>1, <2>1, <2>2, SizeAssumption DEF PushPublish, RingInv
  <1>7. CASE PopCall
    BY <1>7 DEF PopCall, RingInv, TypeOK
  <1>8. CASE PopEmpty
    BY <1>8 DEF PopEmpty, RingInv, TypeOK
  <1>9. CASE PopSome
    <2>1. u > 0
      BY <1>9, <1>1, UsedAfter DEF PopSome
    <2>2. QED
      BY <1>9, <2>1 DEF PopSome, RingInv, TypeOK
  <1>10. CASE PopCopy
    BY <1>10, <1>1 DEF PopCopy, RingInv, TypeOK
  <1>11. CASE PopRelease
    <2>1. Used(write_idx', read_idx') = u - 1 /\ read_idx' \in Index /\ u > 0
      BY <1>11, <1>1, UsedAfter DEF PopRelease, RingInv
    <2>2. TypeOK'
      BY <1>11, <2>1 DEF PopRelease, RingInv, TypeOK, Index
    <2>3. QED
      BY <1>11, <1>1, <2>1, <2>2, SizeAssumption DEF PopRelease, RingInv
  <1>12. CASE UNCHANGED vars
    BY <1>12 DEF vars, RingInv, TypeOK
  <1>13. QED
    BY <1>2, <1>3, <1>4, <1>5, <1>6, <1>7, <1>8, <1>9, <1>10, <1>11, <1>12 DEF Next

\* The ring's invariant holds in every reachable state, for every size and width.
THEOREM RingInvariant == Spec => []RingInv
  BY InitInv, NextInv, PTL DEF Spec

\* The indices keep to their width and the slots hold descriptors, through every
\* wrap of push and pop.
THEOREM TypeCorrect == Spec => []TypeOK
  <1>1. RingInv => TypeOK
    BY DEF RingInv
  <1>2. QED
    BY <1>1, RingInvariant, PTL

\* A producer writing a slot and a consumer copying one never meet in one slot.
THEOREM NoRace == Spec => []NoDataRace
  <1>1. RingInv => NoDataRace
    <2> SUFFICES ASSUME RingInv, prod.pc = "write", cons.pc = "copy"
                 PROVE  Slot(write_idx) # Slot(read_idx)
      BY DEF NoDataRace
    <2> DEFINE u == Used(write_idx, read_idx)
    <2>1. /\ write_idx \in Index /\ read_idx \in Index
          /\ u \in Nat /\ 0 < u /\ u < Size
      BY UsedAfter DEF RingInv, TypeOK, Index
    <2>2. Slot(write_idx) = Slot(read_idx + u)
      BY <2>1, SlotAfter
    <2> HIDE DEF u
    <2>3. /\ read_idx \in Nat /\ read_idx + u \in Nat
          /\ read_idx < read_idx + u /\ (read_idx + u) - read_idx < Size
      BY <2>1, SizeAssumption DEF Index
    <2>4. QED
      BY <2>2, <2>3, SlotsDiffer
  <1>2. QED
    BY <1>1, RingInvariant, PTL

-----------------------------------------------------------------------------
(* Refinement *)

\* The contents of the ring after a push: the descriptor is appended.
LEMMA ContentsPush ==
    ASSUME RingInv, PushPublish
    PROVE  Contents' = Append(Contents, prod.desc)
  <1> DEFINE u == Used(write_idx, read_idx)
  <1>1. /\ write_idx \in Index /\ read_idx \in Index
        /\ u \in Nat /\ Used(write_idx', read_idx') = u + 1
    BY UsedAfter DEF PushPublish, RingInv, TypeOK, Index
  <1>2. Slot(read_idx + (u + 1) - 1) = Slot(write_idx)
    BY <1>1, SlotAfter DEF Index
  <1>3. buffer[Slot(read_idx + (u + 1) - 1)] = prod.desc
    BY <1>2 DEF PushPublish, RingInv
  <1>4. Contents' = [i \in 1 .. u + 1 |-> buffer[Slot(read_idx + i - 1)]]
    BY <1>1 DEF Contents, PushPublish
  <1> HIDE DEF u
  <1>5. Append([i \in 1 .. u |-> buffer[Slot(read_idx + i - 1)]], prod.desc)
          = [i \in 1 .. u + 1 |-> buffer[Slot(read_idx + i - 1)]]
    BY <1>1, <1>3
  <1>6. QED
    BY <1>4, <1>5 DEF Contents, u

\* Writing the free slot does not disturb an entry of the ring.
LEMMA ContentsWrite ==
    ASSUME RingInv, PushWrite
    PROVE  Contents' = Contents
  <1> DEFINE u == Used(write_idx, read_idx)
  <1>1. /\ write_idx \in Index /\ read_idx \in Index
        /\ u \in Nat /\ u < Size /\ Used(write_idx', read_idx') = u
    BY UsedAfter DEF PushWrite, RingInv, TypeOK, Index
  <1>2. Slot(write_idx) = Slot(read_idx + u)
    BY <1>1, SlotAfter
  <1> HIDE DEF u
  <1>3. ASSUME NEW i \in 1 .. u
        PROVE  buffer'[Slot(read_idx + i - 1)] = buffer[Slot(read_idx + i - 1)]
    <2>1. /\ read_idx + i - 1 \in Nat /\ read_idx + u \in Nat
          /\ read_idx + i - 1 < read_idx + u
          /\ (read_idx + u) - (read_idx + i - 1) < Size
      <3>1. Size \in Nat /\ read_idx \in Nat
        BY <1>1, SizeAssumption DEF Index
      <3>2. QED
        BY <1>1, <3>1
    <2> DEFINE a == read_idx + i - 1
               b == read_idx + u
    <2> HIDE DEF a, b
    <2>2. a \in Nat /\ b \in Nat /\ a < b /\ b - a < Size
      BY <2>1 DEF a, b
    <2>3. Slot(a) # Slot(b) /\ Slot(a) \in Slots
      BY <2>2, SlotsDiffer, SlotInRange
    <2>4. Slot(a) # Slot(write_idx) /\ Slot(write_idx) \in Slots
      BY <1>2, <2>3, <1>1, SlotInRange DEF b, Index
    <2>5. buffer'[Slot(a)] = buffer[Slot(a)]
      BY <2>3, <2>4 DEF PushWrite, RingInv, TypeOK
    <2>6. QED
      BY <2>5 DEF a
  <1>4. Contents' = [i \in 1 .. u |-> buffer'[Slot(read_idx + i - 1)]]
    BY <1>1 DEF Contents, PushWrite
  <1>5. Contents = [i \in 1 .. u |-> buffer[Slot(read_idx + i - 1)]]
    BY DEF Contents, u
  <1>6. QED
    BY <1>3, <1>4, <1>5

\* The contents of the ring after a pop: the oldest descriptor, which the
\* consumer copied, is gone.
LEMMA ContentsPop ==
    ASSUME RingInv, PopRelease
    PROVE  /\ Contents # <<>>
           /\ Head(Contents) = cons.desc
           /\ Contents' = Tail(Contents)
  <1> DEFINE u == Used(write_idx, read_idx)
  <1>1. /\ write_idx \in Index /\ read_idx \in Index
        /\ u \in Nat /\ u > 0 /\ Used(write_idx', read_idx') = u - 1
    BY UsedAfter DEF PopRelease, RingInv, TypeOK, Index
  <1>2. Contents = [i \in 1 .. u |-> buffer[Slot(read_idx + i - 1)]]
    BY DEF Contents
  <1>3. Contents' = [i \in 1 .. u - 1 |-> buffer[Slot(((read_idx + 1) % Wrap) + i - 1)]]
    BY <1>1 DEF Contents, PopRelease
  <1> HIDE DEF u
  <1>4. ASSUME NEW i \in 1 .. u - 1
        PROVE  Slot(((read_idx + 1) % Wrap) + i - 1) = Slot(read_idx + (i + 1) - 1)
    <2> DEFINE m == i - 1
               r1 == (read_idx + 1) % Wrap
    <2>1. m \in Nat
      BY <1>1
    <2>2. Slot(r1 + m) = Slot(read_idx + 1 + m)
      BY <1>1, <2>1, SlotFromNext
    <2>3. r1 \in Int /\ r1 + m = r1 + i - 1
      BY <1>1, SizeAssumption DEF Index
    <2>4. read_idx + 1 + m = read_idx + (i + 1) - 1
      BY <1>1 DEF Index
    <2>5. QED
      BY <2>2, <2>3, <2>4
  <1>5. Contents' = [i \in 1 .. u - 1 |-> buffer[Slot(read_idx + (i + 1) - 1)]]
    BY <1>3, <1>4
  <1>6. Tail([i \in 1 .. u |-> buffer[Slot(read_idx + i - 1)]])
          = [i \in 1 .. u - 1 |-> buffer[Slot(read_idx + (i + 1) - 1)]]
    BY <1>1
  <1>7. Contents # <<>> /\ Head(Contents) = buffer[Slot(read_idx + 1 - 1)]
    BY <1>1, <1>2
  <1>8. read_idx + 1 - 1 = read_idx
    BY <1>1 DEF Index
  <1>9. QED
    BY <1>2, <1>5, <1>6, <1>7, <1>8 DEF PopRelease, RingInv

\* Every push and pop of the ring is one atomic step of the bounded FIFO queue,
\* for every ring size, index width and set of descriptors.
THEOREM Refinement == Spec => ImplementsFifo
  <1>1. Init => Fifo!Init
    <2> SUFFICES ASSUME Init PROVE Fifo!Init
      OBVIOUS
    <2>1. Used(write_idx, read_idx) = 0
      BY UsedIs, SizeAssumption DEF Init, Index
    <2>2. Contents = <<>>
      BY <2>1 DEF Contents
    <2>3. QED
      BY <2>2 DEF Init, Fifo!Init
  <1>2. RingInv /\ [Next]_vars => [Fifo!Next]_(Fifo!vars)
    <2> SUFFICES ASSUME RingInv, [Next]_vars PROVE [Fifo!Next]_(Fifo!vars)
      OBVIOUS
    <2>1. /\ Len(Contents) = Used(write_idx, read_idx)
          /\ Used(write_idx, read_idx) \in Nat /\ Size \in Nat
          /\ Used(write_idx, read_idx) = 0 <=> read_idx = write_idx
          /\ Used(write_idx, read_idx) <= Size
      BY UsedAfter, SizeAssumption DEF Contents, RingInv, TypeOK, Index
    <2>2. UNCHANGED <<buffer, write_idx, read_idx>> => UNCHANGED Contents
      BY DEF Contents
    <2>3. CASE \E v \in Values : PushCall(v)
      <3>1. PICK v \in Values : PushCall(v)
        BY <2>3
      <3>2. Fifo!Offer(v)
        BY <3>1, <2>2 DEF PushCall, Fifo!Offer, RingInv, TypeOK
      <3>3. QED
        BY <3>2 DEF Fifo!Next
    <2>4. CASE PushFull
      <3>1. Fifo!Reject
        BY <2>4, <2>1, <2>2, ValueAssumption DEF PushFull, IsFull, Fifo!Reject, RingInv
      <3>2. QED
        BY <3>1 DEF Fifo!Next
    <2>5. CASE PushRoom
      BY <2>5, <2>2 DEF PushRoom, Fifo!vars, RingInv, TypeOK
    <2>6. CASE PushWrite
      BY <2>6, ContentsWrite DEF PushWrite, Fifo!vars, RingInv, TypeOK
    <2>7. CASE PushPublish
      <3>1. Fifo!Accept
        BY <2>7, <2>1, ContentsPush, ValueAssumption DEF PushPublish, Fifo!Accept, RingInv
      <3>2. QED
        BY <3>1 DEF Fifo!Next
    <2>8. CASE PopCall
      <3>1. Fifo!Ask
        BY <2>8, <2>2 DEF PopCall, Fifo!Ask, RingInv, TypeOK
      <3>2. QED
        BY <3>1 DEF Fifo!Next
    <2>9. CASE PopEmpty
      <3>1. Contents = <<>>
        BY <2>9, <2>1 DEF PopEmpty, Contents
      <3>2. Fifo!Empty
        BY <2>9, <3>1, <2>2 DEF PopEmpty, Fifo!Empty
      <3>3. QED
        BY <3>2 DEF Fifo!Next
    <2>10. CASE PopSome
      BY <2>10, <2>2 DEF PopSome, Fifo!vars, RingInv, TypeOK
    <2>11. CASE PopCopy
      BY <2>11, <2>2 DEF PopCopy, Fifo!vars, RingInv, TypeOK
    <2>12. CASE PopRelease
      <3>1. Fifo!Take
        BY <2>12, ContentsPop DEF PopRelease, Fifo!Take
      <3>2. QED
        BY <3>1 DEF Fifo!Next
    <2>13. CASE UNCHANGED vars
      BY <2>13, <2>2 DEF vars, Fifo!vars
    <2>14. QED
      BY <2>3, <2>4, <2>5, <2>6, <2>7, <2>8, <2>9, <2>10, <2>11, <2>12, <2>13 DEF Next
  <1>3. QED
    BY <1>1, <1>2, RingInvariant, PTL DEF Spec, ImplementsFifo, Fifo!Spec

=============================================================================
