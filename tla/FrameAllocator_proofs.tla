------------------------ MODULE FrameAllocator_proofs ------------------------
(***************************************************************************)
(* Proofs about FrameAllocator for every pool and every set of threads,    *)
(* the two of the code included: racing calls can lose or duplicate a      *)
(* frame, which TLC exhibits, but never access umem_frame_addr outside its *)
(* bounds.  Each access is bounded by the count its own call has loaded    *)
(* and tested, whatever the other threads have written since.  And until   *)
(* two calls overlap none is lost or duplicated, in whatever order the     *)
(* compiler has put the accesses of a call: each call is then one step of  *)
(* FrameStack.                                                             *)
(***************************************************************************)
EXTENDS FrameAllocator, FiniteSetTheorems, SequenceTheorems, TLAPS

AllocInv == TypeOK /\ IndexInBounds

LEMMA InitInv == Init => AllocInv
  <1> SUFFICES ASSUME Init PROVE AllocInv
    OBVIOUS
  <1>1. NumFrames \in Nat \ {0} /\ NumFrames - Preloaded \in 0 .. NumFrames
    BY AllocatorAssumption
  <1>2. umem_frame_addr \in [Frames -> Frames \cup {INVALID}]
    BY DEF Init
  <1>3. Idle \in Ops
    BY <1>1 DEF Idle, Ops
  <1>4. call \in [Threads -> Ops] /\ \A t \in Threads : call[t].op = "none"
    BY <1>3 DEF Init, Idle
  <1>5. out \subseteq Frames /\ overlapped \in BOOLEAN
    BY DEF Init
  <1>6. umem_frame_free \in 0 .. NumFrames
    BY <1>1 DEF Init
  <1>7. QED
    BY <1>2, <1>4, <1>5, <1>6 DEF AllocInv, TypeOK, IndexInBounds

\* A step of thread t replaces its call by another well-formed one.
LEMMA CallStep ==
    ASSUME AllocInv, NEW t \in Threads, NEW c \in Ops,
           call' = [call EXCEPT ![t] = c],
           c.op = "alloc" => c.cnt - 1 \in Frames,
           c.op = "free" => c.cnt \in Frames,
           umem_frame_free' \in 0 .. NumFrames,
           umem_frame_addr' \in [Frames -> Frames \cup {INVALID}],
           out' \subseteq Frames, overlapped' \in BOOLEAN
    PROVE  AllocInv'
  <1>1. call \in [Threads -> Ops]
    BY DEF AllocInv, TypeOK
  <1>2. call' \in [Threads -> Ops]
    BY <1>1
  <1>3. TypeOK'
    BY <1>2 DEF TypeOK
  <1>4. \A u \in Threads : /\ call'[u].op = "alloc" => call'[u].cnt - 1 \in Frames
                           /\ call'[u].op = "free" => call'[u].cnt \in Frames
    <2> SUFFICES ASSUME NEW u \in Threads
                 PROVE  /\ call'[u].op = "alloc" => call'[u].cnt - 1 \in Frames
                        /\ call'[u].op = "free" => call'[u].cnt \in Frames
      OBVIOUS
    <2>1. CASE u = t
      BY <1>1, <2>1
    <2>2. CASE u # t
      BY <1>1, <2>2 DEF AllocInv, IndexInBounds
    <2>3. QED
      BY <2>1, <2>2
  <1>5. QED
    BY <1>3, <1>4 DEF AllocInv, IndexInBounds, Frames

\* What is known of the call of a thread.
LEMMA CallFacts ==
    ASSUME AllocInv, NEW t \in Threads
    PROVE  /\ call[t] \in Ops /\ NumFrames \in Nat /\ NumFrames > 0
           /\ umem_frame_free \in 0 .. NumFrames
           /\ umem_frame_addr \in [Frames -> Frames \cup {INVALID}]
           /\ out \subseteq Frames /\ overlapped \in BOOLEAN
           /\ call[t].op = "alloc" => call[t].cnt - 1 \in Frames
           /\ call[t].op = "free" => call[t].cnt \in Frames
  BY AllocatorAssumption DEF AllocInv, TypeOK, IndexInBounds

LEMMA AllocSteps ==
    ASSUME AllocInv, NEW t \in Threads,
           \/ AllocEmpty(t) \/ AllocLoad(t)
           \/ AllocCount(t) \/ AllocRead(t) \/ AllocClear(t) \/ AllocReturn(t)
    PROVE  AllocInv'
  <1>0. /\ call[t] \in Ops /\ NumFrames \in Nat /\ NumFrames > 0
        /\ umem_frame_free \in 0 .. NumFrames
        /\ umem_frame_addr \in [Frames -> Frames \cup {INVALID}]
        /\ out \subseteq Frames /\ overlapped \in BOOLEAN
        /\ call[t].op = "alloc" => call[t].cnt - 1 \in Frames
    BY CallFacts
  <1>1. CASE AllocEmpty(t)
    BY <1>1 DEF AllocEmpty, Begins, AllocInv, TypeOK, IndexInBounds
  <1>2. CASE AllocLoad(t)
    <2> DEFINE c == [op |-> "alloc", cnt |-> umem_frame_free,
                     frame |-> INVALID, todo |-> {"count", "read", "clear"}]
    <2>1. c \in Ops /\ c.op = "alloc" /\ c.cnt - 1 \in Frames
      BY <1>0, <1>2 DEF AllocLoad, Ops, Frames
    <2>2. /\ call' = [call EXCEPT ![t] = c] /\ overlapped' \in BOOLEAN
          /\ umem_frame_free' = umem_frame_free
          /\ umem_frame_addr' = umem_frame_addr /\ out' = out
      BY <1>0, <1>2 DEF AllocLoad, Begins
    <2> HIDE DEF c
    <2>3. QED
      BY <1>0, <2>1, <2>2, CallStep
  <1>3. CASE AllocCount(t)
    <2> DEFINE c == [call[t] EXCEPT !.todo = @ \ {"count"}]
    <2>1. c \in Ops /\ c.op = "alloc" /\ c.cnt - 1 \in Frames /\ call[t].cnt - 1 \in Frames
      BY <1>0, <1>3 DEF AllocCount, Ops
    <2>2. /\ call' = [call EXCEPT ![t] = c] /\ overlapped' = overlapped
          /\ umem_frame_free' = call[t].cnt - 1
          /\ umem_frame_addr' = umem_frame_addr /\ out' = out
      BY <1>3 DEF AllocCount
    <2>3. umem_frame_free' \in 0 .. NumFrames
      BY <1>0, <2>1, <2>2 DEF Frames
    <2> HIDE DEF c
    <2>4. QED
      BY <1>0, <2>1, <2>2, <2>3, CallStep
  <1>4. CASE AllocRead(t)
    <2> DEFINE c == [call[t] EXCEPT !.todo = @ \ {"read"},
                                    !.frame = umem_frame_addr[call[t].cnt - 1]]
    <2>1. call[t].cnt - 1 \in Frames
      BY <1>0, <1>4 DEF AllocRead
    <2>2. umem_frame_addr[call[t].cnt - 1] \in Frames \cup {INVALID}
      BY <1>0, <2>1
    <2>3. c \in Ops /\ c.op = "alloc" /\ c.cnt - 1 \in Frames
      BY <1>0, <1>4, <2>1, <2>2 DEF AllocRead, Ops
    <2>4. /\ call' = [call EXCEPT ![t] = c] /\ overlapped' = overlapped
          /\ umem_frame_free' = umem_frame_free
          /\ umem_frame_addr' = umem_frame_addr /\ out' = out
      BY <1>4 DEF AllocRead
    <2> HIDE DEF c
    <2>5. QED
      BY <1>0, <2>3, <2>4, CallStep
  <1>5. CASE AllocClear(t)
    <2> DEFINE c == [call[t] EXCEPT !.todo = @ \ {"clear"}]
    <2>1. c \in Ops /\ c.op = "alloc" /\ c.cnt - 1 \in Frames
      BY <1>0, <1>5 DEF AllocClear, Ops
    <2>2. /\ call' = [call EXCEPT ![t] = c] /\ overlapped' = overlapped
          /\ umem_frame_free' = umem_frame_free /\ out' = out
          /\ umem_frame_addr' = [umem_frame_addr EXCEPT ![call[t].cnt - 1] = INVALID]
      BY <1>5 DEF AllocClear
    <2>3. umem_frame_addr' \in [Frames -> Frames \cup {INVALID}]
      BY <1>0, <2>2
    <2> HIDE DEF c
    <2>4. QED
      BY <1>0, <2>1, <2>2, <2>3, CallStep
  <1>6. CASE AllocReturn(t)
    <2>1. Idle \in Ops /\ Idle.op = "none"
      BY <1>0 DEF Idle, Ops
    <2>2. /\ call' = [call EXCEPT ![t] = Idle] /\ overlapped' = overlapped
          /\ umem_frame_free' = umem_frame_free
          /\ umem_frame_addr' = umem_frame_addr
          /\ out' = out \cup ({call[t].frame} \ {INVALID})
      BY <1>6 DEF AllocReturn
    <2>3. out' \subseteq Frames
      BY <1>0, <2>2 DEF Ops
    <2>4. QED
      BY <1>0, <2>1, <2>2, <2>3, CallStep
  <1>7. QED
    BY <1>1, <1>2, <1>3, <1>4, <1>5, <1>6

LEMMA FreeSteps ==
    ASSUME AllocInv, NEW t \in Threads,
           \/ \E f \in out : FreeDropped(t, f) \/ FreeLoad(t, f)
           \/ FreeCount(t) \/ FreeStore(t) \/ FreeReturn(t)
    PROVE  AllocInv'
  <1>0. /\ call[t] \in Ops /\ NumFrames \in Nat /\ NumFrames > 0
        /\ umem_frame_free \in 0 .. NumFrames
        /\ umem_frame_addr \in [Frames -> Frames \cup {INVALID}]
        /\ out \subseteq Frames /\ overlapped \in BOOLEAN
        /\ call[t].op = "free" => call[t].cnt \in Frames
    BY CallFacts
  <1>1. ASSUME NEW f \in out, FreeDropped(t, f) PROVE AllocInv'
    BY <1>1 DEF FreeDropped, Begins, AllocInv, TypeOK, IndexInBounds
  <1>2. ASSUME NEW f \in out, FreeLoad(t, f) PROVE AllocInv'
    <2> DEFINE c == [op |-> "free", cnt |-> umem_frame_free,
                     frame |-> f, todo |-> {"count", "store"}]
    <2>1. c \in Ops /\ c.op = "free" /\ c.cnt \in Frames
      BY <1>0, <1>2 DEF FreeLoad, Ops, Frames
    <2>2. /\ call' = [call EXCEPT ![t] = c] /\ overlapped' \in BOOLEAN
          /\ umem_frame_free' = umem_frame_free
          /\ umem_frame_addr' = umem_frame_addr /\ out' = out \ {f}
      BY <1>0, <1>2 DEF FreeLoad, Begins
    <2>3. out' \subseteq Frames
      BY <1>0, <2>2
    <2> HIDE DEF c
    <2>4. QED
      BY <1>0, <2>1, <2>2, <2>3, CallStep
  <1>3. CASE FreeCount(t)
    <2> DEFINE c == [call[t] EXCEPT !.todo = @ \ {"count"}]
    <2>1. c \in Ops /\ c.op = "free" /\ c.cnt \in Frames /\ call[t].cnt \in Frames
      BY <1>0, <1>3 DEF FreeCount, Ops
    <2>2. /\ call' = [call EXCEPT ![t] = c] /\ overlapped' = overlapped
          /\ umem_frame_free' = call[t].cnt + 1
          /\ umem_frame_addr' = umem_frame_addr /\ out' = out
      BY <1>3 DEF FreeCount
    <2>3. umem_frame_free' \in 0 .. NumFrames
      BY <1>0, <2>1, <2>2 DEF Frames
    <2> HIDE DEF c
    <2>4. QED
      BY <1>0, <2>1, <2>2, <2>3, CallStep
  <1>4. CASE FreeStore(t)
    <2> DEFINE c == [call[t] EXCEPT !.todo = @ \ {"store"}]
    <2>1. c \in Ops /\ c.op = "free" /\ c.cnt \in Frames
          /\ call[t].frame \in Frames \cup {INVALID}
      BY <1>0, <1>4 DEF FreeStore, Ops
    <2>2. /\ call' = [call EXCEPT ![t] = c] /\ overlapped' = overlapped
          /\ umem_frame_free' = umem_frame_free /\ out' = out
          /\ umem_frame_addr' = [umem_frame_addr EXCEPT ![call[t].cnt] = call[t].frame]
      BY <1>4 DEF FreeStore
    <2>3. umem_frame_addr' \in [Frames -> Frames \cup {INVALID}]
      BY <1>0, <2>1, <2>2
    <2> HIDE DEF c
    <2>4. QED
      BY <1>0, <2>1, <2>2, <2>3, CallStep
  <1>5. CASE FreeReturn(t)
    <2>1. Idle \in Ops /\ Idle.op = "none"
      BY <1>0 DEF Idle, Ops
    <2>2. /\ call' = [call EXCEPT ![t] = Idle] /\ overlapped' = overlapped
          /\ umem_frame_free' = umem_frame_free
          /\ umem_frame_addr' = umem_frame_addr /\ out' = out
      BY <1>5 DEF FreeReturn
    <2>3. QED
      BY <1>0, <2>1, <2>2, CallStep
  <1>6. QED
    BY <1>1, <1>2, <1>3, <1>4, <1>5

\* xsk_alloc_frame and xsk_free_frame keep their types and their bounds through
\* every interleaving of their accesses.
THEOREM AllocatorInvariant == Spec => []AllocInv
  <1>1. AllocInv /\ [Next]_vars => AllocInv'
    <2> SUFFICES ASSUME AllocInv, [Next]_vars PROVE AllocInv'
      OBVIOUS
    <2>1. CASE Next
      BY <2>1, AllocSteps, FreeSteps DEF Next
    <2>2. CASE UNCHANGED vars
      BY <2>2 DEF vars, AllocInv, TypeOK, IndexInBounds
    <2>3. QED
      BY <2>1, <2>2
  <1>2. QED
    BY InitInv, <1>1, PTL DEF Spec

\* The unsynchronised count and slots of xsk_umem_info keep to their types: a
\* count between 0 and NUM_FRAMES, slots with a frame or the invalid address.
THEOREM TypeCorrect == Spec => []TypeOK
  <1>1. AllocInv => TypeOK
    BY DEF AllocInv
  <1>2. QED
    BY <1>1, AllocatorInvariant, PTL

\* umem_frame_addr is never accessed out of bounds, however the calls of the two
\* threads interleave.
THEOREM IndexStaysInBounds == Spec => []IndexInBounds
  <1>1. AllocInv => IndexInBounds
    BY DEF AllocInv
  <1>2. QED
    BY <1>1, AllocatorInvariant, PTL

-----------------------------------------------------------------------------
\* The first n slots of a list each frame outside o once.
Exact(a, n, o) ==
    /\ \A i \in 0 .. n - 1 : a[i] \in Frames \ o
    /\ \A i, j \in 0 .. n - 1 : a[i] = a[j] => i = j
    /\ \A f \in Frames \ o : \E i \in 0 .. n - 1 : a[i] = f

\* An xsk_alloc_frame between its accesses: the slots below the one it reads are
\* exact without the frame it takes, and the count lags until it is written.
Allocating(c, a, n, o) ==
    /\ "clear" \notin c.todo => "read" \notin c.todo
    /\ n = IF "count" \in c.todo THEN c.cnt ELSE c.cnt - 1
    /\ Taken(c, a) \in Frames \ o
    /\ Exact(a, c.cnt - 1, o \cup {Taken(c, a)})

\* An xsk_free_frame between its accesses: the listed slots are exact without the
\* frame it returns, which goes into the slot after them.
Freeing(c, a, n, o) ==
    /\ n = IF "count" \in c.todo THEN c.cnt ELSE c.cnt + 1
    /\ c.frame \in Frames \ o
    /\ Exact(a, c.cnt, o \cup {c.frame})
    /\ "store" \notin c.todo => a[c.cnt] = c.frame

\* Until two calls overlap at most one is under way, and the list is exact but
\* for the frame this call moves.
Serial ==
    ~overlapped =>
        /\ (\A t \in Threads : call[t] = Idle) =>
                Exact(umem_frame_addr, umem_frame_free, out)
        /\ \A t \in Threads :
            /\ call[t].op = "none" => call[t] = Idle
            /\ call[t].op = "alloc" =>
                    Alone(t) /\ Allocating(call[t], umem_frame_addr, umem_frame_free, out)
            /\ call[t].op = "free" =>
                    Alone(t) /\ Freeing(call[t], umem_frame_addr, umem_frame_free, out)

\* Loading the count of an exact list takes the frame of its last slot.
LEMMA TakeLast ==
    ASSUME NEW a, NEW n \in Nat, n > 0, NEW o, Exact(a, n, o)
    PROVE  /\ a[n - 1] \in Frames \ o
           /\ Exact(a, n - 1, o \cup {a[n - 1]})
  <1>1. \A i \in 0 .. (n - 1) - 1 : i \in 0 .. n - 1 /\ i # n - 1
    OBVIOUS
  <1>2. \A i \in 0 .. n - 1 : i = n - 1 \/ i \in 0 .. (n - 1) - 1
    OBVIOUS
  <1>3. n - 1 \in 0 .. n - 1
    OBVIOUS
  <1>4. a[n - 1] \in Frames \ o
    BY <1>3 DEF Exact
  <1>5. \A i \in 0 .. (n - 1) - 1 : a[i] \in Frames \ (o \cup {a[n - 1]})
    BY <1>1, <1>3 DEF Exact
  <1>6. \A i, j \in 0 .. (n - 1) - 1 : a[i] = a[j] => i = j
    BY <1>1 DEF Exact
  <1>7. ASSUME NEW f \in Frames \ (o \cup {a[n - 1]})
        PROVE  \E i \in 0 .. (n - 1) - 1 : a[i] = f
    <2>1. PICK i \in 0 .. n - 1 : a[i] = f
      BY DEF Exact
    <2>2. QED
      BY <1>2, <2>1
  <1>8. QED
    BY <1>4, <1>5, <1>6, <1>7 DEF Exact

\* Storing a frame in the slot after the listed ones lists it.
LEMMA PutLast ==
    ASSUME NEW a, NEW n \in Nat, NEW o, NEW f \in Frames \ o,
           a[n] = f, Exact(a, n, o \cup {f})
    PROVE  Exact(a, n + 1, o)
  <1>1. \A i \in 0 .. (n + 1) - 1 : i = n \/ i \in 0 .. n - 1
    OBVIOUS
  <1>2. \A i \in 0 .. n - 1 : i \in 0 .. (n + 1) - 1
    OBVIOUS
  <1>3. n \in 0 .. (n + 1) - 1
    OBVIOUS
  <1>4. \A i \in 0 .. n - 1 : a[i] \in Frames \ o /\ a[i] # f
    BY DEF Exact
  <1>5. \A i \in 0 .. (n + 1) - 1 : a[i] \in Frames \ o
    BY <1>1, <1>4
  <1>6. \A i, j \in 0 .. (n + 1) - 1 : a[i] = a[j] => i = j
    BY <1>1, <1>4 DEF Exact
  <1>7. ASSUME NEW g \in Frames \ o PROVE \E i \in 0 .. (n + 1) - 1 : a[i] = g
    <2>1. CASE g = f
      BY <1>3, <2>1
    <2>2. CASE g # f
      <3>1. PICK i \in 0 .. n - 1 : a[i] = g
        BY <2>2 DEF Exact
      <3>2. QED
        BY <1>2, <3>1
    <2>3. QED
      BY <2>1, <2>2
  <1>8. QED
    BY <1>5, <1>6, <1>7 DEF Exact

\* A slot past the listed ones does not matter.
LEMMA SlotPastTheList ==
    ASSUME NEW a \in [Frames -> Frames \cup {INVALID}], NEW n \in Nat, NEW o,
           Exact(a, n, o), NEW k \in Int, k >= n, NEW v,
           NEW b, b = [a EXCEPT ![k] = v], n <= NumFrames
    PROVE  Exact(b, n, o)
  <1>1. \A i \in 0 .. n - 1 : i \in Frames /\ i # k
    BY AllocatorAssumption DEF Frames
  <1>2. \A i \in 0 .. n - 1 : b[i] = a[i]
    BY <1>1
  <1>3. QED
    BY <1>2 DEF Exact

\* The function that reads the listed slots.
LEMMA ExactCardinality ==
    ASSUME NEW a, NEW n \in Nat, NEW o, Exact(a, n, o)
    PROVE  Cardinality({a[i] : i \in 0 .. n - 1}) = n
  <1> DEFINE S == 0 .. n - 1
             T == {a[i] : i \in 0 .. n - 1}
             g == [i \in S |-> a[i]]
  <1>1. IsFiniteSet(S) /\ Cardinality(S) = n
    BY FS_Interval
  <1>2. g \in [S -> T] /\ \A i \in S : g[i] = a[i]
    OBVIOUS
  <1>3. \A i, j \in S : g[i] = g[j] => i = j
    BY <1>2 DEF Exact
  <1>4. \A y \in T : \E i \in S : g[i] = y
    BY <1>2
  <1> HIDE DEF S, T, g
  <1>5. g \in Injection(S, T) /\ g \in Surjection(S, T)
    BY <1>2, <1>3, <1>4 DEF Injection, Surjection, IsInjective
  <1>6. Cardinality(T) = n
    BY <1>1, <1>5, FS_Surjection
  <1>7. QED
    BY <1>6 DEF T

\* A full list leaves no frame outside it.
LEMMA FullListIsAll ==
    ASSUME NEW a, NEW o, Exact(a, NumFrames, o), NEW f \in Frames
    PROVE  f \notin o
  <1> SUFFICES ASSUME f \in o PROVE FALSE
    OBVIOUS
  <1> DEFINE S == 0 .. NumFrames - 1
             T == Frames \ {f}
             g == [i \in S |-> a[i]]
  <1>0. NumFrames \in Nat /\ S = Frames
    BY AllocatorAssumption DEF Frames
  <1>1. IsFiniteSet(S) /\ Cardinality(S) = NumFrames
    BY <1>0, FS_Interval
  <1>2. IsFiniteSet(T) /\ Cardinality(T) = NumFrames - 1
    <2>1. /\ IsFiniteSet(S \ {f})
          /\ Cardinality(S \ {f}) = IF f \in S THEN Cardinality(S) - 1 ELSE Cardinality(S)
      BY <1>1, FS_RemoveElement
    <2>2. QED
      BY <1>0, <1>1, <2>1
  <1>3. g \in [S -> T] /\ \A i \in S : g[i] = a[i]
    BY DEF Exact
  <1>4. \A i, j \in S : g[i] = g[j] => i = j
    BY <1>3 DEF Exact
  <1> HIDE DEF S, T, g
  <1>5. Cardinality(T) < Cardinality(S)
    BY <1>0, <1>1, <1>2
  <1>6. \E x, y \in S : x # y /\ g[x] = g[y]
    BY <1>1, <1>2, <1>3, <1>5, FS_PigeonHole
  <1>7. QED
    BY <1>4, <1>6

SerialInv == AllocInv /\ Serial

\* A step of the only thread in a call, or of one that begins alone.
LEMMA SerialStep ==
    ASSUME AllocInv, Serial, NEW t \in Threads, NEW c,
           ~overlapped' => ~overlapped /\ Alone(t),
           call' = [call EXCEPT ![t] = c],
           ~overlapped' =>
             /\ c.op = "none" =>
                    c = Idle /\ Exact(umem_frame_addr', umem_frame_free', out')
             /\ c.op = "alloc" => Allocating(c, umem_frame_addr', umem_frame_free', out')
             /\ c.op = "free" => Freeing(c, umem_frame_addr', umem_frame_free', out')
    PROVE  Serial'
  <1> SUFFICES ASSUME ~overlapped'
               PROVE  /\ (\A u \in Threads : call'[u] = Idle) =>
                            Exact(umem_frame_addr', umem_frame_free', out')
                      /\ \A u \in Threads :
                          /\ call'[u].op = "none" => call'[u] = Idle
                          /\ call'[u].op = "alloc" =>
                                Alone(u)' /\ Allocating(call'[u], umem_frame_addr',
                                                        umem_frame_free', out')
                          /\ call'[u].op = "free" =>
                                Alone(u)' /\ Freeing(call'[u], umem_frame_addr',
                                                     umem_frame_free', out')
    BY DEF Serial
  <1>0. call \in [Threads -> Ops]
    BY DEF AllocInv, TypeOK
  <1>1. call'[t] = c /\ \A u \in Threads \ {t} : call'[u] = Idle
    BY <1>0 DEF Alone
  <1>2. Idle.op = "none"
    BY DEF Idle
  <1>3. Alone(t)'
    BY <1>1 DEF Alone
  <1>4. (\A u \in Threads : call'[u] = Idle) =>
            Exact(umem_frame_addr', umem_frame_free', out')
    BY <1>1, <1>2
  <1>5. ASSUME NEW u \in Threads
        PROVE  /\ call'[u].op = "none" => call'[u] = Idle
               /\ call'[u].op = "alloc" =>
                     Alone(u)' /\ Allocating(call'[u], umem_frame_addr',
                                             umem_frame_free', out')
               /\ call'[u].op = "free" =>
                     Alone(u)' /\ Freeing(call'[u], umem_frame_addr',
                                          umem_frame_free', out')
    <2>1. CASE u = t
      BY <1>1, <1>3, <2>1
    <2>2. CASE u # t
      BY <1>1, <1>2, <2>2
    <2>3. QED
      BY <2>1, <2>2
  <1>6. QED
    BY <1>4, <1>5

\* A thread begins a call alone when the two have not overlapped: the list is exact.
LEMMA BeginsExact ==
    ASSUME Serial, NEW t \in Threads, Begins(t), ~overlapped'
    PROVE  /\ ~overlapped /\ Alone(t)
           /\ Exact(umem_frame_addr, umem_frame_free, out)
  <1>1. ~overlapped /\ Alone(t) /\ call[t] = Idle
    BY DEF Begins
  <1>2. \A u \in Threads : call[u] = Idle
    BY <1>1 DEF Alone
  <1>3. QED
    BY <1>1, <1>2 DEF Serial

\* What is known of the only xsk_alloc_frame under way.
LEMMA AllocatingFacts ==
    ASSUME AllocInv, Serial, NEW t \in Threads, ~overlapped, call[t].op = "alloc"
    PROVE  /\ Alone(t)
           /\ Allocating(call[t], umem_frame_addr, umem_frame_free, out)
           /\ call[t].cnt \in 1 .. NumFrames
  <1>1. call[t].cnt \in 0 .. NumFrames /\ call[t].cnt - 1 \in Frames /\ NumFrames \in Nat
    BY CallFacts DEF Ops
  <1>2. call[t].cnt \in 1 .. NumFrames
    BY <1>1 DEF Frames
  <1>3. QED
    BY <1>2 DEF Serial

LEMMA AllocBegins ==
    ASSUME AllocInv, Serial, NEW t \in Threads, AllocEmpty(t) \/ AllocLoad(t)
    PROVE  Serial'
  <1>1. CASE AllocEmpty(t)
    <2>1. call' = [call EXCEPT ![t] = Idle]
      BY <1>1 DEF AllocEmpty, Begins, AllocInv, TypeOK
    <2>2. UNCHANGED <<umem_frame_addr, umem_frame_free, out>> /\ Begins(t) /\ Idle.op = "none"
      BY <1>1 DEF AllocEmpty, Idle
    <2>3. ~overlapped' => /\ ~overlapped /\ Alone(t)
                          /\ Exact(umem_frame_addr, umem_frame_free, out)
      BY <2>2, BeginsExact
    <2>4. QED
      BY <2>1, <2>2, <2>3, SerialStep
  <1>2. CASE AllocLoad(t)
    <2> DEFINE c == [op |-> "alloc", cnt |-> umem_frame_free,
                     frame |-> INVALID, todo |-> {"count", "read", "clear"}]
    <2>1. /\ call' = [call EXCEPT ![t] = c] /\ Begins(t) /\ umem_frame_free > 0
          /\ UNCHANGED <<umem_frame_addr, umem_frame_free, out>>
      BY <1>2 DEF AllocLoad
    <2>2. ~overlapped' => /\ ~overlapped /\ Alone(t)
                          /\ Exact(umem_frame_addr, umem_frame_free, out)
      BY <2>1, BeginsExact
    <2>3. umem_frame_free \in Nat
      BY DEF AllocInv, TypeOK
    <2>4. c.op = "alloc" /\ c.cnt = umem_frame_free /\ c.todo = {"count", "read", "clear"}
      OBVIOUS
    <2> HIDE DEF c
    <2>5. ASSUME Exact(umem_frame_addr, umem_frame_free, out)
          PROVE  Allocating(c, umem_frame_addr, umem_frame_free, out)
      <3>1. /\ umem_frame_addr[umem_frame_free - 1] \in Frames \ out
            /\ Exact(umem_frame_addr, umem_frame_free - 1,
                     out \cup {umem_frame_addr[umem_frame_free - 1]})
        BY <2>1, <2>3, <2>5, TakeLast
      <3>2. Taken(c, umem_frame_addr) = umem_frame_addr[umem_frame_free - 1]
        BY <2>4 DEF Taken
      <3>3. QED
        BY <2>4, <3>1, <3>2 DEF Allocating
    <2>6. QED
      BY <2>1, <2>2, <2>4, <2>5, SerialStep
  <1>3. QED
    BY <1>1, <1>2

LEMMA AllocMoves ==
    ASSUME AllocInv, Serial, NEW t \in Threads,
           AllocCount(t) \/ AllocRead(t) \/ AllocClear(t)
    PROVE  Serial'
  <1> DEFINE a == umem_frame_addr
             k == call[t].cnt
  <1>0. call[t] \in Ops /\ a \in [Frames -> Frames \cup {INVALID}] /\ NumFrames \in Nat
    BY CallFacts
  <1>1. call[t].op = "alloc" /\ overlapped' = overlapped
    BY DEF AllocCount, AllocRead, AllocClear
  <1>2. ~overlapped => /\ Alone(t)
                       /\ Allocating(call[t], a, umem_frame_free, out)
                       /\ k \in 1 .. NumFrames
    BY <1>1, AllocatingFacts
  <1>3. CASE AllocCount(t)
    <2> DEFINE c == [call[t] EXCEPT !.todo = @ \ {"count"}]
    <2>1. c.op = "alloc" /\ c.cnt = k /\ c.frame = call[t].frame
          /\ c.todo = call[t].todo \ {"count"}
      BY <1>0, <1>1 DEF Ops
    <2>2. /\ call' = [call EXCEPT ![t] = c]
          /\ umem_frame_free' = k - 1 /\ a' = a /\ out' = out
      BY <1>3 DEF AllocCount
    <2> HIDE DEF c
    <2>3. ASSUME Allocating(call[t], a, umem_frame_free, out)
          PROVE  Allocating(c, a, k - 1, out)
      <3>1. Taken(c, a) = Taken(call[t], a)
        BY <2>1 DEF Taken
      <3>2. QED
        BY <2>1, <2>3, <3>1 DEF Allocating
    <2>4. QED
      BY <1>1, <1>2, <2>1, <2>2, <2>3, SerialStep
  <1>4. CASE AllocRead(t)
    <2> DEFINE c == [call[t] EXCEPT !.todo = @ \ {"read"}, !.frame = a[k - 1]]
    <2>1. c.op = "alloc" /\ c.cnt = k /\ c.frame = a[k - 1]
          /\ c.todo = call[t].todo \ {"read"}
      BY <1>0, <1>1 DEF Ops
    <2>2. /\ call' = [call EXCEPT ![t] = c] /\ "read" \in call[t].todo
          /\ umem_frame_free' = umem_frame_free /\ a' = a /\ out' = out
      BY <1>4 DEF AllocRead
    <2> HIDE DEF c
    <2>3. ASSUME Allocating(call[t], a, umem_frame_free, out)
          PROVE  Allocating(c, a, umem_frame_free, out)
      <3>1. Taken(c, a) = Taken(call[t], a)
        BY <2>1, <2>2 DEF Taken
      <3>2. QED
        BY <2>1, <2>3, <3>1 DEF Allocating
    <2>4. QED
      BY <1>1, <1>2, <2>1, <2>2, <2>3, SerialStep
  <1>5. CASE AllocClear(t)
    <2> DEFINE c == [call[t] EXCEPT !.todo = @ \ {"clear"}]
               b == [a EXCEPT ![k - 1] = INVALID]
    <2>1. c.op = "alloc" /\ c.cnt = k /\ c.frame = call[t].frame
          /\ c.todo = call[t].todo \ {"clear"}
      BY <1>0, <1>1 DEF Ops
    <2>2. /\ call' = [call EXCEPT ![t] = c] /\ "read" \notin call[t].todo
          /\ umem_frame_free' = umem_frame_free /\ a' = b /\ out' = out
      BY <1>5 DEF AllocClear
    <2> HIDE DEF c
    <2>3. ASSUME Allocating(call[t], a, umem_frame_free, out), k \in 1 .. NumFrames
          PROVE  Allocating(c, b, umem_frame_free, out)
      <3>1. Taken(c, b) = call[t].frame /\ Taken(call[t], a) = call[t].frame
        BY <2>1, <2>2 DEF Taken
      <3>2. Exact(a, k - 1, out \cup {call[t].frame})
        BY <2>3, <3>1 DEF Allocating
      <3>3. k - 1 \in Nat /\ k - 1 \in Int /\ k - 1 >= k - 1 /\ k - 1 <= NumFrames
        BY <1>0, <2>3
      <3> HIDE DEF k, a
      <3>4. Exact(b, k - 1, out \cup {call[t].frame})
        BY <1>0, <3>2, <3>3, SlotPastTheList
      <3>5. QED
        BY <2>1, <2>2, <2>3, <3>1, <3>4 DEF Allocating, k
    <2> HIDE DEF b
    <2>4. QED
      BY <1>1, <1>2, <2>1, <2>2, <2>3, SerialStep
  <1>6. QED
    BY <1>3, <1>4, <1>5

LEMMA AllocEnds ==
    ASSUME AllocInv, Serial, NEW t \in Threads, AllocReturn(t)
    PROVE  Serial'
  <1>1. /\ call[t].op = "alloc" /\ call[t].todo = {}
        /\ out' = out \cup ({call[t].frame} \ {INVALID})
        /\ call' = [call EXCEPT ![t] = Idle]
        /\ UNCHANGED <<umem_frame_addr, umem_frame_free, overlapped>>
    BY DEF AllocReturn
  <1>2. ~overlapped => /\ Alone(t)
                       /\ Allocating(call[t], umem_frame_addr, umem_frame_free, out)
                       /\ call[t].cnt \in 1 .. NumFrames
    BY <1>1, AllocatingFacts
  <1>3. ASSUME Allocating(call[t], umem_frame_addr, umem_frame_free, out)
        PROVE  Exact(umem_frame_addr', umem_frame_free', out')
    <2>1. /\ call[t].frame \in Frames
          /\ umem_frame_free = call[t].cnt - 1
          /\ Exact(umem_frame_addr, umem_frame_free, out \cup {call[t].frame})
      BY <1>1, <1>3 DEF Allocating, Taken
    <2>2. call[t].frame # INVALID
      BY <2>1 DEF Frames, INVALID
    <2>3. out' = out \cup {call[t].frame}
      BY <1>1, <2>2
    <2>4. QED
      BY <1>1, <2>1, <2>3
  <1>4. Idle.op = "none"
    BY DEF Idle
  <1>5. QED
    BY <1>1, <1>2, <1>3, <1>4, SerialStep

\* What is known of the only xsk_free_frame under way.
LEMMA FreeingFacts ==
    ASSUME AllocInv, Serial, NEW t \in Threads, ~overlapped, call[t].op = "free"
    PROVE  /\ Alone(t)
           /\ Freeing(call[t], umem_frame_addr, umem_frame_free, out)
           /\ call[t].cnt \in 0 .. NumFrames
  BY CallFacts DEF Serial, Ops

LEMMA FreeBegins ==
    ASSUME AllocInv, Serial, NEW t \in Threads, NEW f \in out,
           FreeDropped(t, f) \/ FreeLoad(t, f)
    PROVE  Serial'
  <1>0. f \in Frames /\ NumFrames \in Nat /\ umem_frame_free \in 0 .. NumFrames
    BY CallFacts
  <1>1. CASE FreeDropped(t, f)
    <2>1. Begins(t) /\ umem_frame_free = NumFrames
      BY <1>0, <1>1 DEF FreeDropped
    <2>2. SUFFICES ASSUME ~overlapped' PROVE FALSE
      BY DEF Serial
    <2>3. Exact(umem_frame_addr, NumFrames, out)
      BY <2>1, <2>2, BeginsExact
    <2>4. QED
      BY <1>0, <2>3, FullListIsAll
  <1>2. CASE FreeLoad(t, f)
    <2> DEFINE c == [op |-> "free", cnt |-> umem_frame_free,
                     frame |-> f, todo |-> {"count", "store"}]
    <2>1. /\ call' = [call EXCEPT ![t] = c] /\ Begins(t) /\ out' = out \ {f}
          /\ UNCHANGED <<umem_frame_addr, umem_frame_free>>
      BY <1>2 DEF FreeLoad
    <2>2. ~overlapped' => /\ ~overlapped /\ Alone(t)
                          /\ Exact(umem_frame_addr, umem_frame_free, out)
      BY <2>1, BeginsExact
    <2>3. c.op = "free" /\ c.cnt = umem_frame_free /\ c.frame = f
          /\ c.todo = {"count", "store"}
      OBVIOUS
    <2> HIDE DEF c
    <2>4. ASSUME Exact(umem_frame_addr, umem_frame_free, out)
          PROVE  Freeing(c, umem_frame_addr, umem_frame_free, out')
      <3>1. out' \cup {f} = out /\ f \in Frames \ out'
        BY <1>0, <2>1
      <3>2. QED
        BY <2>3, <2>4, <3>1 DEF Freeing
    <2>5. QED
      BY <2>1, <2>2, <2>3, <2>4, SerialStep
  <1>3. QED
    BY <1>1, <1>2

LEMMA FreeMoves ==
    ASSUME AllocInv, Serial, NEW t \in Threads, FreeCount(t) \/ FreeStore(t)
    PROVE  Serial'
  <1> DEFINE a == umem_frame_addr
             k == call[t].cnt
  <1>0. call[t] \in Ops /\ a \in [Frames -> Frames \cup {INVALID}] /\ NumFrames \in Nat
    BY CallFacts
  <1>1. call[t].op = "free" /\ overlapped' = overlapped /\ k \in Frames
    BY CallFacts DEF FreeCount, FreeStore
  <1>2. ~overlapped => /\ Alone(t)
                       /\ Freeing(call[t], a, umem_frame_free, out)
    BY <1>1, FreeingFacts
  <1>3. CASE FreeCount(t)
    <2> DEFINE c == [call[t] EXCEPT !.todo = @ \ {"count"}]
    <2>1. c.op = "free" /\ c.cnt = k /\ c.frame = call[t].frame
          /\ c.todo = call[t].todo \ {"count"}
      BY <1>0, <1>1 DEF Ops
    <2>2. /\ call' = [call EXCEPT ![t] = c]
          /\ umem_frame_free' = k + 1 /\ a' = a /\ out' = out
      BY <1>3 DEF FreeCount
    <2> HIDE DEF c
    <2>3. ASSUME Freeing(call[t], a, umem_frame_free, out)
          PROVE  Freeing(c, a, k + 1, out)
      BY <2>1, <2>3 DEF Freeing
    <2>4. QED
      BY <1>1, <1>2, <2>1, <2>2, <2>3, SerialStep
  <1>4. CASE FreeStore(t)
    <2> DEFINE c == [call[t] EXCEPT !.todo = @ \ {"store"}]
               b == [a EXCEPT ![k] = call[t].frame]
    <2>1. c.op = "free" /\ c.cnt = k /\ c.frame = call[t].frame
          /\ c.todo = call[t].todo \ {"store"}
      BY <1>0, <1>1 DEF Ops
    <2>2. /\ call' = [call EXCEPT ![t] = c]
          /\ umem_frame_free' = umem_frame_free /\ a' = b /\ out' = out
      BY <1>4 DEF FreeStore
    <2> HIDE DEF c
    <2>3. ASSUME Freeing(call[t], a, umem_frame_free, out)
          PROVE  Freeing(c, b, umem_frame_free, out)
      <3>1. Exact(a, k, out \cup {call[t].frame})
        BY <2>3 DEF Freeing
      <3>2. k \in Nat /\ k \in Int /\ k >= k /\ k <= NumFrames
        BY <1>0, <1>1 DEF Frames
      <3>3. b[k] = call[t].frame
        BY <1>0, <1>1
      <3> HIDE DEF k, a
      <3>4. Exact(b, k, out \cup {call[t].frame})
        BY <1>0, <3>1, <3>2, SlotPastTheList
      <3>5. QED
        BY <2>1, <2>3, <3>3, <3>4 DEF Freeing, k
    <2> HIDE DEF b
    <2>4. QED
      BY <1>1, <1>2, <2>1, <2>2, <2>3, SerialStep
  <1>5. QED
    BY <1>3, <1>4

LEMMA FreeEnds ==
    ASSUME AllocInv, Serial, NEW t \in Threads, FreeReturn(t)
    PROVE  Serial'
  <1>1. /\ call[t].op = "free" /\ call[t].todo = {}
        /\ call' = [call EXCEPT ![t] = Idle]
        /\ UNCHANGED <<umem_frame_addr, umem_frame_free, out, overlapped>>
    BY DEF FreeReturn
  <1>2. ~overlapped => /\ Alone(t)
                       /\ Freeing(call[t], umem_frame_addr, umem_frame_free, out)
                       /\ call[t].cnt \in 0 .. NumFrames
    BY <1>1, FreeingFacts
  <1>3. ASSUME Freeing(call[t], umem_frame_addr, umem_frame_free, out),
               call[t].cnt \in 0 .. NumFrames
        PROVE  Exact(umem_frame_addr', umem_frame_free', out')
    <2>1. /\ call[t].frame \in Frames \ out
          /\ umem_frame_free = call[t].cnt + 1
          /\ Exact(umem_frame_addr, call[t].cnt, out \cup {call[t].frame})
          /\ umem_frame_addr[call[t].cnt] = call[t].frame
      BY <1>1, <1>3 DEF Freeing
    <2>2. call[t].cnt \in Nat
      BY <1>3, AllocatorAssumption
    <2>3. Exact(umem_frame_addr, call[t].cnt + 1, out)
      BY <2>1, <2>2, PutLast
    <2>4. QED
      BY <1>1, <2>1, <2>3
  <1>4. Idle.op = "none"
    BY DEF Idle
  <1>5. QED
    BY <1>1, <1>2, <1>3, <1>4, SerialStep

LEMMA InitSerial == Init => Serial
  <1> SUFFICES ASSUME Init PROVE Serial
    OBVIOUS
  <1> DEFINE m == NumFrames - Preloaded
  <1>1. NumFrames \in Nat /\ m \in 0 .. NumFrames
    BY AllocatorAssumption
  <1>2. /\ umem_frame_free = m
        /\ umem_frame_addr = [i \in Frames |-> IF i < m THEN i ELSE INVALID]
        /\ out = {i \in Frames : i >= m}
        /\ call = [t \in Threads |-> Idle]
    BY DEF Init
  <1> HIDE DEF m
  <1>3. \A i \in 0 .. m - 1 : i \in Frames /\ i < m /\ ~(i >= m)
    BY <1>1 DEF Frames
  <1>4. \A i \in 0 .. m - 1 : umem_frame_addr[i] = i /\ i \in Frames \ out
    BY <1>2, <1>3
  <1>5. \A f \in Frames \ out : f \in 0 .. m - 1
    BY <1>1, <1>2 DEF Frames
  <1>6. Exact(umem_frame_addr, umem_frame_free, out)
    BY <1>2, <1>4, <1>5 DEF Exact
  <1>7. \A t \in Threads : call[t] = Idle /\ call[t].op = "none"
    BY <1>2 DEF Idle
  <1>8. QED
    BY <1>6, <1>7 DEF Serial

\* Until two calls overlap, the list of a queue is exact at every access.
THEOREM SerialInvariant == Spec => []SerialInv
  <1>1. Init => SerialInv
    BY InitInv, InitSerial DEF SerialInv
  <1>2. SerialInv /\ [Next]_vars => SerialInv'
    <2> SUFFICES ASSUME SerialInv, [Next]_vars PROVE SerialInv'
      OBVIOUS
    <2>0. AllocInv /\ Serial
      BY DEF SerialInv
    <2>1. CASE Next
      <3>1. AllocInv'
        BY <2>0, <2>1, AllocSteps, FreeSteps DEF Next
      <3>2. Serial'
        BY <2>0, <2>1, AllocBegins, AllocMoves, AllocEnds, FreeBegins, FreeMoves,
           FreeEnds DEF Next
      <3>3. QED
        BY <3>1, <3>2 DEF SerialInv
    <2>2. CASE UNCHANGED vars
      BY <2>0, <2>2
         DEF vars, SerialInv, AllocInv, TypeOK, IndexInBounds, Serial, Alone
    <2>3. QED
      BY <2>1, <2>2
  <1>3. QED
    BY <1>1, <1>2, PTL DEF Spec

\* As long as xsk_alloc_frame and xsk_free_frame have not run at the same time,
\* every frame of the pool is, between calls, in the list once or outside it.
THEOREM SerialCallsAreExact == Spec => []ExactUntilOverlap
  <1>1. SerialInv => ExactUntilOverlap
    <2> SUFFICES ASSUME SerialInv, ~overlapped, \A t \in Threads : call[t] = Idle
                 PROVE  /\ Listed \cup out = Frames
                        /\ Listed \cap out = {}
                        /\ Cardinality(Listed) = umem_frame_free
      BY DEF ExactUntilOverlap, PoolExact
    <2>1. Exact(umem_frame_addr, umem_frame_free, out)
      BY DEF SerialInv, Serial
    <2>2. out \subseteq Frames /\ umem_frame_free \in Nat
      BY AllocatorAssumption DEF SerialInv, AllocInv, TypeOK
    <2>3. Listed = Frames \ out
      BY <2>1 DEF Exact, Listed
    <2>4. Cardinality(Listed) = umem_frame_free
      BY <2>1, <2>2, ExactCardinality DEF Listed
    <2>5. QED
      BY <2>2, <2>3, <2>4
  <1>2. QED
    BY <1>1, SerialInvariant, PTL

-----------------------------------------------------------------------------
(* Until two calls overlap: a stack *)

Slots == Frames \cup {INVALID}

LEMMA IdleStack ==
    ASSUME NEW calls, NEW a, NEW n, \A t \in Threads : calls[t] = Idle
    PROVE  StackOf(calls, a, n) = Listing(a, n)
  BY DEF StackOf

LEMMA BusyStack ==
    ASSUME NEW calls, NEW a, NEW n, NEW t \in Threads, calls[t] # Idle,
           \A u \in Threads \ {t} : calls[u] = Idle
    PROVE  StackOf(calls, a, n) = During(calls[t], a)
  <1> DEFINE u == CHOOSE x \in Threads : calls[x] # Idle
  <1>1. u \in Threads /\ calls[u] # Idle
    OBVIOUS
  <1>2. u = t
    BY <1>1
  <1>3. QED
    BY <1>2 DEF StackOf

\* A frame on top of a list is appended to it, and off the top leaves it.
LEMMA ToppedIsAppended ==
    ASSUME NEW a \in [Frames -> Slots], NEW n \in Nat, n <= NumFrames, NEW f \in Slots
    PROVE  /\ Len(Listing(a, n)) = n
           /\ Topped(a, n, f) = Append(Listing(a, n), f)
           /\ Topped(a, n, f) # <<>>
           /\ Topped(a, n, f)[Len(Topped(a, n, f))] = f
           /\ SubSeq(Topped(a, n, f), 1, Len(Topped(a, n, f)) - 1) = Listing(a, n)
  <1> DEFINE L == Listing(a, n)
             T == Topped(a, n, f)
  <1>0. NumFrames \in Nat
    BY AllocatorAssumption
  <1>1. \A i \in 1 .. n : a[i - 1] \in Slots
    BY <1>0 DEF Frames
  <1>2. L \in Seq(Slots) /\ Len(L) = n /\ \A i \in 1 .. n : L[i] = a[i - 1]
    <2>1. L = [i \in 1 .. n |-> a[i - 1]]
      BY DEF Listing
    <2> HIDE DEF L
    <2>2. QED
      BY <1>1, <2>1
  <1>3. \A i \in 1 .. n + 1 : (IF i = n + 1 THEN f ELSE a[i - 1]) \in Slots
    BY <1>1
  <1>4. T \in Seq(Slots) /\ Len(T) = n + 1
        /\ \A i \in 1 .. n + 1 : T[i] = IF i = n + 1 THEN f ELSE a[i - 1]
    <2>1. T = [i \in 1 .. n + 1 |-> IF i = n + 1 THEN f ELSE a[i - 1]]
      BY DEF Topped
    <2> HIDE DEF T
    <2>2. QED
      BY <1>3, <2>1
  <1> HIDE DEF L, T
  <1>5. T = Append(L, f)
    BY <1>2, <1>4
  <1>6. SubSeq(T, 1, n) = L
    BY <1>2, <1>4
  <1>7. T # <<>> /\ T[n + 1] = f
    BY <1>4
  <1>8. QED
    BY <1>2, <1>4, <1>5, <1>6, <1>7 DEF L, T

\* Until two calls overlap no step of another thread comes between two steps of a call,
\* and a call that begins finds nobody at work.
LEMMA AloneAtWork ==
    ASSUME SerialInv, NEW t \in Threads, ~overlapped, call[t].op \in {"alloc", "free"}
    PROVE  /\ Stack = During(call[t], umem_frame_addr)
           /\ \A u \in Threads \ {t} : call[u] = Idle
  <1>1. Alone(t)
    BY DEF SerialInv, Serial
  <1>2. call[t] # Idle
    BY DEF Idle
  <1>3. QED
    BY <1>1, <1>2, BusyStack DEF Alone, Stack

\* After a step in its call thread t is still alone at work.
LEMMA StillAtWork ==
    ASSUME NEW t \in Threads, call'[t].op \in {"alloc", "free"},
           \A u \in Threads \ {t} : call'[u] = Idle
    PROVE  Stack' = During(call'[t], umem_frame_addr')
  <1>1. call'[t] # Idle
    BY DEF Idle
  <1>2. QED
    BY <1>1, BusyStack DEF Stack

\* A call that begins alone finds the listed slots as the stack.
LEMMA BeginsAlone ==
    ASSUME SerialInv, NEW t \in Threads, Begins(t), ~overlapped'
    PROVE  /\ Stack = Listing(umem_frame_addr, umem_frame_free)
           /\ \A u \in Threads \ {t} : call[u] = Idle
  <1>1. Alone(t) /\ call[t] = Idle
    BY BeginsExact DEF Begins, SerialInv
  <1>2. \A u \in Threads : call[u] = Idle
    BY <1>1 DEF Alone
  <1>3. QED
    BY <1>2, IdleStack DEF Stack

\* The last listed slot is the top frame of the stack.
LEMMA ListingIsTopped ==
    ASSUME NEW a, NEW n \in Nat
    PROVE  Topped(a, n, a[n]) = Listing(a, n + 1)
  <1>1. \A i \in 1 .. n + 1 : (IF i = n + 1 THEN a[n] ELSE a[i - 1]) = a[i - 1]
    OBVIOUS
  <1>2. QED
    BY <1>1 DEF Topped, Listing

\* A write to a slot that is not below the top leaves the stack alone.
LEMMA SlotPastTheTop ==
    ASSUME NEW a, NEW b, NEW n \in Nat, NEW f, \A i \in 0 .. n - 1 : b[i] = a[i]
    PROVE  Topped(b, n, f) = Topped(a, n, f)
  <1>1. \A i \in 1 .. n + 1 : i = n + 1 \/ i - 1 \in 0 .. n - 1
    OBVIOUS
  <1>2. \A i \in 1 .. n + 1 : (IF i = n + 1 THEN f ELSE b[i - 1])
                                = (IF i = n + 1 THEN f ELSE a[i - 1])
    BY <1>1
  <1>3. QED
    BY <1>2 DEF Topped

\* Until two calls overlap, the accesses of an xsk_alloc_frame before it returns
\* leave the stack as it is.
LEMMA AllocStutters ==
    ASSUME SerialInv, ~overlapped', NEW t \in Threads,
           \/ AllocEmpty(t) \/ AllocLoad(t)
           \/ AllocCount(t) \/ AllocRead(t) \/ AllocClear(t)
    PROVE  UNCHANGED <<Stack, out, overlapped>>
  <1> DEFINE a == umem_frame_addr
             k == call[t].cnt
  <1>0. /\ AllocInv /\ Serial
        /\ call[t] \in Ops /\ a \in [Frames -> Slots] /\ NumFrames \in Nat
        /\ umem_frame_free \in Nat /\ call \in [Threads -> Ops]
        /\ overlapped \in BOOLEAN
    BY CallFacts DEF SerialInv, AllocInv, TypeOK, Slots
  <1>1. CASE AllocEmpty(t) \/ AllocLoad(t)
    <2>1. /\ Begins(t) /\ a' = a /\ out' = out
          /\ umem_frame_free' = umem_frame_free
      BY <1>1 DEF AllocEmpty, AllocLoad
    <2>2. /\ Stack = Listing(a, umem_frame_free)
          /\ \A u \in Threads \ {t} : call[u] = Idle
      BY <2>1, BeginsAlone
    <2>3. overlapped' = overlapped
      <3>1. Alone(t) /\ overlapped' = (overlapped \/ ~Alone(t))
        BY <2>1, <2>2 DEF Begins, Alone
      <3>2. overlapped = TRUE \/ overlapped = FALSE
        BY <1>0
      <3>3. QED
        BY <3>1, <3>2, Zenon
    <2>4. CASE AllocEmpty(t)
      BY <2>1, <2>3, <2>4 DEF AllocEmpty, Stack
    <2>5. CASE AllocLoad(t)
      <3> DEFINE c == [op |-> "alloc", cnt |-> umem_frame_free,
                       frame |-> INVALID, todo |-> {"count", "read", "clear"}]
      <3>1. call' = [call EXCEPT ![t] = c] /\ umem_frame_free > 0
        BY <2>5 DEF AllocLoad
      <3>2. c.op = "alloc" /\ c.op \in {"alloc", "free"}
            /\ c.cnt = umem_frame_free /\ c.todo = {"count", "read", "clear"}
        OBVIOUS
      <3> HIDE DEF c
      <3>3. Stack' = During(c, umem_frame_addr')
        <4>1. call'[t] = c /\ \A u \in Threads \ {t} : call'[u] = Idle
          BY <1>0, <2>2, <3>1
        <4>2. QED
          BY <3>2, <4>1, StillAtWork
      <3>4. During(c, a) = Topped(a, umem_frame_free - 1, a[umem_frame_free - 1])
        BY <3>2 DEF During, Taken
      <3>5. umem_frame_free - 1 \in Nat /\ (umem_frame_free - 1) + 1 = umem_frame_free
        BY <1>0, <3>1
      <3>6. Stack' = Stack
        BY <2>1, <2>2, <3>3, <3>4, <3>5, ListingIsTopped
      <3>7. QED
        BY <2>1, <2>3, <3>6
    <2>6. QED
      BY <1>1, <2>4, <2>5
  <1>2. ASSUME AllocCount(t) \/ AllocRead(t) \/ AllocClear(t)
        PROVE  UNCHANGED <<Stack, out, overlapped>>
    <2>1. call[t].op = "alloc" /\ overlapped' = overlapped /\ out' = out
      BY <1>2 DEF AllocCount, AllocRead, AllocClear
    <2>2. /\ Stack = During(call[t], a)
          /\ \A u \in Threads \ {t} : call[u] = Idle
      BY <2>1, AloneAtWork
    <2>3. During(call[t], a) = Topped(a, k - 1, Taken(call[t], a))
      BY <2>1 DEF During
    <2>4. CASE AllocCount(t)
      <3> DEFINE c == [call[t] EXCEPT !.todo = @ \ {"count"}]
      <3>1. call' = [call EXCEPT ![t] = c] /\ a' = a
        BY <2>4 DEF AllocCount
      <3>2. c.op = "alloc" /\ c.op \in {"alloc", "free"}
            /\ c.cnt = k /\ c.frame = call[t].frame
            /\ c.todo = call[t].todo \ {"count"}
        BY <1>0, <2>1 DEF Ops
      <3> HIDE DEF c
      <3>3. Stack' = During(c, umem_frame_addr')
        <4>1. call'[t] = c /\ \A u \in Threads \ {t} : call'[u] = Idle
          BY <1>0, <2>2, <3>1
        <4>2. QED
          BY <3>2, <4>1, StillAtWork
      <3>4. During(c, a) = Topped(a, k - 1, Taken(call[t], a))
        BY <3>2 DEF During, Taken
      <3>5. QED
        BY <2>1, <2>2, <2>3, <3>1, <3>3, <3>4
    <2>5. CASE AllocRead(t)
      <3> DEFINE c == [call[t] EXCEPT !.todo = @ \ {"read"}, !.frame = a[k - 1]]
      <3>1. call' = [call EXCEPT ![t] = c] /\ a' = a /\ "read" \in call[t].todo
        BY <2>5 DEF AllocRead
      <3>2. c.op = "alloc" /\ c.op \in {"alloc", "free"}
            /\ c.cnt = k /\ c.frame = a[k - 1]
            /\ c.todo = call[t].todo \ {"read"}
        BY <1>0, <2>1 DEF Ops
      <3> HIDE DEF c
      <3>3. Stack' = During(c, umem_frame_addr')
        <4>1. call'[t] = c /\ \A u \in Threads \ {t} : call'[u] = Idle
          BY <1>0, <2>2, <3>1
        <4>2. QED
          BY <3>2, <4>1, StillAtWork
      <3>4. During(c, a) = Topped(a, k - 1, Taken(call[t], a))
        BY <3>1, <3>2 DEF During, Taken
      <3>5. QED
        BY <2>1, <2>2, <2>3, <3>1, <3>3, <3>4
    <2>6. CASE AllocClear(t)
      <3> DEFINE c == [call[t] EXCEPT !.todo = @ \ {"clear"}]
                 b == [a EXCEPT ![k - 1] = INVALID]
      <3>1. call' = [call EXCEPT ![t] = c] /\ a' = b /\ "read" \notin call[t].todo
        BY <2>6 DEF AllocClear
      <3>2. c.op = "alloc" /\ c.op \in {"alloc", "free"}
            /\ c.cnt = k /\ c.frame = call[t].frame
            /\ c.todo = call[t].todo \ {"clear"}
        BY <1>0, <2>1 DEF Ops
      <3> HIDE DEF c
      <3>3. Stack' = During(c, umem_frame_addr')
        <4>1. call'[t] = c /\ \A u \in Threads \ {t} : call'[u] = Idle
          BY <1>0, <2>2, <3>1
        <4>2. QED
          BY <3>2, <4>1, StillAtWork
      <3>4. During(c, b) = Topped(b, k - 1, call[t].frame)
        BY <3>1, <3>2 DEF During, Taken
      <3>5. Taken(call[t], a) = call[t].frame
        BY <3>1 DEF Taken
      <3>6. k - 1 \in Nat /\ \A i \in 0 .. (k - 1) - 1 : b[i] = a[i]
        <4>1. k - 1 \in Frames /\ k - 1 \in Nat
          BY <2>1, CallFacts, <1>0 DEF Frames
        <4>2. \A i \in 0 .. (k - 1) - 1 : i \in Frames /\ i # k - 1
          BY <1>0, <4>1 DEF Frames
        <4>3. QED
          BY <1>0, <4>1, <4>2
      <3> HIDE DEF k, a, b
      <3>7. Topped(b, k - 1, call[t].frame) = Topped(a, k - 1, call[t].frame)
        BY <3>6, SlotPastTheTop
      <3>8. QED
        BY <2>1, <2>2, <2>3, <3>1, <3>3, <3>4, <3>5, <3>7 DEF k, a, b
    <2>7. QED
      BY <1>2, <2>4, <2>5, <2>6
  <1>3. QED
    BY <1>1, <1>2

\* The return of an xsk_alloc_frame takes the top frame of the stack.
LEMMA AllocTakes ==
    ASSUME SerialInv, ~overlapped', NEW t \in Threads, AllocReturn(t)
    PROVE  Pool!Take
  <1> DEFINE a == umem_frame_addr
             k == call[t].cnt
             f == call[t].frame
  <1>1. /\ call[t].op = "alloc" /\ call[t].todo = {}
        /\ out' = out \cup ({f} \ {INVALID})
        /\ call' = [call EXCEPT ![t] = Idle]
        /\ UNCHANGED <<a, umem_frame_free, overlapped>>
    BY DEF AllocReturn
  <1>2. /\ AllocInv /\ Serial /\ ~overlapped
        /\ a \in [Frames -> Slots] /\ call \in [Threads -> Ops] /\ NumFrames \in Nat
    BY <1>1, AllocatorAssumption DEF SerialInv, AllocInv, TypeOK, Slots
  <1>3. Allocating(call[t], a, umem_frame_free, out) /\ k \in 1 .. NumFrames
    BY <1>1, <1>2, AllocatingFacts
  <1>4. Taken(call[t], a) = f
    BY <1>1 DEF Taken
  <1>5. umem_frame_free = k - 1 /\ f \in Frames
    BY <1>1, <1>3, <1>4 DEF Allocating
  <1>6. out' = out \cup {f}
    BY <1>1, <1>5 DEF Frames, INVALID
  <1>7. /\ Stack = During(call[t], a)
        /\ \A u \in Threads \ {t} : call[u] = Idle
    BY <1>1, <1>2, AloneAtWork
  <1>8. Stack = Topped(a, k - 1, f)
    BY <1>1, <1>4, <1>7 DEF During
  <1>9. Stack' = Listing(a, k - 1)
    <2>1. \A u \in Threads : call'[u] = Idle
      BY <1>1, <1>2, <1>7
    <2>2. Stack' = Listing(a', umem_frame_free')
      BY <2>1, IdleStack DEF Stack
    <2>3. a' = a /\ umem_frame_free' = k - 1
      BY <1>1, <1>5
    <2>4. QED
      BY <2>2, <2>3
  <1>10. k - 1 \in Nat /\ k - 1 <= NumFrames /\ f \in Slots
    BY <1>2, <1>3, <1>5 DEF Slots
  <1> HIDE DEF a, k, f
  <1>11. /\ Stack # <<>>
         /\ Stack[Len(Stack)] = f
         /\ SubSeq(Stack, 1, Len(Stack) - 1) = Stack'
    BY <1>2, <1>8, <1>9, <1>10, ToppedIsAppended
  <1>12. QED
    BY <1>1, <1>6, <1>11 DEF Pool!Take

\* The load of an xsk_free_frame puts the frame back on top: there is room for it.
LEMMA FreeGives ==
    ASSUME SerialInv, ~overlapped', NEW t \in Threads, NEW f \in out,
           FreeDropped(t, f) \/ FreeLoad(t, f)
    PROVE  Pool!Give(f)
  <1> DEFINE a == umem_frame_addr
             n == umem_frame_free
             c == [op |-> "free", cnt |-> n, frame |-> f, todo |-> {"count", "store"}]
  <1>0. /\ AllocInv /\ Serial
        /\ a \in [Frames -> Slots] /\ call \in [Threads -> Ops] /\ NumFrames \in Nat
        /\ n \in 0 .. NumFrames /\ f \in Frames /\ overlapped \in BOOLEAN
    BY AllocatorAssumption DEF SerialInv, AllocInv, TypeOK, Slots
  <1>1. Begins(t) /\ out' = out \ {f}
    BY DEF FreeDropped, FreeLoad
  <1>2. ~overlapped /\ Alone(t) /\ Exact(a, n, out)
    BY <1>0, <1>1, BeginsExact
  <1>3. n # NumFrames
    BY <1>0, <1>2, FullListIsAll
  <1>4. FreeLoad(t, f)
    BY <1>0, <1>3 DEF FreeDropped
  <1>5. call' = [call EXCEPT ![t] = c] /\ a' = a
    BY <1>4 DEF FreeLoad
  <1>6. /\ Stack = Listing(a, n)
        /\ \A u \in Threads \ {t} : call[u] = Idle
    BY <1>1, BeginsAlone
  <1>7. overlapped' = overlapped
    <2>1. overlapped' = (overlapped \/ ~Alone(t))
      BY <1>1 DEF Begins
    <2>2. overlapped = TRUE \/ overlapped = FALSE
      BY <1>0
    <2>3. QED
      BY <1>2, <2>1, <2>2, Zenon
  <1>8. c.op = "free" /\ c.op \in {"alloc", "free"} /\ c.cnt = n /\ c.frame = f
    OBVIOUS
  <1> HIDE DEF c
  <1>9. Stack' = During(c, umem_frame_addr')
    <2>1. call'[t] = c /\ \A u \in Threads \ {t} : call'[u] = Idle
      BY <1>0, <1>5, <1>6
    <2>2. QED
      BY <1>8, <2>1, StillAtWork
  <1>10. Stack' = Topped(a, n, f)
    BY <1>5, <1>8, <1>9 DEF During
  <1>11. n \in Nat /\ n < NumFrames /\ f \in Slots
    BY <1>0, <1>3 DEF Slots
  <1> HIDE DEF a, n
  <1>12. Len(Stack) < NumFrames /\ Stack' = Append(Stack, f)
    BY <1>0, <1>6, <1>10, <1>11, ToppedIsAppended
  <1>13. QED
    BY <1>1, <1>7, <1>12 DEF Pool!Give

\* The other accesses of an xsk_free_frame leave the stack as it is.
LEMMA FreeStutters ==
    ASSUME SerialInv, ~overlapped', NEW t \in Threads,
           FreeCount(t) \/ FreeStore(t) \/ FreeReturn(t)
    PROVE  UNCHANGED <<Stack, out, overlapped>>
  <1> DEFINE a == umem_frame_addr
             k == call[t].cnt
             f == call[t].frame
  <1>1. call[t].op = "free" /\ overlapped' = overlapped /\ out' = out
    BY DEF FreeCount, FreeStore, FreeReturn
  <1>2. /\ AllocInv /\ Serial /\ ~overlapped
        /\ call[t] \in Ops /\ a \in [Frames -> Slots] /\ call \in [Threads -> Ops]
        /\ NumFrames \in Nat /\ k \in Frames /\ k \in Nat
    BY <1>1, CallFacts DEF SerialInv, AllocInv, TypeOK, Slots, Frames
  <1>3. /\ Stack = During(call[t], a)
        /\ \A u \in Threads \ {t} : call[u] = Idle
    BY <1>1, <1>2, AloneAtWork
  <1>4. Stack = Topped(a, k, f)
    BY <1>1, <1>3 DEF During
  <1>5. CASE FreeCount(t)
    <2> DEFINE c == [call[t] EXCEPT !.todo = @ \ {"count"}]
    <2>1. call' = [call EXCEPT ![t] = c] /\ a' = a
      BY <1>5 DEF FreeCount
    <2>2. c.op = "free" /\ c.op \in {"alloc", "free"} /\ c.cnt = k /\ c.frame = f
      BY <1>1, <1>2 DEF Ops
    <2> HIDE DEF c
    <2>3. Stack' = During(c, umem_frame_addr')
      <3>1. call'[t] = c /\ \A u \in Threads \ {t} : call'[u] = Idle
        BY <1>2, <1>3, <2>1
      <3>2. QED
        BY <2>2, <3>1, StillAtWork
    <2>4. Stack' = Topped(a, k, f)
      BY <2>1, <2>2, <2>3 DEF During
    <2>5. QED
      BY <1>1, <1>4, <2>4
  <1>6. CASE FreeStore(t)
    <2> DEFINE c == [call[t] EXCEPT !.todo = @ \ {"store"}]
               b == [a EXCEPT ![k] = f]
    <2>1. call' = [call EXCEPT ![t] = c] /\ a' = b
      BY <1>6 DEF FreeStore
    <2>2. c.op = "free" /\ c.op \in {"alloc", "free"} /\ c.cnt = k /\ c.frame = f
      BY <1>1, <1>2 DEF Ops
    <2> HIDE DEF c
    <2>3. Stack' = During(c, umem_frame_addr')
      <3>1. call'[t] = c /\ \A u \in Threads \ {t} : call'[u] = Idle
        BY <1>2, <1>3, <2>1
      <3>2. QED
        BY <2>2, <3>1, StillAtWork
    <2>4. \A i \in 0 .. k - 1 : b[i] = a[i]
      <3>1. \A i \in 0 .. k - 1 : i \in Frames /\ i # k
        BY <1>2 DEF Frames
      <3>2. QED
        BY <1>2, <3>1
    <2> HIDE DEF a, b, k, f
    <2>5. Topped(b, k, f) = Topped(a, k, f)
      BY <1>2, <2>4, SlotPastTheTop
    <2>6. Stack' = Topped(b, k, f)
      BY <2>1, <2>2, <2>3 DEF During, a
    <2>7. QED
      BY <1>1, <1>4, <2>5, <2>6
  <1>7. CASE FreeReturn(t)
    <2>1. /\ call[t].todo = {} /\ call' = [call EXCEPT ![t] = Idle]
          /\ a' = a /\ umem_frame_free' = umem_frame_free
      BY <1>7 DEF FreeReturn
    <2>2. Freeing(call[t], a, umem_frame_free, out)
      BY <1>1, <1>2, FreeingFacts
    <2>3. umem_frame_free = k + 1 /\ a[k] = f
      BY <2>1, <2>2 DEF Freeing
    <2>4. \A u \in Threads : call'[u] = Idle
      BY <1>2, <1>3, <2>1
    <2>5. Stack' = Listing(a', umem_frame_free')
      BY <2>4, IdleStack DEF Stack
    <2>6. Stack' = Listing(a, k + 1)
      BY <2>1, <2>3, <2>5
    <2>7. Topped(a, k, a[k]) = Listing(a, k + 1)
      BY <1>2, ListingIsTopped
    <2>8. QED
      BY <1>1, <1>4, <2>3, <2>6, <2>7
  <1>8. QED
    BY <1>5, <1>6, <1>7

LEMMA InitStack == Init => Pool!Init
  <1> SUFFICES ASSUME Init PROVE Pool!Init
    OBVIOUS
  <1> DEFINE m == NumFrames - Preloaded
  <1>1. NumFrames \in Nat /\ m \in 0 .. NumFrames
    BY AllocatorAssumption
  <1>2. /\ umem_frame_free = m
        /\ umem_frame_addr = [i \in Frames |-> IF i < m THEN i ELSE INVALID]
        /\ out = {i \in Frames : i >= m}
        /\ \A t \in Threads : call[t] = Idle
        /\ overlapped = FALSE
    BY DEF Init
  <1>3. Stack = Listing(umem_frame_addr, m)
    BY <1>2, IdleStack DEF Stack
  <1> HIDE DEF m
  <1>4. \A i \in 1 .. m : i - 1 \in Frames /\ i - 1 < m
    BY <1>1 DEF Frames
  <1>5. \A i \in 1 .. m : umem_frame_addr[i - 1] = i - 1
    BY <1>2, <1>4
  <1>6. Stack = [i \in 1 .. m |-> i - 1]
    BY <1>3, <1>5 DEF Listing
  <1>7. out = m .. NumFrames - 1
    BY <1>1, <1>2 DEF Frames
  <1>8. QED
    BY <1>2, <1>6, <1>7 DEF Pool!Init, m

\* As long as xsk_alloc_frame and xsk_free_frame have not run at the same time,
\* each call is one atomic step of a stack of frames, for every pool and in
\* whatever order the compiler has put its accesses: a call takes the frame
\* given back last, and a frame given back always finds room.
THEOREM CallsAreAtomic == Spec => ImplementsStack
  <1>1. SerialInv /\ [Next]_vars => [Pool!Next]_(Pool!vars)
    <2> SUFFICES ASSUME SerialInv, [Next]_vars PROVE [Pool!Next]_(Pool!vars)
      OBVIOUS
    <2>1. CASE UNCHANGED vars
      <3>1. UNCHANGED <<Stack, out, overlapped>>
        BY <2>1 DEF vars, Stack
      <3>2. QED
        BY <3>1 DEF Pool!vars
    <2>2. CASE Next /\ overlapped'
      <3>1. overlapped' = TRUE
        <4>1. overlapped' \in BOOLEAN
          BY <2>2, AllocSteps, FreeSteps DEF SerialInv, Next, AllocInv, TypeOK
        <4>2. QED
          BY <2>2, <4>1
      <3>2. QED
        BY <3>1 DEF Pool!Next, Pool!Misuse
    <2>3. CASE Next /\ ~overlapped'
      <3> PICK t \in Threads :
            \/ AllocEmpty(t) \/ AllocLoad(t)
            \/ AllocCount(t) \/ AllocRead(t) \/ AllocClear(t) \/ AllocReturn(t)
            \/ \E f \in out : FreeDropped(t, f) \/ FreeLoad(t, f)
            \/ FreeCount(t) \/ FreeStore(t) \/ FreeReturn(t)
        BY <2>3 DEF Next
      <3>1. CASE \/ AllocEmpty(t) \/ AllocLoad(t)
                 \/ AllocCount(t) \/ AllocRead(t) \/ AllocClear(t)
        BY <2>3, <3>1, AllocStutters DEF Pool!vars
      <3>2. CASE AllocReturn(t)
        BY <2>3, <3>2, AllocTakes DEF Pool!Next
      <3>3. CASE \E f \in out : FreeDropped(t, f) \/ FreeLoad(t, f)
        BY <2>3, <3>3, FreeGives DEF Pool!Next
      <3>4. CASE FreeCount(t) \/ FreeStore(t) \/ FreeReturn(t)
        BY <2>3, <3>4, FreeStutters DEF Pool!vars
      <3>5. QED
        BY <3>1, <3>2, <3>3, <3>4
    <2>4. QED
      BY <2>1, <2>2, <2>3
  <1>2. QED
    BY InitStack, <1>1, SerialInvariant, PTL DEF Spec, ImplementsStack, Pool!Spec
==============================================================================
