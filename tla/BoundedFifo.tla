---------------------------- MODULE BoundedFifo ----------------------------
(***************************************************************************)
(* What the ring of spsc_ring.h promises its two callers: a FIFO queue of  *)
(* at most Capacity elements, one producer whose push either appends or    *)
(* reports "full", one consumer whose pop either takes the head or reports *)
(* "empty".  Each call takes effect in one step between its invocation     *)
(* and its return.                                                         *)
(***************************************************************************)
EXTENDS Naturals, Sequences

CONSTANTS Capacity, Values, NoValue

VARIABLES
    queue,      \* the elements pushed and not yet popped, oldest first
    offered,    \* the element of the push under way, or NoValue
    accepted,   \* what the last push returned
    popping,    \* a pop is under way
    taken       \* what the last pop returned: an element, or NoValue for "empty"

vars == <<queue, offered, accepted, popping, taken>>

Init ==
    /\ queue = <<>>
    /\ offered = NoValue
    /\ accepted = TRUE
    /\ popping = FALSE
    /\ taken = NoValue

\* The producer invokes push(v).
Offer(v) ==
    /\ offered = NoValue
    /\ offered' = v
    /\ UNCHANGED <<queue, accepted, popping, taken>>

\* The push returns true: the element is in the queue.
Accept ==
    /\ offered # NoValue
    /\ Len(queue) < Capacity
    /\ queue' = Append(queue, offered)
    /\ offered' = NoValue
    /\ accepted' = TRUE
    /\ UNCHANGED <<popping, taken>>

\* The push returns false, only when the queue is full.
Reject ==
    /\ offered # NoValue
    /\ Len(queue) = Capacity
    /\ offered' = NoValue
    /\ accepted' = FALSE
    /\ UNCHANGED <<queue, popping, taken>>

\* The consumer invokes pop().
Ask ==
    /\ ~popping
    /\ popping' = TRUE
    /\ UNCHANGED <<queue, offered, accepted, taken>>

\* The pop returns the oldest element.
Take ==
    /\ popping
    /\ queue # <<>>
    /\ taken' = Head(queue)
    /\ queue' = Tail(queue)
    /\ popping' = FALSE
    /\ UNCHANGED <<offered, accepted>>

\* The pop returns false, only when the queue is empty.
Empty ==
    /\ popping
    /\ queue = <<>>
    /\ taken' = NoValue
    /\ popping' = FALSE
    /\ UNCHANGED <<queue, offered, accepted>>

Next ==
    \/ \E v \in Values : Offer(v)
    \/ Accept
    \/ Reject
    \/ Ask
    \/ Take
    \/ Empty

Spec == Init /\ [][Next]_vars
=============================================================================
