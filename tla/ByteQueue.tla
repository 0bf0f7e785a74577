----------------------------- MODULE ByteQueue -----------------------------
(***************************************************************************)
(* What a FIFO of bytes promises: a bounded sequence that grows at its end *)
(* and shrinks at its front.                                               *)
(***************************************************************************)
EXTENDS Naturals, Sequences

CONSTANTS Bound, QueueBytes

VARIABLE queue

queueVars == queue

Init == queue = << >>

Enqueue ==
  \E n \in 1 .. Bound - Len(queue) :
    \E bytes \in [1 .. n -> QueueBytes] : queue' = queue \o bytes

Dequeue ==
  \E n \in 1 .. Len(queue) : queue' = SubSeq(queue, n + 1, Len(queue))

Clear == queue' = << >>

Next == Enqueue \/ Dequeue \/ Clear
=============================================================================
