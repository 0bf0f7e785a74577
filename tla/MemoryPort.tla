----------------------------- MODULE MemoryPort -----------------------------
(***************************************************************************)
(* What the EXE and MEM stages rely on when they use the DCache: a port    *)
(* that takes one access at a time, answers it by setting the flag of its  *)
(* slot, or drops it when the pipeline is redirected.  MEM consumes the    *)
(* flag.  A failing SC sets the flag of a slot without an access.          *)
(***************************************************************************)
EXTENDS Naturals, Sequences

CONSTANT Slots

VARIABLES
  queue,     \* the slots of the accepted accesses that are not answered
  done       \* per slot: answered and not yet consumed

Init == queue = <<>> /\ done = [s \in Slots |-> FALSE]

Accept(s) ==
  /\ queue = <<>>
  /\ queue' = <<s>>
  /\ UNCHANGED done

Answer ==
  /\ queue # <<>>
  /\ done' = [done EXCEPT ![Head(queue)] = TRUE]
  /\ queue' = Tail(queue)

Drop == queue' = <<>> /\ UNCHANGED done

Mark(s) == done' = [done EXCEPT ![s] = TRUE] /\ UNCHANGED queue

Consume(s) ==
  /\ done[s]
  /\ done' = [done EXCEPT ![s] = FALSE]
  /\ UNCHANGED queue

Next ==
  \/ Answer \/ Drop
  \/ \E s \in Slots : Accept(s) \/ Mark(s) \/ Consume(s)

Spec == Init /\ [][Next]_<<queue, done>>

=============================================================================
