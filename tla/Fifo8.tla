------------------------------- MODULE Fifo8 -------------------------------
(***************************************************************************)
(* The byte FIFO of src/src/device/fifo8.cpp: a circular buffer given by   *)
(* its storage, the index of its oldest byte and the number of bytes.      *)
(***************************************************************************)
EXTENDS Naturals, Sequences

CONSTANTS Capacity,   \* fifo->capacity
          FifoBytes   \* the bytes that are told apart

ASSUME CapacityAssumption == Capacity \in Nat \ {0}

VARIABLE fifo         \* a Fifo8: data, head, num

Slots == 0 .. Capacity - 1

FifoTypeOK == fifo \in [data: [Slots -> FifoBytes], head: Slots, num: 0 .. Capacity]

IsFull(f) == f.num = Capacity
IsEmpty(f) == f.num = 0

\* Storage comes from malloc: fifo8_create leaves the bytes as they are.
FifoInit == fifo \in [data: [Slots -> FifoBytes], head: {0}, num: {0}]

\* Fault for the mutation run: the write index ignores the head.
PushAtNum(f) == f.num

PushIndex(f) == (f.head + f.num) % Capacity

Push(b) ==
  /\ ~IsFull(fifo)
  /\ fifo' = [fifo EXCEPT !.data[PushIndex(fifo)] = b, !.num = @ + 1]

Pop ==
  /\ ~IsEmpty(fifo)
  /\ fifo' = [fifo EXCEPT !.head = (@ + 1) % Capacity, !.num = @ - 1]

Reset == fifo' = [fifo EXCEPT !.head = 0, !.num = 0]

\* fifo8_pop_buf hands out a contiguous piece: it ends at the end of the storage.
PopBufSize(f, max) == IF Capacity - f.head < max THEN Capacity - f.head ELSE max

PopBuf(max) ==
  /\ max \in 1 .. fifo.num
  /\ LET n == PopBufSize(fifo, max)
     IN  fifo' = [fifo EXCEPT !.head = (@ + n) % Capacity, !.num = @ - n]

\* fifo8_push_all copies the bytes in two pieces when they run over the end.
PushAll(bytes) ==
  LET start == PushIndex(fifo)
      num   == Len(bytes)
      avail == Capacity - start
      Stored(i) == IF i >= start THEN i - start + 1
                   ELSE i + avail + 1
      New(i) == IF start + num <= Capacity THEN i \in start .. start + num - 1
                ELSE i >= start \/ i < num - avail
  IN  /\ fifo.num + num <= Capacity
      /\ fifo' = [fifo EXCEPT !.data = [i \in Slots |-> IF New(i) THEN bytes[Stored(i)] ELSE @[i]],
                              !.num = @ + num]

FifoNext ==
  \/ \E b \in FifoBytes : Push(b)
  \/ Pop
  \/ Reset
  \/ \E max \in 1 .. Capacity : PopBuf(max)
  \/ \E n \in 1 .. Capacity : \E bytes \in [1 .. n -> FifoBytes] : PushAll(bytes)

FifoSpec == FifoInit /\ [][FifoNext]_fifo

\* The bytes in the FIFO, oldest first.
Contents == [i \in 1 .. fifo.num |-> fifo.data[(fifo.head + i - 1) % Capacity]]

\* What the code relies on: a bounded queue of bytes.
Queue == INSTANCE ByteQueue WITH queue <- Contents, Bound <- Capacity, QueueBytes <- FifoBytes

(* The ring is a queue: bytes leave in the order in which they came, none is
   lost or invented while the head and the pieces of push_all and pop_buf
   wrap (fifo8_push, fifo8_pop, fifo8_push_all, fifo8_pop_buf, fifo8_reset). *)
FifoIsQueue == Queue!Init /\ [][Queue!Next]_(Queue!queueVars)
=============================================================================
