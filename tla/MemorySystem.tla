---------------------------- MODULE MemorySystem ----------------------------
(***************************************************************************)
(* Memory (src/src/cache/memory.cpp) between the caches and what answers   *)
(* them: the devices, each with one request slot, and a DRAM model, either *)
(* DRAMsim3 or Ramulator as the build says.                                *)
(*                                                                         *)
(* A requester is a cache, named by its callback id. It has at most one    *)
(* request out (DataSide shows it for the DCache, FetchSide for the        *)
(* ICache). A miss is sent with the command of the access that missed:     *)
(* the ICache's is always READ_SHARED, the DCache's is WRITE_BACK for a    *)
(* store, an AMO or an SC, so the DCache is a writer too. There is one.    *)
(***************************************************************************)
EXTENDS Naturals, Sequences, FiniteSets

CONSTANTS Requesters,     \* callback ids
          Writers,        \* those whose misses may carry WRITE_BACK
          UartDelay,      \* Uart::delay
          DramQueueSize   \* dram_queue_size

ASSUME MemoryAssumption ==
  /\ IsFiniteSet(Requesters) /\ UartDelay \in Nat
  /\ Writers \subseteq Requesters /\ \A r, s \in Writers : r = s
  /\ DramQueueSize \in Nat \ {0} /\ DramQueueSize >= Cardinality(Requesters)

VARIABLES
  backend,     \* the DRAM model of the build
  phase,       \* where EMU::run is in its cycle
  waiting,     \* the requesters whose last request has not been called back
  idle,        \* device_idle_queue, a sequence of DeviceReqs
  meta,        \* the requester that a DeviceReq or a DRAMMeta names
  slot,        \* the DeviceReq that a device holds
  uart,        \* Uart: req_valid, resp_valid, current_delay
  ring,        \* dram_read_queue: head and tail; dram_idle_queue: its length
  inDram,      \* the number of each requester's reads in the DRAM model
  write        \* write_valid and write_callback_id; with DRAMsim3, the write in the DRAM model

requestVars == << waiting, idle, meta, slot, uart, ring, inDram, write >>
memoryVars == << backend, phase, requestVars >>

Devices == << "uart", "plic", "clint" >>
DeviceNames == {Devices[i] : i \in 1 .. Len(Devices)}
DeviceReqs == 1 .. Len(Devices)
NoRequest == 0
None == "none"

-----------------------------------------------------------------------------
(* Memory::memoryRead and Memory::memoryWrite *)

Idle(d) == IF d = "uart" THEN ~uart.req_valid /\ ~uart.resp_valid ELSE slot[d] = NoRequest

\* Fault for the mutation run: a device takes a request over one it holds,
\* as SimpleUart::addRequest does.
TakesAlways(d) == TRUE

\* Device::addRequest succeeds
Takes(d) == Idle(d)

\* A read and a write differ in is_write only, which no device looks at.
RequestDevice(r, d) ==
  /\ idle # << >> /\ Takes(d)
  /\ meta' = [meta EXCEPT ![Head(idle)] = r]
  /\ slot' = [slot EXCEPT ![d] = Head(idle)]
  /\ uart' = IF d = "uart" THEN [uart EXCEPT !.req_valid = TRUE, !.current_delay = UartDelay] ELSE uart
  /\ idle' = Tail(idle)
  /\ waiting' = waiting \cup {r}
  /\ UNCHANGED << ring, inDram, write >>

\* The DRAMMeta of ring position i is numbered after the DeviceReqs.
RingMeta(i) == Len(Devices) + 1 + i
\* Fault for the mutation run: the list is not circular.
NextUnbounded(i) == i + 1

NextInRing(i) == (i + 1) % DramQueueSize

ReadDram(r) ==
  /\ backend = "dramsim" => ring.free > 0
  /\ inDram' = [inDram EXCEPT ![r] = @ + 1]
  /\ waiting' = waiting \cup {r}
  /\ IF backend = "dramsim"
     THEN ring' = [ring EXCEPT !.free = @ - 1] /\ UNCHANGED meta
     ELSE /\ meta' = [meta EXCEPT ![RingMeta(ring.tail)] = r]
          /\ ring' = [ring EXCEPT !.tail = NextInRing(@)]
  /\ UNCHANGED << idle, slot, uart, write >>

\* DRAMsim3 takes a write from the same queue of requests as a read; Ramulator
\* takes no meta for it, and Memory answers from its one slot for writes, which
\* it fills without a look at what is in it.
WriteDram(r) ==
  /\ r \in Writers
  /\ backend = "dramsim" => ring.free > 0
  /\ ring' = IF backend = "dramsim" THEN [ring EXCEPT !.free = @ - 1] ELSE ring
  /\ write' = [valid |-> TRUE, callback_id |-> r]
  /\ waiting' = waiting \cup {r}
  /\ UNCHANGED << idle, meta, slot, uart, inDram >>

\* The first idle DeviceReq is filled in before the device refuses.
RefuseDevice(r, d) ==
  /\ idle # << >> /\ ~Takes(d)
  /\ meta' = [meta EXCEPT ![Head(idle)] = r]
  /\ UNCHANGED << waiting, idle, slot, uart, ring, inDram, write >>

\* A cache in LOOKUP with a miss. Refused for want of an idle request or by the
\* DRAM model, it changes nothing; the cache asks again in its next tick.
Lookup(r) ==
  /\ phase = "caches" /\ r \notin waiting
  /\ \/ \E d \in DeviceNames : RequestDevice(r, d) \/ RefuseDevice(r, d)
     \/ ReadDram(r) \/ WriteDram(r)
  /\ UNCHANGED << backend, phase >>

-----------------------------------------------------------------------------
(* Memory::tick: reads, then the write, then the devices in their order. *)

\* Fault for the mutation run: the newest entry is popped.
AnswersNewest(r) == meta[RingMeta((ring.tail + DramQueueSize - 1) % DramQueueSize)]

\* DRAMsim3 hands the request back with its meta; Ramulator's callback pops the
\* oldest meta, whichever read has completed: a cache may be called back for
\* the other one's read, and have its own still in the DRAM model.
Answered(r) == IF backend = "dramsim" THEN r ELSE meta[RingMeta(ring.head)]

\* DRAMsim3 hands over one response a cycle, Ramulator as many as it likes.
CompleteRead(r) ==
  /\ phase = "dram" /\ inDram[r] > 0
  /\ phase' = IF backend = "dramsim" THEN "writes" ELSE "dram"
  /\ inDram' = [inDram EXCEPT ![r] = @ - 1]
  /\ waiting' = waiting \ {Answered(r)}
  /\ ring' = IF backend = "dramsim" THEN [ring EXCEPT !.free = @ + 1]
             ELSE [ring EXCEPT !.head = NextInRing(@)]
  /\ UNCHANGED << backend, idle, meta, slot, uart, write >>

ReadsDone ==
  /\ phase = "dram" /\ phase' = "writes"
  /\ UNCHANGED << backend, requestVars >>

CompleteWrite ==
  /\ phase = "writes" /\ phase' = Devices[1]
  /\ write.valid /\ write' = [write EXCEPT !.valid = FALSE]
  /\ waiting' = waiting \ {write.callback_id}
  /\ ring' = IF backend = "dramsim" THEN [ring EXCEPT !.free = @ + 1] ELSE ring
  /\ UNCHANGED << backend, idle, meta, slot, uart, inDram >>

\* With Ramulator a write is answered in the first tick after it was taken.
WritesDone ==
  /\ phase = "writes" /\ phase' = Devices[1]
  /\ backend = "ramulator" => ~write.valid
  /\ UNCHANGED << backend, requestVars >>

UartAfterTick ==
  IF ~uart.req_valid THEN uart
  ELSE IF uart.current_delay = 0 THEN [uart EXCEPT !.req_valid = FALSE, !.resp_valid = TRUE]
  ELSE [uart EXCEPT !.current_delay = @ - 1]

\* checkResponse after tick
Responds(d) == IF d = "uart" THEN UartAfterTick.resp_valid ELSE slot[d] # NoRequest

NextPhase(d) ==
  LET i == CHOOSE i \in 1 .. Len(Devices) : Devices[i] = d
  IN  IF i = Len(Devices) THEN "caches" ELSE Devices[i + 1]

\* Fault for the mutation run: the DeviceReq is not given back.
Kept(q, req) == q

GivenBack(q, req) == Append(q, req)

DeviceTick(d) ==
  /\ phase = d /\ phase' = NextPhase(d)
  /\ IF Responds(d)
     THEN /\ waiting' = waiting \ {meta[slot[d]]}
          /\ idle' = GivenBack(idle, slot[d])
          /\ slot' = [slot EXCEPT ![d] = NoRequest]
     ELSE UNCHANGED << waiting, idle, slot >>
  /\ uart' = IF d = "uart" THEN [UartAfterTick EXCEPT !.resp_valid = FALSE] ELSE uart
  /\ UNCHANGED << backend, meta, ring, inDram, write >>

CachesDone ==
  /\ phase = "caches" /\ phase' = "dram"
  /\ UNCHANGED << backend, requestVars >>

-----------------------------------------------------------------------------
MemoryInit ==
  /\ backend \in {"dramsim", "ramulator"}
  /\ phase = "dram" /\ waiting = {} /\ inDram = [r \in Requesters |-> 0]
  /\ idle = [i \in DeviceReqs |-> i]
  /\ meta = [i \in 1 .. Len(Devices) + DramQueueSize |-> None]
  /\ slot = [d \in DeviceNames |-> NoRequest]
  /\ uart = [req_valid |-> FALSE, resp_valid |-> FALSE, current_delay |-> 0]
  /\ ring = [head |-> 0, tail |-> 0, free |-> DramQueueSize]
  /\ write = [valid |-> FALSE, callback_id |-> None]

Cycle ==
  \/ ReadsDone \/ WritesDone \/ CachesDone
  \/ \E d \in DeviceNames : DeviceTick(d)

MemoryNext ==
  \/ Cycle \/ CompleteWrite
  \/ \E r \in Requesters : Lookup(r) \/ CompleteRead(r)

MemorySpec == MemoryInit /\ [][MemoryNext]_memoryVars

\* EMU::run goes on with its cycle, and the DRAM model completes what it holds,
\* if need be over many cycles.
FairMemorySpec ==
  /\ MemorySpec
  /\ WF_memoryVars(Cycle)
  /\ \A r \in Requesters : SF_memoryVars(CompleteRead(r))
  /\ SF_memoryVars(CompleteWrite)

-----------------------------------------------------------------------------
\* The reads in the DRAM model, numbered for each requester.
Reads == {p \in Requesters \X (1 .. DramQueueSize) : p[2] <= inDram[p[1]]}
InRing == Cardinality(Reads)
RingEntries == {i \in 0 .. DramQueueSize - 1 :
                  (i + DramQueueSize - ring.head) % DramQueueSize < InRing}
Held == {d \in DeviceNames : slot[d] # NoRequest}

\* The places from which r will be called back.
Answers(r) ==
  Cardinality({d \in Held : meta[slot[d]] = r})
  + (IF backend = "dramsim" THEN inDram[r]
     ELSE Cardinality({i \in RingEntries : meta[RingMeta(i)] = r}))
  + (IF write.valid /\ write.callback_id = r THEN 1 ELSE 0)

MemoryTypeOK ==
  /\ backend \in {"dramsim", "ramulator"}
  /\ phase \in {"dram", "writes", "caches"} \cup DeviceNames
  /\ waiting \subseteq Requesters /\ inDram \in [Requesters -> 0 .. DramQueueSize]
  /\ Len(idle) <= Len(Devices) /\ \A i \in 1 .. Len(idle) : idle[i] \in DeviceReqs
  /\ meta \in [1 .. Len(Devices) + DramQueueSize -> Requesters \cup {None}]
  /\ slot \in [DeviceNames -> DeviceReqs \cup {NoRequest}]
  /\ uart \in [req_valid: BOOLEAN, resp_valid: BOOLEAN, current_delay: 0 .. UartDelay]
  /\ ring \in [head: 0 .. DramQueueSize - 1, tail: 0 .. DramQueueSize - 1, free: 0 .. DramQueueSize]
  /\ write \in [valid: BOOLEAN, callback_id: Requesters \cup {None}]

(* A requester that waits will be called back exactly once and any other not
   at all, though requests pass through slots that are reused, the queue of
   DeviceReqs, one slot for writes that is filled whatever it holds and a ring
   of metas that never looks whether it is full or empty, and Ramulator's
   reads complete in any order (what `owed` of DCache and ICache stands on;
   memoryRead, memoryWrite, tick, LinkList::next and pop). *)
OneAnswerEach == \A r \in Requesters : Answers(r) = IF r \in waiting THEN 1 ELSE 0

(* Every DeviceReq is either idle or with exactly one device, so that the
   queue is never empty for good (device_idle_queue). *)
DeviceReqsConserved ==
  /\ Len(idle) + Cardinality(Held) = Cardinality(DeviceReqs)
  /\ {idle[i] : i \in 1 .. Len(idle)} \cup {slot[d] : d \in Held} = DeviceReqs

(* Every accepted request, read or write, is answered, whatever the others
   do: the DRAM model's by the callbacks and responses of Memory::tick, the
   devices' in their order, and a write of Ramulator's by the write slot. *)
EveryRequestAnswered == \A r \in Requesters : r \in waiting ~> r \notin waiting

(* Towards the caches: one request of each is taken at a time, whichever of the
   devices and the DRAM model takes it, and each is called back for as long as
   nothing else (in its place, or by another's completion) calls it back. *)
Parent == INSTANCE ReadPort WITH Callers <- Requesters,
                                 out <- [r \in Requesters |-> Answers(r)]
ImplementsParent == Parent!Spec
=============================================================================
