----------------------------- MODULE MemoryProofs -----------------------------
(***************************************************************************)
(* Proofs about MemorySystem for every set of requesters, every delay of   *)
(* the UART and every DRAM queue with a place for each requester: types,   *)
(* the DeviceReqs, one answer for each request that waits, and so the      *)
(* memory's side of ReadPort.                                              *)
(*                                                                         *)
(* Nothing in LinkList looks whether the ring is full. It never is: the    *)
(* invariant has every place name a different requester that waits, so     *)
(* that a requester which does not wait leaves a place free. With          *)
(* Ramulator the names are those of the places in the window from head to  *)
(* tail; which of the reads has completed does not matter to them. Nor     *)
(* does memoryWrite look at the one slot for writes: it is empty when the  *)
(* writer asks, for what it holds would be the writer's own request.       *)
(***************************************************************************)
EXTENDS MemorySystem, FiniteSetTheorems, FunctionTheorems, SequenceTheorems, TLAPS

-----------------------------------------------------------------------------
(* The inductive invariant.                                                *)

\* A DeviceReq is in the idle queue once, or with one device.
ReqsApart ==
  /\ idle \in Seq(DeviceReqs)
  /\ \A i, j \in 1 .. Len(idle) : idle[i] = idle[j] => i = j
  /\ \A i \in 1 .. Len(idle), d \in Held : idle[i] # slot[d]
  /\ \A d, e \in Held : slot[d] = slot[e] => d = e

\* The UART's flags agree with its slot. A response does not outlive the tick.
UartAgrees == ~uart.resp_valid /\ (uart.req_valid <=> "uart" \in Held)

\* How far a place of the ring is behind its head.
Gap(i, head) == (i + DramQueueSize - head) % DramQueueSize
Behind(i) == Gap(i, ring.head)

\* How many writes the DRAM side holds.
WriteHeld == IF write.valid THEN 1 ELSE 0

\* The places that are in use end at the tail; DRAMsim3's pool has the rest.
RingBounds ==
  /\ IsFiniteSet(Reads) /\ InRing \in 0 .. DramQueueSize
  /\ backend = "ramulator" => Behind(ring.tail) = InRing % DramQueueSize
  /\ backend = "dramsim" => ring.free = DramQueueSize - InRing - WriteHeld

\* The requester named at a place of the ring.
Named(i) == meta[RingMeta(i)]

\* Who is called back by the DRAM model.
FromDram(r) ==
  IF backend = "dramsim" THEN inDram[r] > 0 ELSE \E i \in RingEntries : Named(i) = r
FromDevice(r) == \E d \in Held : meta[slot[d]] = r
FromWrite(r) == write.valid /\ write.callback_id = r

\* No two places name the same requester, and those named are those that wait.
NamesApart ==
  /\ \A d, e \in Held : meta[slot[d]] = meta[slot[e]] => d = e
  /\ backend = "ramulator" => \A i, j \in RingEntries : Named(i) = Named(j) => i = j
  /\ backend = "dramsim" => \A r \in Requesters : inDram[r] <= 1
  /\ \A r \in Requesters : ~(FromDram(r) /\ FromDevice(r))
  /\ \A r \in Requesters : FromWrite(r) => ~FromDram(r) /\ ~FromDevice(r)
WaitersNamed ==
  /\ \A r \in Requesters : r \in waiting <=> FromDram(r) \/ FromDevice(r) \/ FromWrite(r)
  /\ write.valid => write.callback_id \in Writers
  /\ \A d \in Held : meta[slot[d]] \in Requesters
  /\ backend = "ramulator" => \A i \in RingEntries : Named(i) \in Requesters

MemoryInv ==
  /\ MemoryTypeOK /\ ReqsApart /\ DeviceReqsConserved /\ UartAgrees
  /\ RingBounds /\ NamesApart /\ WaitersNamed

-----------------------------------------------------------------------------
(* The devices, and arithmetic around the ring.                            *)

(* The devices and their DeviceReqs, spelled out.                          *)
LEMMA ThreeDevices ==
  /\ Len(Devices) = 3 /\ DeviceReqs = 1 .. 3 /\ DeviceNames = {"uart", "plic", "clint"}
  /\ Devices[1] = "uart" /\ Devices[2] = "plic" /\ Devices[3] = "clint"
<1>1. Len(Devices) = 3 /\ DeviceReqs = 1 .. 3
      /\ Devices[1] = "uart" /\ Devices[2] = "plic" /\ Devices[3] = "clint"
  BY DEF Devices, DeviceReqs
<1>2. \A i \in 1 .. 3 : i = 1 \/ i = 2 \/ i = 3
  OBVIOUS
<1>3. 1 \in 1 .. 3 /\ 2 \in 1 .. 3 /\ 3 \in 1 .. 3
  OBVIOUS
<1>4. DeviceNames = {"uart", "plic", "clint"}
  BY <1>1, <1>2, <1>3 DEF DeviceNames
<1> QED
  BY <1>1, <1>4

(* The remainder of a sum of two places of a ring.                         *)
LEMMA ModSmall ==
  ASSUME NEW q \in Nat \ {0}, NEW x \in 0 .. 2 * q - 1
  PROVE  x % q = IF x < q THEN x ELSE x - q
<1>1. x % q \in 0 .. q - 1 /\ x \div q \in Int /\ x = q * (x \div q) + (x % q)
  BY SMT
<1> DEFINE d == x \div q
           r == x % q
<1>2. d \in Int /\ r \in Int /\ 0 <= r /\ r < q /\ x = q * d + r
  BY <1>1
<1> HIDE DEF d, r
<1>3. d = 0 \/ d = 1
  <2>1. CASE d < 0
    <3>1. q * d <= -q
      BY <2>1, <1>2, SMT
    <3> QED
      BY <3>1, <1>2, SMT
  <2>2. CASE d > 1
    <3>1. q * d >= 2 * q
      BY <2>2, <1>2, SMT
    <3> QED
      BY <3>1, <1>2, SMT
  <2> QED
    BY <2>1, <2>2, <1>2, SMT
<1>4. r = IF x < q THEN x ELSE x - q
  BY <1>2, <1>3, SMT
<1> QED
  BY <1>4 DEF r

(* Arithmetic of the ring: how far a place is behind another.              *)
LEMMA GapIs ==
  ASSUME NEW h \in 0 .. DramQueueSize - 1, NEW i \in 0 .. DramQueueSize - 1
  PROVE  /\ Gap(i, h) = IF i >= h THEN i - h ELSE i + DramQueueSize - h
         /\ Gap(i, h) \in 0 .. DramQueueSize - 1
<1> DEFINE q == DramQueueSize
           x == i + q - h
<1>1. q \in Nat \ {0} /\ h \in 0 .. q - 1 /\ x \in 0 .. 2 * q - 1 /\ x = i + q - h /\ i \in 0 .. q - 1
  BY MemoryAssumption
<1>2. Gap(i, h) = x % q
  BY DEF Gap
<1> HIDE DEF x, q
<1>3. x % q = IF x < q THEN x ELSE x - q
  BY <1>1, ModSmall
<1>4. Gap(i, h) = IF x < q THEN x ELSE x - q
  BY <1>2, <1>3
<1>5. Gap(i, h) = IF i >= h THEN i - h ELSE i + q - h
  BY <1>1, <1>4
<1>6. Gap(i, h) \in 0 .. q - 1
  BY <1>1, <1>5
<1> QED
  BY <1>5, <1>6 DEF q

(* LinkList::next.                                                         *)
LEMMA NextIs ==
  ASSUME NEW i \in 0 .. DramQueueSize - 1
  PROVE  /\ NextInRing(i) = IF i = DramQueueSize - 1 THEN 0 ELSE i + 1
         /\ NextInRing(i) \in 0 .. DramQueueSize - 1
<1> DEFINE x == i + 1
<1>1. DramQueueSize \in Nat \ {0} /\ x \in 0 .. 2 * DramQueueSize - 1 /\ x = i + 1
  BY MemoryAssumption
<1>2. NextInRing(i) = x % DramQueueSize
  BY DEF NextInRing
<1> HIDE DEF x
<1>3. x % DramQueueSize = IF x < DramQueueSize THEN x ELSE x - DramQueueSize
  BY <1>1, ModSmall
<1> QED
  BY <1>1, <1>2, <1>3

(* Places differ as their distances from the head do; next and a moved     *)
(* head add and take one.                                                  *)
LEMMA GapFacts ==
  ASSUME NEW h \in 0 .. DramQueueSize - 1, NEW i \in 0 .. DramQueueSize - 1
  PROVE  /\ Gap(h, h) = 0
         /\ \A j \in 0 .. DramQueueSize - 1 : Gap(i, h) = Gap(j, h) => i = j
         /\ Gap(NextInRing(i), h) = NextInRing(Gap(i, h))
         /\ Gap(i, NextInRing(h)) = IF i = h THEN DramQueueSize - 1 ELSE Gap(i, h) - 1
<1> DEFINE q == DramQueueSize
<1>1. q \in Nat \ {0} /\ h \in 0 .. q - 1 /\ i \in 0 .. q - 1
  BY MemoryAssumption
<1>2. \A j, k \in 0 .. q - 1 :
        Gap(j, k) \in 0 .. q - 1 /\ Gap(j, k) = IF j >= k THEN j - k ELSE j + q - k
  BY GapIs
<1>3. \A j \in 0 .. q - 1 :
        NextInRing(j) \in 0 .. q - 1 /\ NextInRing(j) = IF j = q - 1 THEN 0 ELSE j + 1
  BY NextIs
<1> HIDE DEF q
<1>4. Gap(h, h) = 0
  BY <1>1, <1>2
<1>5. \A j \in 0 .. q - 1 : Gap(i, h) = Gap(j, h) => i = j
  <2>1. TAKE j \in 0 .. q - 1
  <2>2. /\ Gap(i, h) = IF i >= h THEN i - h ELSE i + q - h
        /\ Gap(j, h) = IF j >= h THEN j - h ELSE j + q - h
    BY <1>1, <1>2
  <2> QED
    BY <1>1, <2>2
<1>6. Gap(NextInRing(i), h) = NextInRing(Gap(i, h))
  <2> DEFINE ni == NextInRing(i)
             g == Gap(i, h)
             gn == Gap(ni, h)
             ng == NextInRing(g)
  <2>1. ni \in 0 .. q - 1 /\ ni = IF i = q - 1 THEN 0 ELSE i + 1
    BY <1>1, <1>3
  <2>2. g \in 0 .. q - 1 /\ g = IF i >= h THEN i - h ELSE i + q - h
    BY <1>1, <1>2
  <2> HIDE DEF ni, g
  <2>3. gn = IF ni >= h THEN ni - h ELSE ni + q - h
    BY <1>1, <1>2, <2>1
  <2>4. ng = IF g = q - 1 THEN 0 ELSE g + 1
    BY <1>3, <2>2
  <2> HIDE DEF gn, ng
  <2>5. gn = ng
    BY <1>1, <2>1, <2>2, <2>3, <2>4
  <2> QED
    BY <2>5 DEF gn, ng, ni, g
<1>7. Gap(i, NextInRing(h)) = IF i = h THEN q - 1 ELSE Gap(i, h) - 1
  <2> DEFINE nh == NextInRing(h)
             g == Gap(i, h)
             gn == Gap(i, nh)
  <2>1. nh \in 0 .. q - 1 /\ nh = IF h = q - 1 THEN 0 ELSE h + 1
    BY <1>1, <1>3
  <2>2. g = IF i >= h THEN i - h ELSE i + q - h
    BY <1>1, <1>2
  <2> HIDE DEF nh, g
  <2>3. gn = IF i >= nh THEN i - nh ELSE i + q - nh
    BY <1>1, <1>2, <2>1
  <2> HIDE DEF gn
  <2>4. gn = IF i = h THEN q - 1 ELSE g - 1
    BY <1>1, <2>1, <2>2, <2>3
  <2> QED
    BY <2>4 DEF gn, nh, g
<1> QED
  BY <1>4, <1>5, <1>6, <1>7 DEF q

\* The metas of the ring are not those of the DeviceReqs.
LEMMA RingMetas ==
  ASSUME NEW i \in 0 .. DramQueueSize - 1
  PROVE  /\ RingMeta(i) \in 1 .. Len(Devices) + DramQueueSize /\ RingMeta(i) \notin DeviceReqs
         /\ \A j \in 0 .. DramQueueSize - 1 : RingMeta(j) = RingMeta(i) => j = i
  BY ThreeDevices, MemoryAssumption DEF RingMeta

(* A DeviceReq names one of the metas.                                     *)
LEMMA ReqMetas == DeviceReqs \subseteq 1 .. Len(Devices) + DramQueueSize /\ NoRequest \notin DeviceReqs
  BY ThreeDevices, MemoryAssumption DEF NoRequest

-----------------------------------------------------------------------------
(* Steps that leave one of the halves alone.                               *)

(* The names in the ring do not depend on how many requests DRAMsim3 has   *)
(* left, nor on the write.                                                 *)
LEMMA DramNamesRest ==
  ASSUME MemoryTypeOK, UNCHANGED << backend, inDram >>,
         ring'.head = ring.head, ring'.tail = ring.tail,
         \A i \in 0 .. DramQueueSize - 1 : meta'[RingMeta(i)] = meta[RingMeta(i)]
  PROVE  /\ Reads' = Reads /\ InRing' = InRing /\ RingEntries' = RingEntries
         /\ Behind(ring.tail)' = Behind(ring.tail)
         /\ \A i \in RingEntries : Named(i)' = Named(i)
         /\ \A r : FromDram(r)' <=> FromDram(r)
<1>1. Reads' = Reads /\ InRing' = InRing
  BY DEF Reads, InRing
<1>2. RingEntries' = RingEntries
  BY <1>1 DEF RingEntries
<1>3. \A i \in RingEntries : i \in 0 .. DramQueueSize - 1
  BY DEF RingEntries
<1>4. \A i \in RingEntries : Named(i)' = Named(i)
  BY <1>3 DEF Named
<1>5. \A r : FromDram(r)' <=> FromDram(r)
  BY <1>2, <1>4 DEF FromDram
<1>6. Behind(ring.tail)' = Behind(ring.tail)
  BY DEF Behind, Gap
<1> QED
  BY <1>1, <1>2, <1>4, <1>5, <1>6

(* A step that leaves the DRAM side alone.                                 *)
LEMMA DramRests ==
  ASSUME MemoryTypeOK, RingBounds, UNCHANGED << backend, ring, inDram, write >>,
         \A i \in 0 .. DramQueueSize - 1 : meta'[RingMeta(i)] = meta[RingMeta(i)]
  PROVE  /\ RingBounds' /\ RingEntries' = RingEntries
         /\ \A i \in RingEntries : Named(i)' = Named(i)
         /\ \A r : FromDram(r)' <=> FromDram(r)
         /\ \A r : FromWrite(r)' <=> FromWrite(r)
<1>1. /\ Reads' = Reads /\ InRing' = InRing /\ RingEntries' = RingEntries
      /\ Behind(ring.tail)' = Behind(ring.tail)
      /\ \A i \in RingEntries : Named(i)' = Named(i)
      /\ \A r : FromDram(r)' <=> FromDram(r)
  BY DramNamesRest
<1>2. RingBounds'
  BY <1>1 DEF RingBounds, WriteHeld
<1>3. \A r : FromWrite(r)' <=> FromWrite(r)
  BY DEF FromWrite
<1> QED
  BY <1>1, <1>2, <1>3

(* A step that leaves the devices alone.                                   *)
LEMMA DevicesRest ==
  ASSUME MemoryTypeOK, ReqsApart, UartAgrees, DeviceReqsConserved,
         UNCHANGED << idle, slot, uart >>,
         \A d \in Held : meta'[slot[d]] = meta[slot[d]]
  PROVE  /\ ReqsApart' /\ UartAgrees' /\ DeviceReqsConserved' /\ Held' = Held
         /\ \A d \in Held : meta'[slot'[d]] = meta[slot[d]]
         /\ \A r : FromDevice(r)' <=> FromDevice(r)
<1>1. Held' = Held
  BY DEF Held
<1>2. ReqsApart'
  BY <1>1 DEF ReqsApart
<1>3. UartAgrees' /\ DeviceReqsConserved'
  BY <1>1 DEF UartAgrees, DeviceReqsConserved
<1>4. \A d \in Held : meta'[slot'[d]] = meta[slot[d]]
  OBVIOUS
<1>5. \A r : FromDevice(r)' <=> FromDevice(r)
  BY <1>1, <1>4 DEF FromDevice
<1> QED
  BY <1>1, <1>2, <1>3, <1>4, <1>5

-----------------------------------------------------------------------------
(* A request to a device.                                                  *)

(* The slots that hold a request.                                          *)
LEMMA HeldFacts ==
  ASSUME MemoryTypeOK
  PROVE  /\ IsFiniteSet(Held) /\ Held \subseteq DeviceNames
         /\ Cardinality(Held) \in Nat
         /\ \A d \in Held : slot[d] \in DeviceReqs
<1>1. Held \subseteq DeviceNames
  BY DEF Held
<1>2. IsFiniteSet(DeviceNames)
  <2>1. IsFiniteSet({"uart"} \cup {"plic"} \cup {"clint"})
    BY FS_Singleton, FS_Union
  <2>2. DeviceNames = {"uart"} \cup {"plic"} \cup {"clint"}
    BY ThreeDevices
  <2> QED
    BY <2>1, <2>2
<1>3. IsFiniteSet(Held) /\ Cardinality(Held) \in Nat
  BY <1>1, <1>2, FS_Subset, FS_CardinalityType
<1>4. \A d \in Held : slot[d] \in DeviceReqs
  BY DEF Held, MemoryTypeOK
<1> QED
  BY <1>1, <1>3, <1>4

(* The DeviceReq that a request takes is with no device.                   *)
LEMMA FirstIdle ==
  ASSUME ReqsApart, MemoryTypeOK, idle # << >>
  PROVE  /\ Head(idle) \in DeviceReqs /\ Head(idle) = idle[1]
         /\ \A d \in Held : slot[d] # Head(idle)
         /\ \A i \in 0 .. DramQueueSize - 1 : RingMeta(i) # Head(idle)
<1>1. Head(idle) \in DeviceReqs /\ Head(idle) = idle[1] /\ 1 \in 1 .. Len(idle)
  BY EmptySeq, HeadTailProperties DEF ReqsApart
<1>2. \A d \in Held : slot[d] # Head(idle)
  BY <1>1 DEF ReqsApart
<1>3. \A i \in 0 .. DramQueueSize - 1 : RingMeta(i) # Head(idle)
  BY <1>1, RingMetas
<1> QED
  BY <1>1, <1>2, <1>3

(* A device that accepts holds none.                                       *)
LEMMA IdleHasNoHolder ==
  ASSUME MemoryTypeOK, UartAgrees, NEW d \in DeviceNames, Takes(d)
  PROVE  d \notin Held
  BY DEF Takes, Idle, UartAgrees, Held

\* The requests stay apart when the first idle one goes to a device.
LEMMA ReqsApartAfterRead ==
  ASSUME MemoryTypeOK, ReqsApart, DeviceReqsConserved, idle # << >>,
         NEW d \in DeviceNames, d \notin Held,
         slot' = [slot EXCEPT ![d] = Head(idle)], idle' = Tail(idle)
  PROVE  /\ Held' = Held \cup {d} /\ ReqsApart' /\ DeviceReqsConserved'
         /\ slot' \in [DeviceNames -> DeviceReqs \cup {NoRequest}]
         /\ slot'[d] = Head(idle) /\ \A e \in Held : slot'[e] = slot[e]
<1> DEFINE f == Head(idle)
<1>1. /\ f \in DeviceReqs /\ f = idle[1] /\ f # NoRequest
      /\ \A e \in Held : slot[e] # f
  BY FirstIdle, ReqMetas
<1>2. /\ slot \in [DeviceNames -> DeviceReqs \cup {NoRequest}]
      /\ idle \in Seq(DeviceReqs)
  BY DEF MemoryTypeOK, ReqsApart
<1> HIDE DEF f
<1>3. /\ slot'[d] = f /\ \A e \in DeviceNames : e # d => slot'[e] = slot[e]
      /\ slot' \in [DeviceNames -> DeviceReqs \cup {NoRequest}]
  BY <1>1, <1>2 DEF f
<1>4. Held' = Held \cup {d}
  BY <1>1, <1>3 DEF Held
<1>5. /\ Tail(idle) \in Seq(DeviceReqs) /\ Len(Tail(idle)) = Len(idle) - 1
      /\ \A i \in 1 .. Len(Tail(idle)) : Tail(idle)[i] = idle[i + 1]
  BY <1>2, HeadTailProperties
<1> DEFINE n == Len(idle)
<1>6. n \in Nat /\ n >= 1 /\ n = Len(idle)
  BY <1>2, EmptySeq, LenProperties
<1> HIDE DEF n
<1>7. \A i \in 1 .. n - 1 : i + 1 \in 1 .. n /\ i + 1 # 1
  BY <1>6
<1>8. 1 \in 1 .. n
  BY <1>6
<1>9. \A i, j \in 1 .. n - 1 : i + 1 = j + 1 => i = j
  BY <1>6
<1>10. Len(idle') = n - 1 /\ idle' \in Seq(DeviceReqs)
       /\ \A i \in 1 .. n - 1 : idle'[i] = idle[i + 1]
  BY <1>5, <1>6
<1>11. \A e \in Held : slot'[e] = slot[e]
  BY <1>3 DEF Held
<1>12. ReqsApart'
  <2>1. \A i, j \in 1 .. n - 1 : idle'[i] = idle'[j] => i = j
    <3>1. TAKE i, j \in 1 .. n - 1
    <3>2. idle'[i] = idle[i + 1] /\ idle'[j] = idle[j + 1]
      BY <1>10
    <3>3. i + 1 \in 1 .. Len(idle) /\ j + 1 \in 1 .. Len(idle)
      BY <1>6, <1>7
    <3> QED
      BY <1>9, <3>2, <3>3 DEF ReqsApart
  <2>2. \A i \in 1 .. n - 1, e \in Held' : idle'[i] # slot'[e]
    <3>1. TAKE i \in 1 .. n - 1, e \in Held'
    <3>2. idle'[i] = idle[i + 1] /\ i + 1 \in 1 .. Len(idle) /\ i + 1 # 1 /\ 1 \in 1 .. Len(idle)
      BY <1>6, <1>7, <1>8, <1>10
    <3>3. CASE e = d
      BY <1>1, <1>3, <3>2, <3>3 DEF ReqsApart
    <3>4. CASE e \in Held
      BY <1>11, <3>2, <3>4 DEF ReqsApart
    <3> QED
      BY <1>4, <3>3, <3>4
  <2>3. \A e1, e2 \in Held' : slot'[e1] = slot'[e2] => e1 = e2
    BY <1>1, <1>3, <1>4, <1>11 DEF ReqsApart
  <2> QED
    BY <1>10, <2>1, <2>2, <2>3 DEF ReqsApart
<1>13. DeviceReqsConserved'
  <2>1. Cardinality(Held') = Cardinality(Held) + 1 /\ Cardinality(Held) \in Nat
    <3>1. IsFiniteSet(Held) /\ Cardinality(Held) \in Nat
      BY HeldFacts
    <3>2. Cardinality(Held \cup {d}) = Cardinality(Held) + 1
      BY <3>1, FS_AddElement
    <3> QED
      BY <1>4, <3>1, <3>2
  <2>2. Cardinality(DeviceReqs) \in Nat
    <3>1. Cardinality(1 .. 3) \in Nat
      <4>1. \A a, b \in Int : IsFiniteSet(a .. b)
        BY FS_Interval
      <4>2. 1 \in Int /\ 3 \in Int
        OBVIOUS
      <4>3. IsFiniteSet(1 .. 3)
        BY <4>1, <4>2, Zenon
      <4> QED
        BY <4>3, FS_CardinalityType
    <3> QED
      BY <3>1, ThreeDevices
  <2>3. Len(idle') + Cardinality(Held') = Cardinality(DeviceReqs)
    <3> DEFINE c == Cardinality(Held)
    <3>1. c \in Nat /\ Cardinality(Held') = c + 1 /\ n + c = Cardinality(DeviceReqs)
      BY <1>6, <2>1 DEF DeviceReqsConserved
    <3> HIDE DEF c
    <3> QED
      BY <1>6, <1>10, <2>2, <3>1
  <2>4. {idle'[i] : i \in 1 .. Len(idle')} \cup {slot'[e] : e \in Held'} \subseteq DeviceReqs
    <3>1. \A i \in 1 .. Len(idle') : idle'[i] \in DeviceReqs
      BY <1>10, ElementOfSeq
    <3>2. \A e \in Held' : slot'[e] \in DeviceReqs
      BY <1>1, <1>3, <1>4, <1>11, HeldFacts
    <3> QED
      BY <3>1, <3>2
  <2>5. \A q \in DeviceReqs : q \in {idle'[i] : i \in 1 .. Len(idle')} \cup {slot'[e] : e \in Held'}
    <3>1. TAKE q \in DeviceReqs
    <3>2. (\E i \in 1 .. n : q = idle[i]) \/ (\E e \in Held : q = slot[e])
      BY <1>6 DEF DeviceReqsConserved
    <3>3. CASE \E e \in Held : q = slot[e]
      BY <1>4, <1>11, <3>3
    <3>4. CASE \E i \in 1 .. n : q = idle[i]
      <4>1. PICK i \in 1 .. n : q = idle[i]
        BY <3>4
      <4>2. CASE i = 1
        BY <1>1, <1>3, <1>4, <4>1, <4>2
      <4>3. CASE i # 1
        <5>1. i - 1 \in 1 .. n - 1 /\ (i - 1) + 1 = i
          BY <1>6, <4>3
        <5>2. idle'[i - 1] = q
          BY <1>10, <4>1, <5>1
        <5> QED
          BY <1>10, <5>1, <5>2
      <4> QED
        BY <4>2, <4>3
    <3> QED
      BY <3>2, <3>3, <3>4
  <2> QED
    BY <2>3, <2>4, <2>5 DEF DeviceReqsConserved
<1> QED
  BY <1>1, <1>3, <1>4, <1>11, <1>12, <1>13 DEF f

(* A read or a write of a device's address, accepted.                      *)
LEMMA RequestDeviceSafe ==
  ASSUME MemoryInv, NEW r \in Requesters, r \notin waiting, NEW d \in DeviceNames,
         RequestDevice(r, d), UNCHANGED << backend, phase >>
  PROVE  MemoryInv'
<1> DEFINE f == Head(idle)
<1> USE DEF MemoryInv
<1>1. /\ idle # << >> /\ Takes(d) /\ waiting' = waiting \cup {r} /\ idle' = Tail(idle)
      /\ meta' = [meta EXCEPT ![f] = r] /\ slot' = [slot EXCEPT ![d] = f]
      /\ UNCHANGED << ring, inDram, write >>
      /\ uart' = IF d = "uart" THEN [uart EXCEPT !.req_valid = TRUE, !.current_delay = UartDelay] ELSE uart
  BY DEF RequestDevice
<1>2. d \notin Held
  BY <1>1, IdleHasNoHolder
<1>3. /\ Held' = Held \cup {d} /\ ReqsApart' /\ DeviceReqsConserved'
      /\ slot' \in [DeviceNames -> DeviceReqs \cup {NoRequest}]
      /\ slot'[d] = f /\ \A e \in Held : slot'[e] = slot[e]
  BY <1>1, <1>2, ReqsApartAfterRead
<1>4. /\ f \in DeviceReqs /\ \A e \in Held : slot[e] # f
      /\ \A i \in 0 .. DramQueueSize - 1 : RingMeta(i) # f
  BY <1>1, FirstIdle
<1>5. meta \in [1 .. Len(Devices) + DramQueueSize -> Requesters \cup {None}]
  BY DEF MemoryTypeOK
<1> HIDE DEF f
<1>6. /\ meta' \in [1 .. Len(Devices) + DramQueueSize -> Requesters \cup {None}]
      /\ meta'[f] = r
      /\ \A q \in 1 .. Len(Devices) + DramQueueSize : q # f => meta'[q] = meta[q]
  BY <1>1, <1>4, <1>5, ReqMetas
<1>7. \A i \in 0 .. DramQueueSize - 1 : meta'[RingMeta(i)] = meta[RingMeta(i)]
  BY <1>4, <1>6, RingMetas
<1>8. /\ RingBounds' /\ RingEntries' = RingEntries
      /\ \A i \in RingEntries : Named(i)' = Named(i)
      /\ \A x : FromDram(x)' <=> FromDram(x)
      /\ \A x : FromWrite(x)' <=> FromWrite(x)
  BY <1>1, <1>7, DramRests
<1>9. meta'[slot'[d]] = r /\ \A e \in Held : meta'[slot'[e]] = meta[slot[e]]
  BY <1>3, <1>4, <1>6, HeldFacts, ReqMetas
<1>10. \A x : FromDevice(x)' <=> FromDevice(x) \/ x = r
  BY <1>3, <1>9 DEF FromDevice
<1>11. ~FromDevice(r) /\ ~FromDram(r) /\ ~FromWrite(r)
  BY DEF WaitersNamed
<1>12. NamesApart'
  <2>1. \A e1, e2 \in Held' : meta'[slot'[e1]] = meta'[slot'[e2]] => e1 = e2
    BY <1>3, <1>9, <1>11 DEF NamesApart, FromDevice
  <2>2. backend' = "ramulator" =>
          \A i, j \in RingEntries' : Named(i)' = Named(j)' => i = j
    BY <1>8 DEF NamesApart
  <2>3. backend' = "dramsim" => \A x \in Requesters : inDram'[x] <= 1
    BY <1>1 DEF NamesApart
  <2>4. \A x \in Requesters : /\ ~(FromDram(x)' /\ FromDevice(x)')
                              /\ FromWrite(x)' => ~FromDram(x)' /\ ~FromDevice(x)'
    BY <1>8, <1>10, <1>11 DEF NamesApart
  <2> QED
    BY <2>1, <2>2, <2>3, <2>4 DEF NamesApart
<1>13. WaitersNamed'
  <2>1. \A x \in Requesters : x \in waiting' <=> FromDram(x)' \/ FromDevice(x)' \/ FromWrite(x)'
    BY <1>1, <1>8, <1>10 DEF WaitersNamed
  <2>2. \A e \in Held' : meta'[slot'[e]] \in Requesters
    BY <1>3, <1>9 DEF WaitersNamed
  <2>3. backend' = "ramulator" => \A i \in RingEntries' : Named(i)' \in Requesters
    BY <1>8 DEF WaitersNamed
  <2> QED
    BY <1>1, <2>1, <2>2, <2>3 DEF WaitersNamed
<1>14. UartAgrees' /\ uart' \in [req_valid: BOOLEAN, resp_valid: BOOLEAN, current_delay: 0 .. UartDelay]
  <2>1. uart \in [req_valid: BOOLEAN, resp_valid: BOOLEAN, current_delay: 0 .. UartDelay]
    BY DEF MemoryTypeOK
  <2>2. UartDelay \in 0 .. UartDelay
    BY MemoryAssumption
  <2>3. CASE d = "uart"
    <3>1. uart' = [uart EXCEPT !.req_valid = TRUE, !.current_delay = UartDelay]
      BY <1>1, <2>3
    <3>2. uart' \in [req_valid: BOOLEAN, resp_valid: BOOLEAN, current_delay: 0 .. UartDelay]
          /\ uart'.req_valid = TRUE /\ uart'.resp_valid = uart.resp_valid
      BY <2>1, <2>2, <3>1
    <3> QED
      BY <1>3, <2>3, <3>2 DEF UartAgrees
  <2>4. CASE d # "uart"
    BY <1>1, <1>3, <2>1, <2>4 DEF UartAgrees
  <2> QED
    BY <2>3, <2>4
<1>15. MemoryTypeOK'
  <2>1. Len(idle') <= Len(Devices) /\ \A i \in 1 .. Len(idle') : idle'[i] \in DeviceReqs
    <3>1. idle' \in Seq(DeviceReqs) /\ Len(idle') = Len(idle) - 1
          /\ Len(idle) \in Nat /\ Len(idle) <= Len(Devices)
      BY <1>1, HeadTailProperties, LenProperties DEF ReqsApart, MemoryTypeOK
    <3>2. Len(idle') <= Len(Devices)
      BY <3>1, ThreeDevices
    <3> QED
      BY <3>1, <3>2, ElementOfSeq
  <2> QED
    BY <1>1, <1>3, <1>6, <1>14, <2>1 DEF MemoryTypeOK
<1> QED
  BY <1>3, <1>8, <1>12, <1>13, <1>14, <1>15

(* The same, refused: the DeviceReq goes back.                             *)
LEMMA RefuseDeviceSafe ==
  ASSUME MemoryInv, NEW r \in Requesters, NEW d \in DeviceNames,
         RefuseDevice(r, d), UNCHANGED << backend, phase >>
  PROVE  MemoryInv'
<1> DEFINE f == Head(idle)
<1> USE DEF MemoryInv
<1>1. /\ idle # << >> /\ meta' = [meta EXCEPT ![f] = r]
      /\ UNCHANGED << waiting, idle, slot, uart, ring, inDram, write >>
  BY DEF RefuseDevice
<1>2. /\ f \in DeviceReqs /\ \A e \in Held : slot[e] # f
      /\ \A i \in 0 .. DramQueueSize - 1 : RingMeta(i) # f
  BY <1>1, FirstIdle
<1>3. meta \in [1 .. Len(Devices) + DramQueueSize -> Requesters \cup {None}]
  BY DEF MemoryTypeOK
<1> HIDE DEF f
<1>4. /\ meta' \in [1 .. Len(Devices) + DramQueueSize -> Requesters \cup {None}]
      /\ \A q \in 1 .. Len(Devices) + DramQueueSize : q # f => meta'[q] = meta[q]
  BY <1>1, <1>2, <1>3, ReqMetas
<1>5. \A i \in 0 .. DramQueueSize - 1 : meta'[RingMeta(i)] = meta[RingMeta(i)]
  BY <1>2, <1>4, RingMetas
<1>6. \A e \in Held : meta'[slot[e]] = meta[slot[e]]
  BY <1>2, <1>4, HeldFacts, ReqMetas
<1>7. /\ RingBounds' /\ RingEntries' = RingEntries
      /\ \A i \in RingEntries : Named(i)' = Named(i)
      /\ \A x : FromDram(x)' <=> FromDram(x)
      /\ \A x : FromWrite(x)' <=> FromWrite(x)
  BY <1>1, <1>5, DramRests
<1>8. /\ ReqsApart' /\ UartAgrees' /\ DeviceReqsConserved' /\ Held' = Held
      /\ \A e \in Held : meta'[slot'[e]] = meta[slot[e]]
      /\ \A x : FromDevice(x)' <=> FromDevice(x)
  BY <1>1, <1>6, DevicesRest
<1>9. NamesApart'
  BY <1>1, <1>7, <1>8 DEF NamesApart
<1>10. WaitersNamed'
  BY <1>1, <1>7, <1>8 DEF WaitersNamed
<1>11. MemoryTypeOK'
  BY <1>1, <1>4 DEF MemoryTypeOK
<1> QED
  BY <1>7, <1>8, <1>9, <1>10, <1>11

-----------------------------------------------------------------------------
(* Memory::memoryRead of the DRAM, and its answer.                         *)

(* A requester's reads are among those in the DRAM.                        *)
LEMMA ReadsCounted ==
  ASSUME MemoryTypeOK, RingBounds, NEW r \in Requesters
  PROVE  inDram[r] \in Nat /\ inDram[r] <= InRing
<1> DEFINE n == inDram[r]
<1>1. n \in 0 .. DramQueueSize /\ DramQueueSize \in Nat
  BY MemoryAssumption DEF MemoryTypeOK
<1>2. \A k \in 1 .. n : << r, k >> \in Reads
  <2>1. TAKE k \in 1 .. n
  <2>2. k \in 1 .. DramQueueSize /\ k <= n
    BY <1>1
  <2>3. << r, k >> \in Requesters \X (1 .. DramQueueSize)
    BY <2>2
  <2> QED
    BY <2>2, <2>3 DEF Reads
<1> HIDE DEF n
<1> DEFINE f == [k \in 1 .. n |-> << r, k >>]
<1>3. f \in [1 .. n -> Reads]
  BY <1>2
<1>4. \A j, k \in 1 .. n : f[j] = f[k] => j = k
  OBVIOUS
<1> HIDE DEF f
<1>5. f \in Injection(1 .. n, Reads)
  BY <1>3, <1>4 DEF Injection, IsInjective
<1>6. Cardinality(1 .. n) <= Cardinality(Reads)
  BY <1>5, FS_Injection DEF RingBounds
<1>7. Cardinality(1 .. n) = n
  <2>1. 1 \in Int /\ n \in Int
    BY <1>1
  <2>2. Cardinality(1 .. n) = IF 1 > n THEN 0 ELSE n - 1 + 1
    BY <2>1, FS_Interval
  <2> QED
    BY <1>1, <2>2
<1>8. n <= InRing
  BY <1>6, <1>7 DEF InRing
<1> QED
  BY <1>1, <1>8 DEF n

\* While a requester does not wait there is room for its read.
LEMMA RoomInRing ==
  ASSUME MemoryInv, backend = "ramulator", NEW r \in Requesters, r \notin waiting
  PROVE  InRing < DramQueueSize
<1> USE DEF MemoryInv
<1> DEFINE q == DramQueueSize
<1>1. q \in Nat \ {0} /\ InRing \in 0 .. q
  BY MemoryAssumption DEF RingBounds
<1> SUFFICES ASSUME InRing = q PROVE FALSE
  BY <1>1
<1>2. RingEntries = 0 .. q - 1
  <2>1. \A i \in 0 .. q - 1 : Gap(i, ring.head) < q
    <3>1. ring.head \in 0 .. q - 1
      BY DEF MemoryTypeOK
    <3>2. \A i \in 0 .. q - 1 : Gap(i, ring.head) \in 0 .. q - 1
      BY <3>1, GapIs
    <3> QED
      BY <1>1, <3>2
  <2> QED
    BY <2>1 DEF RingEntries, Gap
<1>3. \A i \in 0 .. q - 1 : Named(i) \in Requesters \ {r}
  <2>1. ~FromDram(r)
    BY DEF WaitersNamed
  <2> QED
    BY <1>2, <2>1 DEF WaitersNamed, FromDram
<1>4. \A i, j \in 0 .. q - 1 : Named(i) = Named(j) => i = j
  BY <1>2 DEF NamesApart
<1> DEFINE S == Requesters \ {r}
           f == [i \in 0 .. q - 1 |-> Named(i)]
<1>5. f \in Injection(0 .. q - 1, S)
  BY <1>3, <1>4 DEF Injection, IsInjective
<1>6. IsFiniteSet(S) /\ Cardinality(S) = Cardinality(Requesters) - 1 /\ Cardinality(Requesters) \in Nat
  BY MemoryAssumption, FS_RemoveElement, FS_CardinalityType
<1> HIDE DEF f, S
<1>7. Cardinality(0 .. q - 1) <= Cardinality(S)
  BY <1>5, <1>6, FS_Injection
<1>8. Cardinality(0 .. q - 1) = q
  <2>1. 0 \in Int /\ q - 1 \in Int
    BY <1>1
  <2>2. Cardinality(0 .. q - 1) = IF 0 > q - 1 THEN 0 ELSE q - 1 - 0 + 1
    BY <2>1, FS_Interval
  <2> QED
    BY <1>1, <2>2
<1> QED
  BY <1>1, <1>6, <1>7, <1>8, MemoryAssumption

(* One more read.                                                          *)
LEMMA ReadsGrow ==
  ASSUME MemoryTypeOK, RingBounds, NEW r \in Requesters, InRing < DramQueueSize,
         inDram' = [inDram EXCEPT ![r] = @ + 1]
  PROVE  /\ IsFiniteSet(Reads') /\ InRing' = InRing + 1
         /\ inDram' \in [Requesters -> 0 .. DramQueueSize]
<1> DEFINE n == inDram[r]
<1>1. /\ n \in Nat /\ n < DramQueueSize /\ DramQueueSize \in Nat
      /\ inDram \in [Requesters -> 0 .. DramQueueSize]
  BY ReadsCounted, MemoryAssumption DEF MemoryTypeOK, RingBounds
<1>2. inDram'[r] = n + 1 /\ \A x \in Requesters : x # r => inDram'[x] = inDram[x]
  BY <1>1
<1> HIDE DEF n
<1>3. n + 1 \in 1 .. DramQueueSize
  BY <1>1
<1>4. inDram' \in [Requesters -> 0 .. DramQueueSize]
  <2>1. n + 1 \in 0 .. DramQueueSize
    BY <1>3
  <2> QED
    BY <1>1, <2>1 DEF n
<1>5. << r, n + 1 >> \notin Reads
  <2>1. SUFFICES ASSUME << r, n + 1 >> \in Reads PROVE FALSE
    OBVIOUS
  <2>2. n + 1 <= n
    BY <2>1 DEF Reads, n
  <2> QED
    BY <1>1, <2>2
<1>6. Reads' = Reads \cup {<< r, n + 1 >>}
  <2>1. \A x \in Requesters, k \in 1 .. DramQueueSize :
          << x, k >> \in Reads' <=> << x, k >> \in Reads \cup {<< r, n + 1 >>}
    <3>1. TAKE x \in Requesters, k \in 1 .. DramQueueSize
    <3>2. << x, k >> \in Reads <=> k <= inDram[x]
      BY DEF Reads
    <3>3. << x, k >> \in Reads' <=> k <= inDram'[x]
      BY DEF Reads
    <3>4. k \in Int
      OBVIOUS
    <3>5. CASE x = r
      <4>1. k <= n + 1 <=> k <= n \/ k = n + 1
        BY <1>1, <3>4
      <4> QED
        BY <1>2, <3>2, <3>3, <3>5, <4>1 DEF n
    <3>6. CASE x # r
      BY <1>2, <3>2, <3>3, <3>6
    <3> QED
      BY <3>5, <3>6
  <2>2. Reads \subseteq Requesters \X (1 .. DramQueueSize)
        /\ Reads' \subseteq Requesters \X (1 .. DramQueueSize)
    BY DEF Reads
  <2>3. << r, n + 1 >> \in Requesters \X (1 .. DramQueueSize)
    BY <1>3
  <2> QED
    BY <2>1, <2>2, <2>3
<1>7. IsFiniteSet(Reads)
  BY DEF RingBounds
<1>8. IsFiniteSet(Reads \cup {<< r, n + 1 >>})
      /\ Cardinality(Reads \cup {<< r, n + 1 >>}) = Cardinality(Reads) + 1
  BY <1>5, <1>7, FS_AddElement
<1> QED
  BY <1>4, <1>6, <1>8 DEF InRing

(* One less.                                                               *)
LEMMA ReadsShrink ==
  ASSUME MemoryTypeOK, RingBounds, NEW r \in Requesters, inDram[r] > 0,
         inDram' = [inDram EXCEPT ![r] = @ - 1]
  PROVE  /\ IsFiniteSet(Reads') /\ InRing' = InRing - 1 /\ InRing > 0
         /\ inDram' \in [Requesters -> 0 .. DramQueueSize]
<1> DEFINE n == inDram[r]
<1>1. /\ n \in 0 .. DramQueueSize /\ n > 0 /\ DramQueueSize \in Nat /\ n <= InRing
      /\ inDram \in [Requesters -> 0 .. DramQueueSize] /\ InRing \in Nat
  BY ReadsCounted, MemoryAssumption DEF MemoryTypeOK, RingBounds
<1>2. inDram'[r] = n - 1 /\ \A x \in Requesters : x # r => inDram'[x] = inDram[x]
  BY <1>1
<1> HIDE DEF n
<1>3. n \in 1 .. DramQueueSize /\ InRing > 0
  BY <1>1
<1>4. inDram' \in [Requesters -> 0 .. DramQueueSize]
  <2>1. n - 1 \in 0 .. DramQueueSize
    BY <1>1
  <2> QED
    BY <1>1, <2>1 DEF n
<1>5. << r, n >> \in Reads
  <2>1. n <= n
    BY <1>1
  <2> QED
    BY <1>3, <2>1 DEF Reads, n
<1>6. Reads' = Reads \ {<< r, n >>}
  <2>1. \A x \in Requesters, k \in 1 .. DramQueueSize :
          << x, k >> \in Reads' <=> << x, k >> \in Reads \ {<< r, n >>}
    <3>1. TAKE x \in Requesters, k \in 1 .. DramQueueSize
    <3>2. << x, k >> \in Reads <=> k <= inDram[x]
      BY DEF Reads
    <3>3. << x, k >> \in Reads' <=> k <= inDram'[x]
      BY DEF Reads
    <3>4. k \in Int
      OBVIOUS
    <3>5. CASE x = r
      <4>1. k <= n - 1 <=> k <= n /\ k # n
        BY <1>1, <3>4
      <4> QED
        BY <1>2, <3>2, <3>3, <3>5, <4>1 DEF n
    <3>6. CASE x # r
      BY <1>2, <3>2, <3>3, <3>6
    <3> QED
      BY <3>5, <3>6
  <2>2. Reads \subseteq Requesters \X (1 .. DramQueueSize)
        /\ Reads' \subseteq Requesters \X (1 .. DramQueueSize)
    BY DEF Reads
  <2> QED
    BY <2>1, <2>2
<1>7. IsFiniteSet(Reads)
  BY DEF RingBounds
<1>8. IsFiniteSet(Reads \ {<< r, n >>})
      /\ Cardinality(Reads \ {<< r, n >>}) = Cardinality(Reads) - 1
  BY <1>5, <1>7, FS_RemoveElement
<1> QED
  BY <1>3, <1>4, <1>6, <1>8 DEF InRing

(* The fields of the ring.                                                 *)
LEMMA RingTypes ==
  ASSUME MemoryTypeOK
  PROVE  /\ ring.head \in 0 .. DramQueueSize - 1 /\ ring.tail \in 0 .. DramQueueSize - 1
         /\ ring.free \in 0 .. DramQueueSize
         /\ ring \in [head: 0 .. DramQueueSize - 1, tail: 0 .. DramQueueSize - 1, free: 0 .. DramQueueSize]
  BY DEF MemoryTypeOK

\* A new entry goes to the tail, behind all the others.
LEMMA RingPushed ==
  ASSUME MemoryTypeOK, RingBounds, backend = "ramulator", UNCHANGED backend,
         InRing < DramQueueSize, InRing' = InRing + 1, IsFiniteSet(Reads'),
         ring' = [ring EXCEPT !.tail = NextInRing(@)]
  PROVE  /\ RingEntries' = RingEntries \cup {ring.tail} /\ ring.tail \notin RingEntries
         /\ RingBounds'
         /\ ring' \in [head: 0 .. DramQueueSize - 1, tail: 0 .. DramQueueSize - 1, free: 0 .. DramQueueSize]
<1> DEFINE q == DramQueueSize
           h == ring.head
           t == ring.tail
           n == InRing
<1>1. /\ q \in Nat \ {0} /\ h \in 0 .. q - 1 /\ t \in 0 .. q - 1 /\ n \in 0 .. q - 1
      /\ InRing' = n + 1
  BY RingTypes, MemoryAssumption DEF RingBounds
<1>2. ring'.head = h /\ ring'.tail = NextInRing(t) /\ ring'.free = ring.free
      /\ ring' \in [head: 0 .. q - 1, tail: 0 .. q - 1, free: 0 .. q]
  BY RingTypes, NextIs
<1>3. n % q = n
  <2>1. n \in 0 .. 2 * q - 1
    BY <1>1
  <2> HIDE DEF n
  <2> QED
    BY <1>1, <2>1, ModSmall
<1>4. Gap(t, h) = n
  BY <1>3 DEF RingBounds, Behind
<1>5. (n + 1) % q = NextInRing(n)
  BY DEF NextInRing
<1>6. Gap(NextInRing(t), h) = NextInRing(n)
  BY <1>1, <1>4, GapFacts
<1>7. RingBounds'
  <2>1. InRing' \in 0 .. q
    BY <1>1
  <2>2. Behind(ring.tail)' = InRing' % q
    BY <1>1, <1>2, <1>5, <1>6 DEF Behind, Gap
  <2> QED
    BY <2>1, <2>2 DEF RingBounds
<1>8. \A i \in 0 .. q - 1 : Gap(i, h) \in Nat /\ (Gap(i, h) = n => i = t)
  <2>1. TAKE i \in 0 .. q - 1
  <2>2. Gap(i, h) \in 0 .. q - 1
    BY <1>1, GapIs
  <2>3. Gap(i, h) = Gap(t, h) => i = t
    BY <1>1, GapFacts
  <2> QED
    BY <1>1, <1>4, <2>2, <2>3
<1>9. \A i \in 0 .. q - 1 : Gap(i, h) < n + 1 <=> Gap(i, h) < n \/ i = t
  <2>1. TAKE i \in 0 .. q - 1
  <2> DEFINE g == Gap(i, h)
  <2>2. g \in Nat /\ (g = n => i = t) /\ (i = t => g = n)
    BY <1>4, <1>8
  <2> HIDE DEF g
  <2>3. g < n + 1 <=> g < n \/ i = t
    BY <1>1, <2>2
  <2> QED
    BY <2>3 DEF g
<1>10. RingEntries' = {i \in 0 .. q - 1 : Gap(i, h) < n + 1}
  BY <1>1, <1>2 DEF RingEntries, Gap
<1>11. RingEntries = {i \in 0 .. q - 1 : Gap(i, h) < n}
  BY DEF RingEntries, Gap
<1>12. t \notin RingEntries
  BY <1>1, <1>4, <1>11
<1>13. RingEntries' = RingEntries \cup {t}
  BY <1>1, <1>9, <1>10, <1>11
<1> QED
  BY <1>2, <1>7, <1>12, <1>13

\* The head is the entry that goes.
LEMMA RingPopped ==
  ASSUME MemoryTypeOK, RingBounds, backend = "ramulator", UNCHANGED backend,
         InRing > 0, InRing' = InRing - 1, IsFiniteSet(Reads'),
         ring' = [ring EXCEPT !.head = NextInRing(@)]
  PROVE  /\ RingEntries' = RingEntries \ {ring.head} /\ ring.head \in RingEntries
         /\ RingBounds'
         /\ ring' \in [head: 0 .. DramQueueSize - 1, tail: 0 .. DramQueueSize - 1, free: 0 .. DramQueueSize]
<1> DEFINE q == DramQueueSize
           h == ring.head
           t == ring.tail
           n == InRing
           nh == NextInRing(h)
<1>1. /\ q \in Nat \ {0} /\ h \in 0 .. q - 1 /\ t \in 0 .. q - 1 /\ n \in 1 .. q
      /\ InRing' = n - 1 /\ nh \in 0 .. q - 1
  BY RingTypes, NextIs, MemoryAssumption DEF RingBounds
<1>2. ring'.head = nh /\ ring'.tail = t /\ ring'.free = ring.free
      /\ ring' \in [head: 0 .. q - 1, tail: 0 .. q - 1, free: 0 .. q]
  BY <1>1, RingTypes
<1>3. Gap(h, h) = 0
  BY <1>1, GapFacts
<1>4. \A i \in 0 .. q - 1 : /\ Gap(i, h) \in 0 .. q - 1
                            /\ Gap(i, h) = 0 => i = h
                            /\ Gap(i, nh) = IF i = h THEN q - 1 ELSE Gap(i, h) - 1
  BY <1>1, <1>3, GapIs, GapFacts
<1>5. Gap(t, h) = n % q
  BY DEF RingBounds, Behind
<1>6. n % q = IF n < q THEN n ELSE n - q
  <2>1. n \in 0 .. 2 * q - 1
    BY <1>1
  <2> HIDE DEF n
  <2> QED
    BY <1>1, <2>1, ModSmall
<1>7. (n - 1) % q = n - 1
  <2> DEFINE m == n - 1
  <2>1. m \in 0 .. 2 * q - 1 /\ m < q
    BY <1>1
  <2> HIDE DEF m
  <2>2. m % q = m
    BY <1>1, <2>1, ModSmall
  <2> QED
    BY <2>2 DEF m
<1>8. Gap(t, nh) = n - 1
  <2> DEFINE g == Gap(t, h)
             gn == Gap(t, nh)
  <2>1. /\ g \in 0 .. q - 1 /\ (g = 0 <=> t = h) /\ g = IF n < q THEN n ELSE n - q
        /\ gn = IF t = h THEN q - 1 ELSE g - 1
    BY <1>1, <1>3, <1>4, <1>5, <1>6
  <2> HIDE DEF g, gn, n
  <2>2. gn = n - 1
    BY <1>1, <2>1
  <2> QED
    BY <2>2 DEF gn
<1>9. RingBounds'
  <2>1. InRing' \in 0 .. q
    BY <1>1
  <2>2. Behind(ring.tail)' = InRing' % q
    BY <1>1, <1>2, <1>7, <1>8 DEF Behind, Gap
  <2> QED
    BY <2>1, <2>2 DEF RingBounds
<1>10. \A i \in 0 .. q - 1 : Gap(i, nh) < n - 1 <=> Gap(i, h) < n /\ i # h
  <2>1. TAKE i \in 0 .. q - 1
  <2> DEFINE g == Gap(i, h)
             gn == Gap(i, nh)
  <2>2. g \in 0 .. q - 1 /\ gn = IF i = h THEN q - 1 ELSE g - 1
    BY <1>4
  <2> HIDE DEF g, gn, n
  <2>3. gn < n - 1 <=> g < n /\ i # h
    BY <1>1, <2>2
  <2> QED
    BY <2>3 DEF g, gn
<1>11. RingEntries' = {i \in 0 .. q - 1 : Gap(i, nh) < n - 1}
  BY <1>1, <1>2 DEF RingEntries, Gap
<1>12. RingEntries = {i \in 0 .. q - 1 : Gap(i, h) < n}
  BY DEF RingEntries, Gap
<1>13. h \in RingEntries
  BY <1>1, <1>3, <1>12
<1>14. RingEntries' = RingEntries \ {h}
  BY <1>10, <1>11, <1>12
<1> QED
  BY <1>2, <1>9, <1>13, <1>14

(* memoryRead of memory: a place of the ring is free, because every read   *)
(* in it is of another requester that waits.                               *)
LEMMA ReadDramSafe ==
  ASSUME MemoryInv, NEW r \in Requesters, r \notin waiting, ReadDram(r), UNCHANGED << backend, phase >>
  PROVE  MemoryInv'
<1> USE DEF MemoryInv
<1>1. /\ backend = "dramsim" => ring.free > 0
      /\ inDram' = [inDram EXCEPT ![r] = @ + 1] /\ waiting' = waiting \cup {r}
      /\ UNCHANGED << idle, slot, uart, write >>
  BY DEF ReadDram
<1>2. /\ ~FromDevice(r) /\ ~FromDram(r) /\ ~FromWrite(r)
      /\ \A x : FromWrite(x)' <=> FromWrite(x)
      /\ InRing \in 0 .. DramQueueSize /\ DramQueueSize \in Nat \ {0}
      /\ inDram \in [Requesters -> 0 .. DramQueueSize]
  BY <1>1, MemoryAssumption DEF WaitersNamed, RingBounds, MemoryTypeOK, FromWrite
<1>3. backend = "dramsim" \/ backend = "ramulator"
  BY DEF MemoryTypeOK
<1>4. CASE backend = "dramsim"
  <2>1. ring' = [ring EXCEPT !.free = @ - 1] /\ meta' = meta
    BY <1>4 DEF ReadDram
  <2>2. /\ ring.free = DramQueueSize - InRing - WriteHeld /\ ring.free > 0
        /\ WriteHeld \in {0, 1} /\ WriteHeld' = WriteHeld
    BY <1>1, <1>4 DEF RingBounds, WriteHeld
  <2>3. InRing < DramQueueSize
    BY <1>2, <2>2
  <2>4. /\ IsFiniteSet(Reads') /\ InRing' = InRing + 1
        /\ inDram' \in [Requesters -> 0 .. DramQueueSize]
    BY <1>1, <2>3, ReadsGrow
  <2>5. /\ ring'.free = DramQueueSize - (InRing + 1) - WriteHeld /\ InRing + 1 \in 0 .. DramQueueSize
        /\ ring' \in [head: 0 .. DramQueueSize - 1, tail: 0 .. DramQueueSize - 1, free: 0 .. DramQueueSize]
    <3>1. ring.free - 1 \in 0 .. DramQueueSize /\ ring.free - 1 = DramQueueSize - (InRing + 1) - WriteHeld
          /\ InRing + 1 \in 0 .. DramQueueSize
      BY <1>2, <2>2, <2>3, RingTypes
    <3> QED
      BY <2>1, <3>1, RingTypes
  <2>6. RingBounds'
    BY <1>4, <2>2, <2>4, <2>5 DEF RingBounds
  <2>7. /\ ReqsApart' /\ UartAgrees' /\ DeviceReqsConserved' /\ Held' = Held
        /\ \A e \in Held : meta'[slot'[e]] = meta[slot[e]]
        /\ \A x : FromDevice(x)' <=> FromDevice(x)
    BY <1>1, <2>1, DevicesRest
  <2>8. inDram[r] = 0 /\ inDram'[r] = 1 /\ \A x \in Requesters : x # r => inDram'[x] = inDram[x]
    <3>1. inDram[r] \in 0 .. DramQueueSize /\ ~(inDram[r] > 0)
      BY <1>2, <1>4 DEF FromDram
    <3>2. inDram[r] = 0
      BY <3>1
    <3> QED
      BY <1>1, <1>2, <3>2
  <2>9. \A x \in Requesters : FromDram(x)' <=> FromDram(x) \/ x = r
    BY <1>4, <2>8 DEF FromDram
  <2>10. NamesApart'
    <3>1. \A x \in Requesters : inDram'[x] <= 1
      BY <1>4, <2>8 DEF NamesApart
    <3>2. \A x \in Requesters : /\ ~(FromDram(x)' /\ FromDevice(x)')
                                /\ FromWrite(x)' => ~FromDram(x)' /\ ~FromDevice(x)'
      BY <1>2, <2>7, <2>9 DEF NamesApart
    <3>3. \A d, e \in Held' : meta'[slot'[d]] = meta'[slot'[e]] => d = e
      BY <2>7 DEF NamesApart
    <3> QED
      BY <1>4, <3>1, <3>2, <3>3 DEF NamesApart
  <2>11. WaitersNamed'
    <3>1. \A x \in Requesters : x \in waiting' <=> FromDram(x)' \/ FromDevice(x)' \/ FromWrite(x)'
      BY <1>1, <1>2, <2>7, <2>9 DEF WaitersNamed
    <3> QED
      BY <1>1, <1>4, <2>7, <3>1 DEF WaitersNamed
  <2>12. MemoryTypeOK'
    BY <1>1, <2>1, <2>4, <2>5 DEF MemoryTypeOK
  <2> QED
    BY <2>6, <2>7, <2>10, <2>11, <2>12
<1>5. CASE backend = "ramulator"
  <2>0. PICK t \in 0 .. DramQueueSize - 1 : t = ring.tail
    BY RingTypes
  <2>1. ring' = [ring EXCEPT !.tail = NextInRing(@)] /\ meta' = [meta EXCEPT ![RingMeta(t)] = r]
    BY <1>5, <2>0 DEF ReadDram
  <2>2. InRing < DramQueueSize
    BY <1>5, RoomInRing
  <2>3. /\ IsFiniteSet(Reads') /\ InRing' = InRing + 1
        /\ inDram' \in [Requesters -> 0 .. DramQueueSize]
    BY <1>1, <2>2, ReadsGrow
  <2>4. /\ RingEntries' = RingEntries \cup {t} /\ t \notin RingEntries /\ RingBounds'
        /\ ring' \in [head: 0 .. DramQueueSize - 1, tail: 0 .. DramQueueSize - 1, free: 0 .. DramQueueSize]
    BY <1>5, <2>0, <2>1, <2>2, <2>3, RingPushed
  <2>5. t \in 0 .. DramQueueSize - 1 /\ \A i \in RingEntries : i \in 0 .. DramQueueSize - 1
    BY RingTypes DEF RingEntries
  <2>6. meta \in [1 .. Len(Devices) + DramQueueSize -> Requesters \cup {None}]
    BY DEF MemoryTypeOK
  <2>7. /\ meta' \in [1 .. Len(Devices) + DramQueueSize -> Requesters \cup {None}]
        /\ meta'[RingMeta(t)] = r
        /\ \A k \in 1 .. Len(Devices) + DramQueueSize : k # RingMeta(t) => meta'[k] = meta[k]
    BY <2>1, <2>5, <2>6, RingMetas
  <2>8. Named(t)' = r /\ \A i \in RingEntries : Named(i)' = Named(i)
    BY <2>4, <2>5, <2>7, RingMetas DEF Named, RingMeta
  <2>9. \A e \in Held : meta'[slot[e]] = meta[slot[e]]
    BY <2>5, <2>7, HeldFacts, RingMetas, ReqMetas
  <2>10. /\ ReqsApart' /\ UartAgrees' /\ DeviceReqsConserved' /\ Held' = Held
         /\ \A e \in Held : meta'[slot'[e]] = meta[slot[e]]
         /\ \A x : FromDevice(x)' <=> FromDevice(x)
    BY <1>1, <2>9, DevicesRest
  <2>11. \A x : FromDram(x)' <=> FromDram(x) \/ x = r
    BY <1>5, <2>4, <2>8 DEF FromDram
  <2>12. NamesApart'
    <3>1. \A i, j \in RingEntries' : Named(i)' = Named(j)' => i = j
      BY <1>2, <1>5, <2>4, <2>8 DEF NamesApart, FromDram
    <3>2. \A x \in Requesters : /\ ~(FromDram(x)' /\ FromDevice(x)')
                                /\ FromWrite(x)' => ~FromDram(x)' /\ ~FromDevice(x)'
      BY <1>2, <2>10, <2>11 DEF NamesApart
    <3>3. \A d, e \in Held' : meta'[slot'[d]] = meta'[slot'[e]] => d = e
      BY <2>10 DEF NamesApart
    <3> QED
      BY <1>5, <3>1, <3>2, <3>3 DEF NamesApart
  <2>13. WaitersNamed'
    <3>1. \A x \in Requesters : x \in waiting' <=> FromDram(x)' \/ FromDevice(x)' \/ FromWrite(x)'
      BY <1>1, <1>2, <2>10, <2>11 DEF WaitersNamed
    <3>2. \A i \in RingEntries' : Named(i)' \in Requesters
      BY <1>5, <2>4, <2>8 DEF WaitersNamed
    <3>3. \A e \in Held' : meta'[slot'[e]] \in Requesters
      BY <2>10 DEF WaitersNamed
    <3> QED
      BY <1>1, <1>5, <3>1, <3>2, <3>3 DEF WaitersNamed
  <2>14. MemoryTypeOK'
    BY <1>1, <2>3, <2>4, <2>7 DEF MemoryTypeOK
  <2> QED
    BY <2>4, <2>10, <2>12, <2>13, <2>14
<1> QED
  BY <1>3, <1>4, <1>5

(* The DRAM model's callback.                                              *)
LEMMA CompleteReadSafe ==
  ASSUME MemoryInv, NEW r \in Requesters, CompleteRead(r)
  PROVE  MemoryInv'
<1> USE DEF MemoryInv
<1>1. /\ inDram[r] > 0 /\ inDram' = [inDram EXCEPT ![r] = @ - 1]
      /\ waiting' = waiting \ {Answered(r)}
      /\ phase' \in {"dram", "writes", "caches"} \cup DeviceNames
      /\ UNCHANGED << backend, idle, meta, slot, uart, write >>
  BY DEF CompleteRead
<1>2. /\ IsFiniteSet(Reads') /\ InRing' = InRing - 1 /\ InRing > 0
      /\ inDram' \in [Requesters -> 0 .. DramQueueSize]
  BY <1>1, ReadsShrink
<1>3. /\ ReqsApart' /\ UartAgrees' /\ DeviceReqsConserved' /\ Held' = Held
      /\ \A e \in Held : meta'[slot'[e]] = meta[slot[e]]
      /\ \A x : FromDevice(x)' <=> FromDevice(x)
  BY <1>1, DevicesRest
<1>4. /\ InRing \in 0 .. DramQueueSize /\ DramQueueSize \in Nat \ {0}
      /\ inDram \in [Requesters -> 0 .. DramQueueSize]
  BY MemoryAssumption DEF RingBounds, MemoryTypeOK
<1>5. \A d, e \in Held' : meta'[slot'[d]] = meta'[slot'[e]] => d = e
  BY <1>3 DEF NamesApart
<1>6. \A e \in Held' : meta'[slot'[e]] \in Requesters
  BY <1>3 DEF WaitersNamed
<1>7. /\ backend = "dramsim" \/ backend = "ramulator"
      /\ \A x : FromWrite(x)' <=> FromWrite(x)
      /\ write'.valid => write'.callback_id \in Writers
  BY <1>1 DEF MemoryTypeOK, FromWrite, WaitersNamed
<1>8. CASE backend = "dramsim"
  <2>1. ring' = [ring EXCEPT !.free = @ + 1] /\ Answered(r) = r
    BY <1>8 DEF CompleteRead, Answered
  <2>2. /\ ring'.free = DramQueueSize - (InRing - 1) - WriteHeld /\ InRing - 1 \in 0 .. DramQueueSize
        /\ ring' \in [head: 0 .. DramQueueSize - 1, tail: 0 .. DramQueueSize - 1, free: 0 .. DramQueueSize]
    <3>1. ring.free = DramQueueSize - InRing - WriteHeld /\ WriteHeld \in {0, 1}
      BY <1>8 DEF RingBounds, WriteHeld
    <3>2. ring.free + 1 \in 0 .. DramQueueSize /\ ring.free + 1 = DramQueueSize - (InRing - 1) - WriteHeld
          /\ InRing - 1 \in 0 .. DramQueueSize
      BY <1>2, <1>4, <3>1, RingTypes
    <3> QED
      BY <2>1, <3>2, RingTypes
  <2>3. RingBounds'
    BY <1>1, <1>8, <1>2, <2>2 DEF RingBounds, WriteHeld
  <2>4. inDram[r] = 1 /\ inDram'[r] = 0 /\ \A x \in Requesters : x # r => inDram'[x] = inDram[x]
    <3>1. inDram[r] \in 0 .. DramQueueSize /\ inDram[r] > 0 /\ inDram[r] <= 1
      BY <1>1, <1>4, <1>8 DEF NamesApart
    <3>2. inDram[r] = 1
      BY <3>1
    <3> QED
      BY <1>1, <1>4, <3>2
  <2>5. /\ FromDram(r) /\ ~FromDevice(r) /\ ~FromWrite(r)
        /\ \A x \in Requesters : FromDram(x)' <=> FromDram(x) /\ x # r
    BY <1>1, <1>8, <2>4 DEF FromDram, NamesApart
  <2>6. NamesApart'
    <3>1. \A x \in Requesters : inDram'[x] <= 1
      BY <1>8, <2>4 DEF NamesApart
    <3>2. \A x \in Requesters : /\ ~(FromDram(x)' /\ FromDevice(x)')
                                /\ FromWrite(x)' => ~FromDram(x)' /\ ~FromDevice(x)'
      BY <1>3, <1>7, <2>5 DEF NamesApart
    <3> QED
      BY <1>1, <1>5, <1>8, <3>1, <3>2 DEF NamesApart
  <2>7. WaitersNamed'
    <3>1. \A x \in Requesters : x \in waiting' <=> FromDram(x)' \/ FromDevice(x)' \/ FromWrite(x)'
      BY <1>1, <1>3, <1>7, <2>1, <2>5 DEF WaitersNamed
    <3> QED
      BY <1>1, <1>6, <1>7, <1>8, <3>1 DEF WaitersNamed
  <2>8. MemoryTypeOK'
    BY <1>1, <1>2, <2>2 DEF MemoryTypeOK
  <2> QED
    BY <1>3, <2>3, <2>6, <2>7, <2>8
<1>9. CASE backend = "ramulator"
  <2> DEFINE h == ring.head
             w == Named(h)
  <2>1. ring' = [ring EXCEPT !.head = NextInRing(@)] /\ Answered(r) = w
    BY <1>9 DEF CompleteRead, Answered, Named
  <2>2. /\ RingEntries' = RingEntries \ {h} /\ h \in RingEntries /\ RingBounds'
        /\ ring' \in [head: 0 .. DramQueueSize - 1, tail: 0 .. DramQueueSize - 1, free: 0 .. DramQueueSize]
    BY <1>1, <1>2, <1>9, <2>1, RingPopped
  <2>3. \A i : Named(i)' = Named(i)
    BY <1>1 DEF Named
  <2>4. \A i, j \in RingEntries : Named(i) = Named(j) => i = j
    BY <1>9 DEF NamesApart
  <2>5. w \in Requesters /\ FromDram(w) /\ ~FromDevice(w) /\ ~FromWrite(w)
    BY <1>9, <2>2 DEF WaitersNamed, FromDram, NamesApart
  <2> HIDE DEF h
  <2>6. \A x : FromDram(x)' <=> FromDram(x) /\ x # w
    BY <1>1, <1>9, <2>2, <2>3, <2>4 DEF FromDram
  <2> HIDE DEF w
  <2>7. NamesApart'
    <3>1. \A i, j \in RingEntries' : Named(i)' = Named(j)' => i = j
      BY <2>2, <2>3, <2>4
    <3>2. \A x \in Requesters : /\ ~(FromDram(x)' /\ FromDevice(x)')
                                /\ FromWrite(x)' => ~FromDram(x)' /\ ~FromDevice(x)'
      BY <1>3, <1>7, <2>6 DEF NamesApart
    <3> QED
      BY <1>1, <1>5, <1>9, <3>1, <3>2 DEF NamesApart
  <2>8. WaitersNamed'
    <3>1. \A x \in Requesters : x \in waiting' <=> FromDram(x)' \/ FromDevice(x)' \/ FromWrite(x)'
      BY <1>1, <1>3, <1>7, <2>1, <2>5, <2>6 DEF WaitersNamed
    <3>2. \A i \in RingEntries' : Named(i)' \in Requesters
      BY <1>9, <2>2, <2>3 DEF WaitersNamed
    <3> QED
      BY <1>1, <1>6, <1>7, <1>9, <3>1, <3>2 DEF WaitersNamed
  <2>9. MemoryTypeOK'
    BY <1>1, <1>2, <2>2 DEF MemoryTypeOK
  <2> QED
    BY <1>3, <2>2, <2>7, <2>8, <2>9
<1> QED
  BY <1>7, <1>8, <1>9

-----------------------------------------------------------------------------
(* Memory::memoryWrite of the DRAM, and its answer.                        *)

\* The only writer finds no write when it asks.
LEMMA NoWriteYet ==
  ASSUME MemoryInv, NEW r \in Writers, r \notin waiting
  PROVE  ~write.valid
<1> SUFFICES ASSUME write.valid PROVE FALSE
  OBVIOUS
<1>1. write.callback_id \in Writers
  BY DEF MemoryInv, WaitersNamed
<1>2. write.callback_id = r /\ r \in Requesters
  BY <1>1, MemoryAssumption
<1>3. FromWrite(r)
  BY <1>2 DEF FromWrite
<1> QED
  BY <1>2, <1>3 DEF MemoryInv, WaitersNamed

\* A step that puts a write in or takes it out, and with DRAMsim3 its request.
LEMMA OnlyTheWrite ==
  ASSUME MemoryInv, UNCHANGED << backend, idle, meta, slot, uart, inDram >>,
         NEW f,
         backend = "dramsim" => /\ f \in 0 .. DramQueueSize
                                /\ f + WriteHeld' = ring.free + WriteHeld,
         ring' = IF backend = "dramsim" THEN [ring EXCEPT !.free = f] ELSE ring
  PROVE  /\ RingBounds' /\ RingEntries' = RingEntries
         /\ ring' \in [head: 0 .. DramQueueSize - 1, tail: 0 .. DramQueueSize - 1, free: 0 .. DramQueueSize]
         /\ \A i \in RingEntries : Named(i)' = Named(i)
         /\ \A x : FromDram(x)' <=> FromDram(x)
         /\ ReqsApart' /\ UartAgrees' /\ DeviceReqsConserved' /\ Held' = Held
         /\ \A e \in Held : meta'[slot'[e]] = meta[slot[e]]
         /\ \A x : FromDevice(x)' <=> FromDevice(x)
<1> USE DEF MemoryInv
<1>1. /\ ring'.head = ring.head /\ ring'.tail = ring.tail
      /\ backend = "dramsim" => ring'.free = f
      /\ ring' \in [head: 0 .. DramQueueSize - 1, tail: 0 .. DramQueueSize - 1, free: 0 .. DramQueueSize]
  BY RingTypes
<1>2. /\ Reads' = Reads /\ InRing' = InRing /\ RingEntries' = RingEntries
      /\ Behind(ring.tail)' = Behind(ring.tail)
      /\ \A i \in RingEntries : Named(i)' = Named(i)
      /\ \A x : FromDram(x)' <=> FromDram(x)
  BY <1>1, DramNamesRest
<1>3. RingBounds'
  <2>1. backend = "dramsim" => ring'.free = DramQueueSize - InRing - WriteHeld'
    <3>1. InRing \in Int /\ DramQueueSize \in Int /\ WriteHeld \in Int /\ WriteHeld' \in Int
      BY MemoryAssumption DEF RingBounds, WriteHeld
    <3> QED
      BY <1>1, <3>1 DEF RingBounds
  <2> QED
    BY <1>2, <2>1 DEF RingBounds
<1>4. /\ ReqsApart' /\ UartAgrees' /\ DeviceReqsConserved' /\ Held' = Held
      /\ \A e \in Held : meta'[slot'[e]] = meta[slot[e]]
      /\ \A x : FromDevice(x)' <=> FromDevice(x)
  BY DevicesRest
<1> QED
  BY <1>1, <1>2, <1>3, <1>4

(* memoryWrite of memory: the slot it fills is empty.                      *)
LEMMA WriteDramSafe ==
  ASSUME MemoryInv, NEW r \in Requesters, r \notin waiting, WriteDram(r), UNCHANGED << backend, phase >>
  PROVE  MemoryInv'
<1> USE DEF MemoryInv
<1>1. /\ r \in Writers /\ (backend = "dramsim" => ring.free > 0)
      /\ ring' = IF backend = "dramsim" THEN [ring EXCEPT !.free = ring.free - 1] ELSE ring
      /\ write' = [valid |-> TRUE, callback_id |-> r] /\ waiting' = waiting \cup {r}
      /\ UNCHANGED << idle, meta, slot, uart, inDram >>
  BY DEF WriteDram
<1>2. WriteHeld' = 1 /\ WriteHeld = 0
  BY <1>1, NoWriteYet DEF WriteHeld
<1>3. backend = "dramsim" => /\ ring.free - 1 \in 0 .. DramQueueSize
                             /\ ring.free - 1 + WriteHeld' = ring.free + WriteHeld
  BY <1>1, <1>2, RingTypes, MemoryAssumption
<1>4. /\ RingBounds' /\ RingEntries' = RingEntries
      /\ ring' \in [head: 0 .. DramQueueSize - 1, tail: 0 .. DramQueueSize - 1, free: 0 .. DramQueueSize]
      /\ \A i \in RingEntries : Named(i)' = Named(i)
      /\ \A x : FromDram(x)' <=> FromDram(x)
      /\ ReqsApart' /\ UartAgrees' /\ DeviceReqsConserved' /\ Held' = Held
      /\ \A e \in Held : meta'[slot'[e]] = meta[slot[e]]
      /\ \A x : FromDevice(x)' <=> FromDevice(x)
  BY <1>1, <1>3, OnlyTheWrite
<1>5. /\ \A x : FromWrite(x)' <=> x = r
      /\ \A x : ~FromWrite(x)
      /\ ~FromDram(r) /\ ~FromDevice(r)
  BY <1>1, NoWriteYet DEF FromWrite, WaitersNamed
<1>6. NamesApart'
  BY <1>1, <1>4, <1>5 DEF NamesApart
<1>7. WaitersNamed'
  BY <1>1, <1>4, <1>5 DEF WaitersNamed
<1>8. MemoryTypeOK'
  <2>1. write' \in [valid: BOOLEAN, callback_id: Requesters \cup {None}]
    BY <1>1
  <2> QED
    BY <1>1, <1>4, <2>1 DEF MemoryTypeOK
<1> QED
  BY <1>4, <1>6, <1>7, <1>8

(* The write's response, or the answer from the slot.                      *)
LEMMA CompleteWriteSafe ==
  ASSUME MemoryInv, CompleteWrite
  PROVE  MemoryInv'
<1> USE DEF MemoryInv
<1>1. write \in [valid: BOOLEAN, callback_id: Requesters \cup {None}] /\ write.valid
  BY DEF MemoryTypeOK, CompleteWrite
<1>2. PICK w \in Requesters : w = write.callback_id
  BY <1>1, MemoryAssumption DEF WaitersNamed
<1>3. /\ phase' = Devices[1] /\ waiting' = waiting \ {w}
      /\ ring' = IF backend = "dramsim" THEN [ring EXCEPT !.free = ring.free + 1] ELSE ring
      /\ write'.valid = FALSE /\ write' \in [valid: BOOLEAN, callback_id: Requesters \cup {None}]
      /\ UNCHANGED << backend, idle, meta, slot, uart, inDram >>
  BY <1>1, <1>2 DEF CompleteWrite
<1>4. WriteHeld' = 0 /\ WriteHeld = 1
  BY <1>1, <1>3 DEF WriteHeld
<1>5. backend = "dramsim" => /\ ring.free + 1 \in 0 .. DramQueueSize
                             /\ ring.free + 1 + WriteHeld' = ring.free + WriteHeld
  <2>1. backend = "dramsim" => ring.free = DramQueueSize - InRing - 1
    BY <1>4 DEF RingBounds
  <2>2. InRing \in 0 .. DramQueueSize /\ DramQueueSize \in Nat
    BY MemoryAssumption DEF RingBounds
  <2> QED
    BY <1>4, <2>1, <2>2, RingTypes
<1>6. /\ RingBounds' /\ RingEntries' = RingEntries
      /\ ring' \in [head: 0 .. DramQueueSize - 1, tail: 0 .. DramQueueSize - 1, free: 0 .. DramQueueSize]
      /\ \A i \in RingEntries : Named(i)' = Named(i)
      /\ \A x : FromDram(x)' <=> FromDram(x)
      /\ ReqsApart' /\ UartAgrees' /\ DeviceReqsConserved' /\ Held' = Held
      /\ \A e \in Held : meta'[slot'[e]] = meta[slot[e]]
      /\ \A x : FromDevice(x)' <=> FromDevice(x)
  BY <1>3, <1>5, OnlyTheWrite
<1>7. /\ \A x : ~FromWrite(x)'
      /\ \A x : FromWrite(x) <=> x = w
      /\ ~FromDram(w) /\ ~FromDevice(w)
  BY <1>1, <1>2, <1>3 DEF FromWrite, NamesApart
<1>8. NamesApart'
  BY <1>3, <1>6, <1>7 DEF NamesApart
<1>9. WaitersNamed'
  BY <1>3, <1>6, <1>7 DEF WaitersNamed
<1>10. MemoryTypeOK'
  BY <1>3, <1>6, ThreeDevices DEF MemoryTypeOK
<1> QED
  BY <1>6, <1>8, <1>9, <1>10

-----------------------------------------------------------------------------
(* Memory::tick: a device's turn.                                          *)

(* The fields of the UART's slot.                                          *)
LEMMA UartType ==
  ASSUME MemoryTypeOK
  PROVE  uart \in [req_valid: BOOLEAN, resp_valid: BOOLEAN, current_delay: 0 .. UartDelay]
  BY DEF MemoryTypeOK

\* What the tick makes of the UART.
LEMMA UartTicks ==
  ASSUME MemoryTypeOK, UartAgrees
  PROVE  /\ UartAfterTick \in [req_valid: BOOLEAN, resp_valid: BOOLEAN, current_delay: 0 .. UartDelay]
         /\ UartAfterTick.resp_valid => ~UartAfterTick.req_valid /\ "uart" \in Held
         /\ ~UartAfterTick.resp_valid => (UartAfterTick.req_valid <=> "uart" \in Held)
<1>1. /\ uart \in [req_valid: BOOLEAN, resp_valid: BOOLEAN, current_delay: 0 .. UartDelay]
      /\ UartDelay \in Nat
  BY UartType, MemoryAssumption
<1>2. CASE ~uart.req_valid
  BY <1>1, <1>2 DEF UartAfterTick, UartAgrees
<1>3. CASE uart.req_valid /\ uart.current_delay = 0
  <2>1. UartAfterTick = [uart EXCEPT !.req_valid = FALSE, !.resp_valid = TRUE]
    BY <1>3 DEF UartAfterTick
  <2> QED
    BY <1>1, <1>3, <2>1 DEF UartAgrees
<1>4. CASE uart.req_valid /\ uart.current_delay # 0
  <2>1. UartAfterTick = [uart EXCEPT !.current_delay = @ - 1]
    BY <1>4 DEF UartAfterTick
  <2>2. uart.current_delay - 1 \in 0 .. UartDelay
    BY <1>1, <1>4
  <2> QED
    BY <1>1, <1>4, <2>1, <2>2 DEF UartAgrees
<1> QED
  BY <1>2, <1>3, <1>4

(* A device answers a request it holds.                                    *)
LEMMA RespondsOnlyIfHeld ==
  ASSUME MemoryTypeOK, UartAgrees, NEW d \in DeviceNames, Responds(d)
  PROVE  d \in Held
  BY UartTicks DEF Responds, Held

(* The UART's flags after its turn.                                        *)
LEMMA UartAfterTurn ==
  ASSUME MemoryTypeOK, UartAgrees, NEW d \in DeviceNames,
         Held' = IF Responds(d) THEN Held \ {d} ELSE Held,
         uart' = IF d = "uart" THEN [UartAfterTick EXCEPT !.resp_valid = FALSE] ELSE uart
  PROVE  /\ UartAgrees'
         /\ uart' \in [req_valid: BOOLEAN, resp_valid: BOOLEAN, current_delay: 0 .. UartDelay]
<1>1. CASE d = "uart"
  <2>1. uart' = [UartAfterTick EXCEPT !.resp_valid = FALSE]
    BY <1>1
  <2>2. Responds(d) <=> UartAfterTick.resp_valid
    BY <1>1 DEF Responds
  <2> DEFINE u == UartAfterTick
  <2>3. /\ u \in [req_valid: BOOLEAN, resp_valid: BOOLEAN, current_delay: 0 .. UartDelay]
        /\ u.resp_valid => ~u.req_valid /\ "uart" \in Held
        /\ ~u.resp_valid => (u.req_valid <=> "uart" \in Held)
    BY UartTicks
  <2> HIDE DEF u
  <2>4. /\ uart'.resp_valid = FALSE /\ uart'.req_valid = u.req_valid
        /\ uart' \in [req_valid: BOOLEAN, resp_valid: BOOLEAN, current_delay: 0 .. UartDelay]
    BY <2>1, <2>3 DEF u
  <2>5. u.resp_valid \in BOOLEAN /\ u.req_valid \in BOOLEAN
    BY <2>3
  <2>6. u.req_valid <=> "uart" \in Held'
    <3>1. CASE u.resp_valid
      BY <1>1, <2>2, <2>3, <3>1 DEF u
    <3>2. CASE ~u.resp_valid
      BY <1>1, <2>2, <2>3, <3>2 DEF u
    <3> QED
      BY <3>1, <3>2
  <2> QED
    BY <2>4, <2>6 DEF UartAgrees
<1>2. CASE d # "uart"
  <2>1. uart' = uart /\ ("uart" \in Held' <=> "uart" \in Held)
    BY <1>2
  <2> QED
    BY <2>1, UartType DEF UartAgrees
<1> QED
  BY <1>1, <1>2

\* The requests stay apart when a device gives its own back.
LEMMA ReqsApartAfterTick ==
  ASSUME MemoryTypeOK, ReqsApart, DeviceReqsConserved, NEW d \in Held,
         slot' = [slot EXCEPT ![d] = NoRequest], idle' = Append(idle, slot[d])
  PROVE  /\ Held' = Held \ {d} /\ ReqsApart' /\ DeviceReqsConserved'
         /\ slot' \in [DeviceNames -> DeviceReqs \cup {NoRequest}]
         /\ \A e \in Held \ {d} : slot'[e] = slot[e]
         /\ Len(idle') <= Len(Devices)
<1>1. PICK f \in DeviceReqs : f = slot[d]
  BY HeldFacts
<1>2. /\ slot \in [DeviceNames -> DeviceReqs \cup {NoRequest}]
      /\ idle \in Seq(DeviceReqs) /\ d \in DeviceNames
  BY DEF MemoryTypeOK, ReqsApart, Held
<1>3. /\ slot'[d] = NoRequest /\ \A e \in DeviceNames : e # d => slot'[e] = slot[e]
      /\ slot' \in [DeviceNames -> DeviceReqs \cup {NoRequest}]
  BY <1>2
<1>4. Held' = Held \ {d}
  BY <1>2, <1>3 DEF Held
<1>5. \A e \in Held \ {d} : slot'[e] = slot[e]
  BY <1>3 DEF Held
<1>6. PICK n \in Nat : n = Len(idle)
  BY <1>2, LenProperties
<1>7. /\ idle' \in Seq(DeviceReqs) /\ Len(idle') = n + 1 /\ idle'[n + 1] = f
      /\ \A i \in 1 .. n : idle'[i] = idle[i]
  BY <1>1, <1>2, <1>6, AppendProperties
<1>8. \A i \in 1 .. n + 1 : i \in 1 .. n \/ i = n + 1
  OBVIOUS
<1>9. \A i \in 1 .. n : idle[i] # f
  BY <1>1, <1>6 DEF ReqsApart
<1>10. \A e \in Held \ {d} : slot[e] # f
  BY <1>1 DEF ReqsApart
<1>11. ReqsApart'
  <2>1. \A i, j \in 1 .. n + 1 : idle'[i] = idle'[j] => i = j
    BY <1>6, <1>7, <1>8, <1>9 DEF ReqsApart
  <2>2. \A i \in 1 .. n + 1, e \in Held' : idle'[i] # slot'[e]
    BY <1>4, <1>5, <1>6, <1>7, <1>8, <1>10 DEF ReqsApart
  <2>3. \A e1, e2 \in Held' : slot'[e1] = slot'[e2] => e1 = e2
    BY <1>4, <1>5 DEF ReqsApart
  <2> QED
    BY <1>7, <2>1, <2>2, <2>3 DEF ReqsApart
<1>12. DeviceReqsConserved'
  <2>1. PICK c \in Nat : c = Cardinality(Held)
    BY HeldFacts
  <2>2. Cardinality(Held') = c - 1 /\ n + c = Cardinality(DeviceReqs)
    <3>1. Cardinality(Held \ {d}) = Cardinality(Held) - 1
      BY HeldFacts, FS_RemoveElement
    <3> QED
      BY <1>4, <1>6, <2>1, <3>1 DEF DeviceReqsConserved
  <2>3. Len(idle') + Cardinality(Held') = Cardinality(DeviceReqs)
    BY <1>7, <2>1, <2>2
  <2>4. {idle'[i] : i \in 1 .. Len(idle')} \cup {slot'[e] : e \in Held'} \subseteq DeviceReqs
    <3>1. \A i \in 1 .. Len(idle') : idle'[i] \in DeviceReqs
      BY <1>7, ElementOfSeq
    <3>2. \A e \in Held' : slot'[e] \in DeviceReqs
      BY <1>4, <1>5, HeldFacts
    <3> QED
      BY <3>1, <3>2
  <2>5. \A q \in DeviceReqs : q \in {idle'[i] : i \in 1 .. Len(idle')} \cup {slot'[e] : e \in Held'}
    <3> TAKE q \in DeviceReqs
    <3>1. (\E i \in 1 .. n : q = idle[i]) \/ (\E e \in Held : q = slot[e])
      BY <1>6 DEF DeviceReqsConserved
    <3>2. CASE \E i \in 1 .. n : q = idle[i]
      <4>1. PICK i \in 1 .. n : q = idle[i]
        BY <3>2
      <4>2. i \in 1 .. n + 1
        OBVIOUS
      <4> QED
        BY <1>7, <4>1, <4>2
    <3>3. CASE \E e \in Held : q = slot[e]
      <4>1. PICK e \in Held : q = slot[e]
        BY <3>3
      <4>2. n + 1 \in 1 .. n + 1
        OBVIOUS
      <4> QED
        BY <1>1, <1>4, <1>5, <1>7, <4>1, <4>2
    <3> QED
      BY <3>1, <3>2, <3>3
  <2> QED
    BY <2>3, <2>4, <2>5 DEF DeviceReqsConserved
<1>13. Len(idle') <= Len(Devices)
  <2>1. /\ IsFiniteSet(Held') /\ IsFiniteSet(Held)
        /\ Cardinality(DeviceReqs) = Len(Devices)
    <3>1. \A a, b \in Int : Cardinality(a .. b) = IF a > b THEN 0 ELSE b - a + 1
      BY FS_Interval
    <3>2. 1 \in Int /\ 3 \in Int
      OBVIOUS
    <3>3. Cardinality(1 .. 3) = IF 1 > 3 THEN 0 ELSE 3 - 1 + 1
      BY <3>1, <3>2, Zenon
    <3>4. Cardinality(1 .. 3) = 3
      BY <3>3
    <3>5. IsFiniteSet(Held \ {d})
      BY HeldFacts, FS_RemoveElement
    <3> QED
      BY <1>4, <3>4, <3>5, HeldFacts, ThreeDevices
  <2>2. PICK c \in Nat : c = Cardinality(Held')
    BY <2>1, FS_CardinalityType
  <2>3. n + 1 + c = Len(Devices)
    BY <1>7, <1>12, <2>1, <2>2 DEF DeviceReqsConserved
  <2> QED
    BY <1>7, <2>3
<1> QED
  BY <1>3, <1>4, <1>5, <1>11, <1>12, <1>13

(* The next turn is one.                                                   *)
LEMMA NextPhaseType ==
  ASSUME NEW d \in DeviceNames
  PROVE  NextPhase(d) \in {"dram", "writes", "caches"} \cup DeviceNames
<1>1. \E i \in 1 .. 3 : Devices[i] = d
  BY ThreeDevices DEF DeviceNames
<1> DEFINE i == CHOOSE i \in 1 .. Len(Devices) : Devices[i] = d
<1>2. i \in 1 .. 3
  BY <1>1, ThreeDevices
<1>3. NextPhase(d) = IF i = Len(Devices) THEN "caches" ELSE Devices[i + 1]
  BY DEF NextPhase
<1> HIDE DEF i
<1>4. i = 1 \/ i = 2 \/ i = 3
  BY <1>2
<1> QED
  BY <1>3, <1>4, ThreeDevices

(* A device's turn: it answers or does not.                                *)
LEMMA DeviceTickSafe ==
  ASSUME MemoryInv, NEW d \in DeviceNames, DeviceTick(d)
  PROVE  MemoryInv'
<1> USE DEF MemoryInv
<1>1. /\ phase' = NextPhase(d) /\ UNCHANGED << backend, meta, ring, inDram, write >>
      /\ uart' = IF d = "uart" THEN [UartAfterTick EXCEPT !.resp_valid = FALSE] ELSE uart
  BY DEF DeviceTick
<1>2. /\ RingBounds' /\ RingEntries' = RingEntries
      /\ \A i \in RingEntries : Named(i)' = Named(i)
      /\ \A x : FromDram(x)' <=> FromDram(x)
      /\ \A x : FromWrite(x)' <=> FromWrite(x)
  BY <1>1, DramRests
<1>3. phase' \in {"dram", "writes", "caches"} \cup DeviceNames
  BY <1>1, NextPhaseType
<1>4. CASE Responds(d)
  <2>1. d \in Held
    BY <1>4, RespondsOnlyIfHeld
  <2>2. /\ waiting' = waiting \ {meta[slot[d]]}
        /\ slot' = [slot EXCEPT ![d] = NoRequest] /\ idle' = Append(idle, slot[d])
    BY <1>4 DEF DeviceTick, GivenBack
  <2>3. /\ Held' = Held \ {d} /\ ReqsApart' /\ DeviceReqsConserved'
        /\ slot' \in [DeviceNames -> DeviceReqs \cup {NoRequest}]
        /\ \A e \in Held \ {d} : slot'[e] = slot[e]
        /\ Len(idle') <= Len(Devices)
    BY <2>1, <2>2, ReqsApartAfterTick
  <2>4. PICK w \in Requesters : w = meta[slot[d]]
    BY <2>1 DEF WaitersNamed
  <2>5. \A e \in Held' : meta'[slot'[e]] = meta[slot[e]] /\ meta[slot[e]] # w
    BY <1>1, <2>1, <2>3, <2>4 DEF NamesApart
  <2>6. \A x : FromDevice(x)' <=> FromDevice(x) /\ x # w
    BY <2>3, <2>4, <2>5 DEF FromDevice
  <2>7. FromDevice(w) /\ ~FromDram(w) /\ ~FromWrite(w)
    BY <2>1, <2>4 DEF FromDevice, NamesApart
  <2>8. UartAgrees' /\ uart' \in [req_valid: BOOLEAN, resp_valid: BOOLEAN, current_delay: 0 .. UartDelay]
    BY <1>1, <1>4, <2>3, UartAfterTurn
  <2>9. NamesApart'
    <3>1. \A e1, e2 \in Held' : meta'[slot'[e1]] = meta'[slot'[e2]] => e1 = e2
      BY <2>3, <2>5 DEF NamesApart
    <3>2. \A x \in Requesters : /\ ~(FromDram(x)' /\ FromDevice(x)')
                                /\ FromWrite(x)' => ~FromDram(x)' /\ ~FromDevice(x)'
      BY <1>2, <2>6 DEF NamesApart
    <3> QED
      BY <1>1, <1>2, <3>1, <3>2 DEF NamesApart
  <2>10. WaitersNamed'
    <3>1. \A x \in Requesters : x \in waiting' <=> FromDram(x)' \/ FromDevice(x)' \/ FromWrite(x)'
      BY <1>2, <2>2, <2>4, <2>6, <2>7 DEF WaitersNamed
    <3>2. \A e \in Held' : meta'[slot'[e]] \in Requesters
      BY <2>3, <2>5 DEF WaitersNamed
    <3> QED
      BY <1>1, <1>2, <3>1, <3>2 DEF WaitersNamed
  <2>11. \A i \in 1 .. Len(idle') : idle'[i] \in DeviceReqs
    BY <2>3, ElementOfSeq DEF ReqsApart
  <2>12. MemoryTypeOK'
    BY <1>1, <1>3, <2>2, <2>3, <2>8, <2>11 DEF MemoryTypeOK
  <2> QED
    BY <1>2, <2>3, <2>8, <2>9, <2>10, <2>12
<1>5. CASE ~Responds(d)
  <2>1. UNCHANGED << waiting, idle, slot >>
    BY <1>5 DEF DeviceTick
  <2>2. Held' = Held
    BY <2>1 DEF Held
  <2>3. ReqsApart' /\ DeviceReqsConserved'
    BY <2>1, <2>2 DEF ReqsApart, DeviceReqsConserved
  <2>4. \A e \in Held : meta'[slot'[e]] = meta[slot[e]]
    BY <1>1, <2>1
  <2>5. \A x : FromDevice(x)' <=> FromDevice(x)
    BY <2>2, <2>4 DEF FromDevice
  <2>6. UartAgrees' /\ uart' \in [req_valid: BOOLEAN, resp_valid: BOOLEAN, current_delay: 0 .. UartDelay]
    BY <1>1, <1>5, <2>2, UartAfterTurn
  <2>7. NamesApart'
    BY <1>1, <1>2, <2>2, <2>4, <2>5 DEF NamesApart
  <2>8. WaitersNamed'
    BY <1>1, <1>2, <2>1, <2>2, <2>4, <2>5 DEF WaitersNamed
  <2>9. MemoryTypeOK'
    BY <1>1, <1>3, <2>1, <2>6 DEF MemoryTypeOK
  <2> QED
    BY <1>2, <2>3, <2>6, <2>7, <2>8, <2>9
<1> QED
  BY <1>4, <1>5

-----------------------------------------------------------------------------
(* The invariant.                                                          *)

(* A step that only passes the turn.                                       *)
LEMMA RestSafe ==
  ASSUME MemoryInv, UNCHANGED << backend, requestVars >>,
         phase' \in {"dram", "writes", "caches"} \cup DeviceNames
  PROVE  MemoryInv'
<1> USE DEF MemoryInv
<1>1. UNCHANGED << backend, waiting, idle, meta, slot, uart, ring, inDram, write >>
  BY DEF requestVars
<1>2. /\ RingBounds' /\ RingEntries' = RingEntries
      /\ \A i \in RingEntries : Named(i)' = Named(i)
      /\ \A x : FromDram(x)' <=> FromDram(x)
      /\ \A x : FromWrite(x)' <=> FromWrite(x)
  BY <1>1, DramRests
<1>3. /\ ReqsApart' /\ UartAgrees' /\ DeviceReqsConserved' /\ Held' = Held
      /\ \A e \in Held : meta'[slot'[e]] = meta[slot[e]]
      /\ \A x : FromDevice(x)' <=> FromDevice(x)
  BY <1>1, DevicesRest
<1>4. NamesApart'
  BY <1>1, <1>2, <1>3 DEF NamesApart
<1>5. WaitersNamed'
  BY <1>1, <1>2, <1>3 DEF WaitersNamed
<1>6. MemoryTypeOK'
  BY <1>1 DEF MemoryTypeOK
<1> QED
  BY <1>2, <1>3, <1>4, <1>5, <1>6

(* The memory starts with every DeviceReq idle and nobody waiting.         *)
LEMMA MemoryInitSafe ==
  ASSUME MemoryInit
  PROVE  MemoryInv
<1> USE DEF MemoryInit
<1>1. DramQueueSize \in Nat \ {0} /\ UartDelay \in Nat
  BY MemoryAssumption
<1>2. idle = [i \in 1 .. 3 |-> i] /\ idle \in Seq(1 .. 3) /\ Len(idle) = 3
  <2>1. idle = [i \in 1 .. 3 |-> i]
    BY ThreeDevices
  <2>2. idle \in [1 .. 3 -> 1 .. 3] /\ 3 \in Nat
    BY <2>1
  <2> QED
    BY <2>1, <2>2, SeqDef, LenProperties
<1>3. Held = {} /\ Cardinality(Held) = 0
  BY FS_EmptySet DEF Held
<1>4. Reads = {}
  <2>1. SUFFICES ASSUME NEW p \in Reads PROVE FALSE
    OBVIOUS
  <2>2. p[1] \in Requesters /\ p[2] \in 1 .. DramQueueSize /\ p[2] <= inDram[p[1]]
    BY DEF Reads
  <2>3. PICK k \in 1 .. DramQueueSize : k = p[2]
    BY <2>2
  <2>4. inDram[p[1]] = 0
    BY <2>2
  <2>5. k <= 0
    BY <2>2, <2>3, <2>4
  <2> QED
    BY <1>1, <2>5
<1>5. IsFiniteSet(Reads) /\ InRing = 0
  BY <1>4, FS_EmptySet DEF InRing
<1>6. RingEntries = {}
  <2>1. \A i \in 0 .. DramQueueSize - 1 : ~(Gap(i, 0) < 0)
    <3>1. TAKE i \in 0 .. DramQueueSize - 1
    <3>2. 0 \in 0 .. DramQueueSize - 1
      BY <1>1
    <3>3. Gap(i, 0) \in 0 .. DramQueueSize - 1
      BY <3>2, GapIs
    <3> QED
      BY <1>1, <3>3
  <2>2. RingEntries = {i \in 0 .. DramQueueSize - 1 : Gap(i, 0) < 0}
    BY <1>5 DEF RingEntries, Gap
  <2> QED
    BY <2>1, <2>2
<1>7. MemoryTypeOK
  BY <1>1, <1>2, ThreeDevices DEF MemoryTypeOK
<1>8. ReqsApart
  <2>1. \A i, j \in 1 .. 3 : idle[i] = idle[j] => i = j
    BY <1>2
  <2> QED
    BY <1>2, <1>3, <2>1, ThreeDevices DEF ReqsApart
<1>9. DeviceReqsConserved
  <2>1. \A a, b \in Int : Cardinality(a .. b) = IF a > b THEN 0 ELSE b - a + 1
    BY FS_Interval
  <2>2. 1 \in Int /\ 3 \in Int
    OBVIOUS
  <2>3. Cardinality(1 .. 3) = IF 1 > 3 THEN 0 ELSE 3 - 1 + 1
    BY <2>1, <2>2, Zenon
  <2>4. Cardinality(DeviceReqs) = 3
    BY <2>3, ThreeDevices
  <2>5. {idle[i] : i \in 1 .. 3} = 1 .. 3
    BY <1>2
  <2>6. {slot[d] : d \in Held} = {}
    BY <1>3
  <2>7. Len(idle) + Cardinality(Held) = Cardinality(DeviceReqs)
    BY <1>2, <1>3, <2>4
  <2>8. {idle[i] : i \in 1 .. Len(idle)} \cup {slot[d] : d \in Held} = DeviceReqs
    BY <1>2, <2>5, <2>6, ThreeDevices
  <2> QED
    BY <2>7, <2>8 DEF DeviceReqsConserved
<1>10. UartAgrees
  BY <1>3 DEF UartAgrees
<1>11. RingBounds
  <2>1. 0 % DramQueueSize = 0
    <3>1. 0 \in 0 .. 2 * DramQueueSize - 1
      BY <1>1
    <3> QED
      BY <1>1, <3>1, ModSmall
  <2>2. Behind(ring.tail) = 0
    BY <1>1, GapFacts DEF Behind
  <2> QED
    BY <1>1, <1>5, <2>1, <2>2 DEF RingBounds, WriteHeld
<1>12. \A x \in Requesters : ~FromDram(x) /\ ~FromDevice(x) /\ ~FromWrite(x) /\ inDram[x] = 0
  BY <1>3, <1>6 DEF FromDram, FromDevice, FromWrite
<1>13. NamesApart
  BY <1>3, <1>6, <1>12 DEF NamesApart
<1>14. WaitersNamed
  BY <1>3, <1>6, <1>12 DEF WaitersNamed
<1> QED
  BY <1>7, <1>8, <1>9, <1>10, <1>11, <1>13, <1>14 DEF MemoryInv

(* Every step keeps the invariant.                                         *)
LEMMA MemoryStepSafe ==
  ASSUME MemoryInv, [MemoryNext]_memoryVars
  PROVE  MemoryInv'
<1>1. CASE ReadsDone \/ WritesDone
  BY <1>1, RestSafe, ThreeDevices DEF ReadsDone, WritesDone
<1>2. CASE CachesDone
  BY <1>2, RestSafe DEF CachesDone
<1>3. ASSUME NEW d \in DeviceNames, DeviceTick(d) PROVE MemoryInv'
  BY <1>3, DeviceTickSafe
<1>4. ASSUME NEW r \in Requesters, Lookup(r) PROVE MemoryInv'
  BY <1>4, RequestDeviceSafe, RefuseDeviceSafe, ReadDramSafe, WriteDramSafe DEF Lookup
<1>5. ASSUME NEW r \in Requesters, CompleteRead(r) PROVE MemoryInv'
  BY <1>5, CompleteReadSafe
<1>6. CASE CompleteWrite
  BY <1>6, CompleteWriteSafe
<1>7. CASE UNCHANGED memoryVars
  BY <1>7, RestSafe DEF memoryVars, MemoryInv, MemoryTypeOK
<1> QED
  BY <1>1, <1>2, <1>3, <1>4, <1>5, <1>6, <1>7 DEF MemoryNext, Cycle

(* Requests, slots, the ring of metas and the waiting caches stay in step
   (Memory::memoryRead, Memory::memoryWrite, Memory::tick). *)
THEOREM MemorySafe == MemorySpec => []MemoryInv
<1>1. MemoryInit => MemoryInv
  BY MemoryInitSafe
<1>2. MemoryInv /\ [MemoryNext]_memoryVars => MemoryInv'
  BY MemoryStepSafe
<1> QED
  BY <1>1, <1>2, PTL DEF MemorySpec

(* Every variable of the memory keeps its range; in particular Ramulator's
   reads never outnumber the metas of the ring, which the code does not check
   (dram_read_queue, dram_idle_queue). *)
THEOREM MemoryTypeCorrect == MemorySpec => []MemoryTypeOK
<1>1. MemoryInv => MemoryTypeOK
  BY DEF MemoryInv
<1> QED
  BY <1>1, MemorySafe, PTL

(* No DeviceReq is lost and none is given out twice (device_idle_queue). *)
THEOREM DeviceReqsAreConserved == MemorySpec => []DeviceReqsConserved
<1>1. MemoryInv => DeviceReqsConserved
  BY DEF MemoryInv
<1> QED
  BY <1>1, MemorySafe, PTL

(* A set of at most one element counts as a truth value.                   *)
LEMMA CountOfAtMostOne ==
  ASSUME NEW S, NEW P, S = {} \/ (\E x : S = {x}), P <=> S # {}
  PROVE  Cardinality(S) = IF P THEN 1 ELSE 0
<1>1. CASE S = {}
  BY <1>1, FS_EmptySet
<1>2. CASE \E x : S = {x}
  <2>1. PICK x : S = {x}
    BY <1>2
  <2>2. Cardinality(S) = 1
    BY <2>1, FS_Singleton
  <2> QED
    BY <2>1, <2>2
<1> QED
  BY <1>1, <1>2

(* The places that will call a requester back: one if it waits, none if it *)
(* does not.                                                               *)
LEMMA NamedOnce ==
  ASSUME MemoryInv, NEW r \in Requesters
  PROVE  Answers(r) = IF r \in waiting THEN 1 ELSE 0
<1> USE DEF MemoryInv
<1> DEFINE D == {d \in Held : meta[slot[d]] = r}
           R == {i \in RingEntries : Named(i) = r}
           a == Cardinality(D)
           b == IF backend = "dramsim" THEN inDram[r] ELSE Cardinality(R)
           c == IF write.valid /\ write.callback_id = r THEN 1 ELSE 0
<1>1. a = IF FromDevice(r) THEN 1 ELSE 0
  <2>1. D = {} \/ \E d : D = {d}
    <3>1. \A d, e \in D : d = e
      BY DEF NamesApart
    <3> HIDE DEF D
    <3> QED
      BY <3>1
  <2>2. FromDevice(r) <=> D # {}
    BY DEF FromDevice
  <2> HIDE DEF D
  <2> QED
    BY <2>1, <2>2, CountOfAtMostOne
<1>2. b = IF FromDram(r) THEN 1 ELSE 0
  <2>1. CASE backend = "dramsim"
    <3>1. inDram[r] \in 0 .. DramQueueSize /\ inDram[r] <= 1
      BY <2>1 DEF MemoryTypeOK, NamesApart
    <3>2. inDram[r] = IF inDram[r] > 0 THEN 1 ELSE 0
      BY <3>1, MemoryAssumption
    <3> QED
      BY <2>1, <3>2 DEF FromDram
  <2>2. CASE backend # "dramsim"
    <3>1. backend = "ramulator"
      BY <2>2 DEF MemoryTypeOK
    <3>2. R = {} \/ \E i : R = {i}
      BY <3>1 DEF NamesApart
    <3>3. FromDram(r) <=> R # {}
      BY <3>1 DEF FromDram
    <3> HIDE DEF R
    <3>4. Cardinality(R) = IF FromDram(r) THEN 1 ELSE 0
      BY <3>2, <3>3, CountOfAtMostOne
    <3> QED
      BY <2>2, <3>4
  <2> QED
    BY <2>1, <2>2
<1>3. c = IF FromWrite(r) THEN 1 ELSE 0
  BY DEF FromWrite
<1>4. Answers(r) = a + b + c
  BY DEF Answers, Named
<1> HIDE DEF a, b, c
<1>5. /\ r \in waiting <=> FromDram(r) \/ FromDevice(r) \/ FromWrite(r)
      /\ ~(FromDram(r) /\ FromDevice(r)) /\ (FromWrite(r) => ~FromDram(r) /\ ~FromDevice(r))
  BY DEF WaitersNamed, NamesApart
<1> QED
  BY <1>1, <1>2, <1>3, <1>4, <1>5

(* A waiting cache is called back from exactly one place and any other from
   none, whether it reads or writes, with either DRAM model and in whatever
   order Ramulator's reads complete (callbacks of Memory::tick, the write slot
   of memoryWrite, LinkList::next and pop). *)
THEOREM OneAnswer == MemorySpec => []OneAnswerEach
<1>1. MemoryInv => OneAnswerEach
  BY NamedOnce DEF OneAnswerEach
<1> QED
  BY <1>1, MemorySafe, PTL

-----------------------------------------------------------------------------
(* The memory implements ReadPort.                                         *)

\* How many calls each requester has to expect.
AnswersDue == [r \in Requesters |-> Answers(r)]

(* The calls due are those of the requesters that wait.                    *)
LEMMA DueIs ==
  ASSUME MemoryInv
  PROVE  AnswersDue = [r \in Requesters |-> IF r \in waiting THEN 1 ELSE 0]
  BY NamedOnce DEF AnswersDue

(* A step takes one of a requester that does not wait, or calls one back    *)
(* that does, or changes nothing for any.                                   *)
LEMMA WaitingChanges ==
  ASSUME MemoryInv, [MemoryNext]_memoryVars
  PROVE  \/ waiting' = waiting
         \/ \E r \in Requesters : r \notin waiting /\ waiting' = waiting \cup {r}
         \/ \E r \in waiting : waiting' = waiting \ {r}
<1>1. ASSUME NEW r \in Requesters, Lookup(r)
      PROVE  r \notin waiting /\ (waiting' = waiting \/ waiting' = waiting \cup {r})
  BY <1>1 DEF Lookup, RequestDevice, RefuseDevice, ReadDram, WriteDram
<1>2. ASSUME NEW r \in Requesters, CompleteRead(r)
      PROVE  \E x : waiting' = waiting \ {x}
  BY <1>2 DEF CompleteRead
<1>3. ASSUME NEW d \in DeviceNames, DeviceTick(d)
      PROVE  waiting' = waiting \/ \E x : waiting' = waiting \ {x}
  BY <1>3 DEF DeviceTick
<1>4. ASSUME NEW x, waiting' = waiting \ {x}
      PROVE  waiting' = waiting \/ \E r \in waiting : waiting' = waiting \ {r}
  BY <1>4
<1>5. CASE ReadsDone \/ WritesDone \/ CachesDone \/ UNCHANGED memoryVars
  BY <1>5 DEF ReadsDone, WritesDone, CachesDone, memoryVars, requestVars
<1>6. ASSUME CompleteWrite PROVE \E x : waiting' = waiting \ {x}
  BY <1>6 DEF CompleteWrite
<1> QED
  BY <1>1, <1>2, <1>3, <1>4, <1>5, <1>6 DEF MemoryNext, Cycle

(* What a step does to the calls due, seen from the requesters.            *)
LEMMA DueChanges ==
  ASSUME MemoryInv, MemoryInv', [MemoryNext]_memoryVars
  PROVE  Parent!Next \/ UNCHANGED AnswersDue
<1>1. /\ AnswersDue = [r \in Requesters |-> IF r \in waiting THEN 1 ELSE 0]
      /\ AnswersDue' = [r \in Requesters |-> IF r \in waiting' THEN 1 ELSE 0]
  <2>1. MemoryInv => AnswersDue = [r \in Requesters |-> IF r \in waiting THEN 1 ELSE 0]
    BY DueIs
  <2>2. (MemoryInv => AnswersDue = [r \in Requesters |-> IF r \in waiting THEN 1 ELSE 0])'
    BY DueIs, PTL
  <2> QED
    BY <2>1, <2>2
<1>2. CASE waiting' = waiting
  BY <1>1, <1>2
<1>3. ASSUME NEW r \in Requesters, r \notin waiting, waiting' = waiting \cup {r}
      PROVE  Parent!Next
  <2>1. AnswersDue[r] = 0 /\ AnswersDue' = [AnswersDue EXCEPT ![r] = 1]
    BY <1>1, <1>3
  <2>2. Parent!Ask(r)
    BY <2>1 DEF Parent!Ask, AnswersDue
  <2> QED
    BY <2>2 DEF Parent!Next
<1>4. ASSUME NEW r \in waiting, waiting' = waiting \ {r}
      PROVE  Parent!Next
  <2>1. r \in Requesters
    BY <1>4 DEF MemoryInv, MemoryTypeOK
  <2>2. AnswersDue[r] = 1 /\ AnswersDue' = [AnswersDue EXCEPT ![r] = 0]
    BY <1>1, <1>4, <2>1
  <2>3. Parent!CallBack(r)
    BY <2>2 DEF Parent!CallBack, AnswersDue
  <2> QED
    BY <2>1, <2>3 DEF Parent!Next
<1> QED
  BY <1>2, <1>3, <1>4, WaitingChanges

(* The memory takes one request of each cache at a time, a read or a write, *)
(* and calls each cache back once for it: through the device slots, the     *)
(* queue of DeviceReqs, the ring of metas and the slot for writes, and with *)
(* Ramulator in whatever order its reads complete (memoryRead, memoryWrite, *)
(* tick).                                                                   *)
THEOREM ParentRefinement == MemorySpec => ImplementsParent
<1>1. MemoryInit => Parent!Init
  <2>1. SUFFICES ASSUME MemoryInit PROVE AnswersDue = [r \in Requesters |-> 0]
    BY DEF Parent!Init, AnswersDue
  <2>2. MemoryInv /\ waiting = {}
    BY <2>1, MemoryInitSafe DEF MemoryInit
  <2> QED
    BY <2>2, DueIs
<1>2. MemoryInv /\ MemoryInv' /\ [MemoryNext]_memoryVars
        => [Parent!Next]_([r \in Requesters |-> Answers(r)])
  BY DueChanges DEF AnswersDue
<1> QED
  BY <1>1, <1>2, MemorySafe, PTL DEF MemorySpec, ImplementsParent, Parent!Spec

=============================================================================
