------------------------------ MODULE UnitsProofs ------------------------------
(***************************************************************************)
(* Proofs about the byte FIFO, the 16550 and the predictors, each for any  *)
(* value of its constants: the ring of fifo8.cpp implements ByteQueue, the *)
(* UART's interrupts and LSR.DR follow its registers, and the predictors   *)
(* keep what a rollback needs and restore the history with it. Last come   *)
(* the types of all units.                                                 *)
(***************************************************************************)
EXTENDS MCUnits, LinesProofs, FiniteSetTheorems, SequenceTheorems

-----------------------------------------------------------------------------
(* Arithmetic.                                                             *)

(* The remainder of a sum of two places of a ring.                         *)
LEMMA SmallModulus ==
  ASSUME NEW q \in Nat \ {0}, NEW x \in 0 .. 2 * q - 1
  PROVE  x % q = IF x < q THEN x ELSE x - q
<1>1. x % q \in 0 .. q - 1 /\ x \div q \in Int /\ x = q * (x \div q) + (x % q)
  BY SMT
<1> DEFINE d == x \div q
           r == x % q
<1>2. d \in Int /\ r \in Int /\ 0 <= r /\ r < q /\ x = q * d + r
  BY <1>1
<1> HIDE DEF d, r
<1>3. d = 0 \/ d = 1
  <2>1. CASE d < 0
    <3>1. q * d <= -q
      BY <2>1, <1>2, SMT
    <3> QED
      BY <3>1, <1>2, SMT
  <2>2. CASE d > 1
    <3>1. q * d >= 2 * q
      BY <2>2, <1>2, SMT
    <3> QED
      BY <3>1, <1>2, SMT
  <2> QED
    BY <2>1, <2>2, <1>2, SMT
<1>4. r = IF x < q THEN x ELSE x - q
  BY <1>2, <1>3, SMT
<1> QED
  BY <1>4 DEF r

-----------------------------------------------------------------------------
(* Fifo8 is a queue.                                                       *)

\* Where the i-th oldest byte is.
Place(head, i) == (head + i - 1) % Capacity

(* The place of a byte, without a remainder.                               *)
LEMMA PlaceIs ==
  ASSUME NEW h \in Slots, NEW i \in 1 .. Capacity
  PROVE  /\ Place(h, i) \in Slots
         /\ Place(h, i) = IF h + i - 1 < Capacity THEN h + i - 1 ELSE h + i - 1 - Capacity
<1> DEFINE q == Capacity
           x == h + i - 1
<1>1. q \in Nat \ {0} /\ h \in 0 .. q - 1 /\ i \in 1 .. q /\ x \in 0 .. 2 * q - 1 /\ x = h + i - 1
  BY CapacityAssumption DEF Slots
<1>2. Place(h, i) = x % q
  BY DEF Place
<1> HIDE DEF x, q
<1>3. x % q = IF x < q THEN x ELSE x - q
  BY <1>1, SmallModulus
<1>4. Place(h, i) = IF x < q THEN x ELSE x - q
  BY <1>2, <1>3
<1>5. Place(h, i) \in 0 .. q - 1
  BY <1>1, <1>4
<1> QED
  BY <1>1, <1>4, <1>5 DEF Slots, q

\* The bytes of a FIFO with given storage, head and number.
Bytes8(data, head, num) == [i \in 1 .. num |-> data[Place(head, i)]]

(* The bytes of a ring are a sequence of its length.                       *)
LEMMA Bytes8Seq ==
  ASSUME NEW data \in [Slots -> FifoBytes], NEW h \in Slots, NEW n \in 0 .. Capacity
  PROVE  /\ Bytes8(data, h, n) \in Seq(FifoBytes) /\ Len(Bytes8(data, h, n)) = n
         /\ \A i \in 1 .. n : Bytes8(data, h, n)[i] = data[Place(h, i)]
<1> DEFINE s == Bytes8(data, h, n)
<1>1. n \in Nat /\ \A i \in 1 .. n : i \in 1 .. Capacity
  BY CapacityAssumption
<1>2. \A i \in 1 .. n : data[Place(h, i)] \in FifoBytes
  BY <1>1, PlaceIs
<1>3. s \in [1 .. n -> FifoBytes] /\ DOMAIN s = 1 .. n /\ \A i \in 1 .. n : s[i] = data[Place(h, i)]
  BY <1>2 DEF Bytes8
<1> HIDE DEF s
<1>4. s \in Seq(FifoBytes)
  BY <1>1, <1>3, SeqDef
<1>5. Len(s) = n
  BY <1>1, <1>3, <1>4, LenProperties
<1> QED
  BY <1>3, <1>4, <1>5 DEF s

\* The storage after the i-th oldest bytes, i in 1 .. n, were kept and more added.
Added(new, data, head, n, bytes, k) ==
  /\ \A i \in 1 .. n : new[Place(head, i)] = data[Place(head, i)]
  /\ \A j \in 1 .. k : new[Place(head, n + j)] = bytes[j]

(* A ring that has more bytes behind the old ones holds the concatenation. *)
LEMMA Appended ==
  ASSUME NEW data \in [Slots -> FifoBytes], NEW new \in [Slots -> FifoBytes],
         NEW h \in Slots, NEW n \in 0 .. Capacity, NEW k \in 1 .. Capacity - n,
         NEW bytes \in [1 .. k -> FifoBytes],
         Added(new, data, h, n, bytes, k)
  PROVE  Bytes8(new, h, n + k) = Bytes8(data, h, n) \o bytes
<1> DEFINE s == Bytes8(data, h, n)
           t == Bytes8(new, h, n + k)
<1>1. Capacity \in Nat /\ n \in Nat /\ k \in Nat /\ n + k \in 0 .. Capacity
  BY CapacityAssumption
<1>2. s \in Seq(FifoBytes) /\ Len(s) = n /\ \A i \in 1 .. n : s[i] = data[Place(h, i)]
  BY Bytes8Seq
<1>3. t \in Seq(FifoBytes) /\ Len(t) = n + k /\ \A i \in 1 .. n + k : t[i] = new[Place(h, i)]
  BY <1>1, Bytes8Seq
<1>4. bytes \in Seq(FifoBytes) /\ Len(bytes) = k
  <2>1. bytes \in Seq(FifoBytes)
    BY <1>1, SeqDef
  <2> QED
    BY <1>1, <2>1, LenProperties
<1>0. /\ \A i \in 1 .. n : new[Place(h, i)] = data[Place(h, i)]
      /\ \A j \in 1 .. k : new[Place(h, n + j)] = bytes[j]
  BY DEF Added
<1> HIDE DEF s, t
<1>5. /\ s \o bytes \in Seq(FifoBytes) /\ Len(s \o bytes) = n + k
      /\ \A i \in 1 .. n + k : (s \o bytes)[i] = IF i <= n THEN s[i] ELSE bytes[i - n]
  BY <1>2, <1>4, ConcatProperties
<1>6. \A i \in 1 .. n + k : t[i] = (s \o bytes)[i]
  <2> TAKE i \in 1 .. n + k
  <2>1. CASE i <= n
    <3>1. i \in 1 .. n
      BY <1>1, <2>1
    <3> QED
      BY <1>0, <1>2, <1>3, <1>5, <2>1, <3>1
  <2>2. CASE ~(i <= n)
    <3>1. i - n \in 1 .. k /\ n + (i - n) = i
      BY <1>1, <2>2
    <3>2. new[Place(h, n + (i - n))] = bytes[i - n]
      BY <1>0, <3>1
    <3> QED
      BY <1>3, <1>5, <2>2, <3>1, <3>2
  <2> QED
    BY <2>1, <2>2
<1>7. t = s \o bytes
  BY <1>3, <1>5, <1>6, SeqEqual
<1> QED
  BY <1>7 DEF s, t

(* A ring whose head has moved holds the rest.                             *)
LEMMA Dropped ==
  ASSUME NEW data \in [Slots -> FifoBytes], NEW h \in Slots, NEW g \in Slots,
         NEW n \in 0 .. Capacity, NEW k \in 1 .. n, g = (h + k) % Capacity
  PROVE  Bytes8(data, g, n - k) = SubSeq(Bytes8(data, h, n), k + 1, n)
<1> DEFINE s == Bytes8(data, h, n)
           t == Bytes8(data, g, n - k)
<1>1. /\ Capacity \in Nat \ {0} /\ n \in Nat /\ k \in Nat /\ n - k \in 0 .. Capacity
      /\ n <= Capacity /\ k <= n /\ h \in 0 .. Capacity - 1 /\ g \in 0 .. Capacity - 1
  BY CapacityAssumption DEF Slots
<1>2. s \in Seq(FifoBytes) /\ Len(s) = n /\ \A i \in 1 .. n : s[i] = data[Place(h, i)]
  BY Bytes8Seq
<1>3. t \in Seq(FifoBytes) /\ Len(t) = n - k /\ \A i \in 1 .. n - k : t[i] = data[Place(g, i)]
  BY <1>1, Bytes8Seq
<1> HIDE DEF s, t
<1>4. \A i \in k + 1 .. n : s[i] \in FifoBytes
  <2> TAKE i \in k + 1 .. n
  <2>1. i \in 1 .. Len(s)
    BY <1>1, <1>2
  <2> QED
    BY <1>2, <2>1, ElementOfSeq
<1>5. /\ SubSeq(s, k + 1, n) \in Seq(FifoBytes)
      /\ Len(SubSeq(s, k + 1, n)) = IF k + 1 <= n THEN n - (k + 1) + 1 ELSE 0
      /\ \A i \in 1 .. n - (k + 1) + 1 : SubSeq(s, k + 1, n)[i] = s[k + 1 + i - 1]
  <2>1. k + 1 \in Int /\ n \in Int
    BY <1>1
  <2> QED
    BY <1>4, <2>1, SubSeqProperties
<1>6. g = IF h + k < Capacity THEN h + k ELSE h + k - Capacity
  <2> DEFINE x == h + k
  <2>1. x \in 0 .. 2 * Capacity - 1 /\ g = x % Capacity
    BY <1>1
  <2> HIDE DEF x
  <2>2. g = IF x < Capacity THEN x ELSE x - Capacity
    BY <1>1, <2>1, SmallModulus
  <2> QED
    BY <1>1, <2>2 DEF x
<1>7. \A i \in 1 .. n - k : /\ i \in 1 .. n - (k + 1) + 1 /\ k + i \in 1 .. n
                            /\ k + 1 + i - 1 = k + i /\ Place(g, i) = Place(h, k + i)
  <2> TAKE i \in 1 .. n - k
  <2>1. i \in 1 .. Capacity /\ k + i \in 1 .. Capacity
    BY <1>1
  <2>2. /\ Place(g, i) = IF g + i - 1 < Capacity THEN g + i - 1 ELSE g + i - 1 - Capacity
        /\ Place(h, k + i) = IF h + (k + i) - 1 < Capacity THEN h + (k + i) - 1
                             ELSE h + (k + i) - 1 - Capacity
    BY <2>1, PlaceIs
  <2>3. Place(g, i) = Place(h, k + i)
    BY <1>1, <1>6, <2>1, <2>2
  <2> QED
    BY <1>1, <2>3
<1>8. \A i \in 1 .. n - k : t[i] = SubSeq(s, k + 1, n)[i]
  <2> TAKE i \in 1 .. n - k
  <2>1. SubSeq(s, k + 1, n)[i] = s[k + i]
    BY <1>5, <1>7
  <2>2. s[k + i] = data[Place(h, k + i)]
    BY <1>2, <1>7
  <2> QED
    BY <1>3, <1>7, <2>1, <2>2
<1>9. Len(t) = Len(SubSeq(s, k + 1, n))
  BY <1>1, <1>3, <1>5
<1>10. t = SubSeq(s, k + 1, n)
  BY <1>3, <1>5, <1>8, <1>9, SeqEqual
<1> QED
  BY <1>10 DEF s, t

(* The fields of a Fifo8.                                                  *)
LEMMA FifoFacts ==
  ASSUME FifoTypeOK
  PROVE  /\ Capacity \in Nat \ {0} /\ Slots = 0 .. Capacity - 1
         /\ fifo.data \in [Slots -> FifoBytes] /\ fifo.head \in Slots /\ fifo.num \in 0 .. Capacity
         /\ fifo \in [data: [Slots -> FifoBytes], head: Slots, num: 0 .. Capacity]
         /\ Contents = Bytes8(fifo.data, fifo.head, fifo.num)
  BY CapacityAssumption DEF FifoTypeOK, Slots, Contents, Bytes8, Place

\* Which byte of push_all goes to slot i, if any.
Stored(i, start, num) == IF i >= start THEN i - start + 1 ELSE i + (Capacity - start) + 1
Fresh(i, start, num) ==
  IF start + num <= Capacity THEN i \in start .. start + num - 1
  ELSE i >= start \/ i < num - (Capacity - start)

(* fifo8_push_all copies to the free places, also in two pieces.           *)
LEMMA PushAllPlaces ==
  ASSUME NEW h \in Slots, NEW n \in 0 .. Capacity, NEW k \in 1 .. Capacity - n,
         NEW start \in Slots, start = (h + n) % Capacity
  PROVE  /\ \A i \in Slots : Fresh(i, start, k) => Stored(i, start, k) \in 1 .. k
         /\ \A i \in 1 .. n : ~Fresh(Place(h, i), start, k)
         /\ \A j \in 1 .. k : Fresh(Place(h, n + j), start, k) /\ Stored(Place(h, n + j), start, k) = j
<1> DEFINE q == Capacity
<1>1. /\ q \in Nat \ {0} /\ h \in 0 .. q - 1 /\ n \in Nat /\ k \in Nat /\ k >= 1 /\ n + k <= q
      /\ start \in 0 .. q - 1 /\ Slots = 0 .. q - 1
  BY CapacityAssumption DEF Slots
<1> HIDE DEF q
<1>2. start = IF h + n < q THEN h + n ELSE h + n - q
  <2> DEFINE x == h + n
  <2>1. x \in 0 .. 2 * q - 1 /\ start = x % q
    BY <1>1 DEF q
  <2> HIDE DEF x
  <2>2. start = IF x < q THEN x ELSE x - q
    BY <1>1, <2>1, SmallModulus
  <2> QED
    BY <1>1, <2>2 DEF x
<1>3. ASSUME NEW i \in Slots, Fresh(i, start, k) PROVE Stored(i, start, k) \in 1 .. k
  <2>1. i \in 0 .. q - 1
    BY <1>1
  <2> QED
    BY <1>1, <1>3, <2>1 DEF Fresh, Stored, q
<1>4. ASSUME NEW i \in 1 .. n PROVE ~Fresh(Place(h, i), start, k)
  <2>1. i \in 1 .. q
    BY <1>1
  <2>2. PICK p \in Slots : /\ p = Place(h, i)
                           /\ p = IF h + i - 1 < q THEN h + i - 1 ELSE h + i - 1 - q
    BY <2>1, PlaceIs DEF q
  <2>3. p \in 0 .. q - 1
    BY <1>1, <2>2
  <2>4. ~Fresh(p, start, k)
    BY <1>1, <1>2, <2>1, <2>2, <2>3 DEF Fresh, q
  <2> QED
    BY <2>2, <2>4
<1>5. ASSUME NEW j \in 1 .. k
      PROVE  Fresh(Place(h, n + j), start, k) /\ Stored(Place(h, n + j), start, k) = j
  <2>1. n + j \in 1 .. q
    BY <1>1
  <2>2. PICK p \in Slots : /\ p = Place(h, n + j)
                           /\ p = IF h + (n + j) - 1 < q THEN h + (n + j) - 1 ELSE h + (n + j) - 1 - q
    BY <2>1, PlaceIs DEF q
  <2>3. p \in 0 .. q - 1
    BY <1>1, <2>2
  <2>4. Fresh(p, start, k)
    BY <1>1, <1>2, <2>1, <2>2, <2>3 DEF Fresh, q
  <2>5. Stored(p, start, k) = j
    BY <1>1, <1>2, <2>1, <2>2, <2>3 DEF Stored, q
  <2> QED
    BY <2>2, <2>4, <2>5
<1> QED
  BY <1>3, <1>4, <1>5

\* Every step that adds bytes is an Enqueue, and keeps the type.
LEMMA PushAllAppends ==
  ASSUME FifoTypeOK, NEW k \in 1 .. Capacity, NEW bytes \in [1 .. k -> FifoBytes], PushAll(bytes)
  PROVE  FifoTypeOK' /\ Queue!Enqueue
<1>1. PICK h \in Slots : h = fifo.head
  BY FifoFacts
<1>2. PICK n \in 0 .. Capacity : n = fifo.num
  BY FifoFacts
<1>3. PICK data \in [Slots -> FifoBytes] : data = fifo.data
  BY FifoFacts
<1>4. PICK start \in Slots : start = PushIndex(fifo) /\ start = (h + n) % Capacity
  <2>1. \A x \in Int : x % Capacity \in 0 .. Capacity - 1
    BY FifoFacts
  <2> QED
    BY <1>1, <1>2, <2>1, FifoFacts DEF PushIndex
<1>5. bytes \in Seq(FifoBytes) /\ Len(bytes) = k
  <2>1. k \in Nat
    BY FifoFacts
  <2>2. bytes \in Seq(FifoBytes)
    BY <2>1, SeqDef
  <2> QED
    BY <2>1, <2>2, LenProperties
<1> DEFINE new == [i \in Slots |-> IF Fresh(i, start, k) THEN bytes[Stored(i, start, k)] ELSE data[i]]
<1>6. n + k <= Capacity /\ fifo' = [fifo EXCEPT !.data = new, !.num = n + k]
  <2>1. /\ fifo.num + k <= Capacity
        /\ fifo' = [fifo EXCEPT !.data = [i \in Slots |-> IF Fresh(i, start, k)
                                                          THEN bytes[Stored(i, start, k)] ELSE @[i]],
                                !.num = @ + k]
    BY <1>4, <1>5 DEF PushAll, Fresh, Stored
  <2> QED
    BY <1>2, <1>3, <2>1
<1>7. Capacity \in Nat \ {0} /\ n \in Nat /\ k \in 1 .. Capacity - n /\ n + k \in 0 .. Capacity
  BY <1>2, <1>6, FifoFacts
<1>8. /\ \A i \in Slots : Fresh(i, start, k) => Stored(i, start, k) \in 1 .. k
      /\ \A i \in 1 .. n : ~Fresh(Place(h, i), start, k)
      /\ \A j \in 1 .. k : Fresh(Place(h, n + j), start, k) /\ Stored(Place(h, n + j), start, k) = j
  BY <1>4, <1>7, PushAllPlaces
<1>9. new \in [Slots -> FifoBytes]
  BY <1>8
<1>10. \A i \in 1 .. n : i \in 1 .. Capacity /\ Place(h, i) \in Slots
  BY <1>7, PlaceIs
<1>11. \A j \in 1 .. k : n + j \in 1 .. Capacity /\ Place(h, n + j) \in Slots
  BY <1>7, PlaceIs
<1>12. /\ \A i \in 1 .. n : new[Place(h, i)] = data[Place(h, i)]
       /\ \A j \in 1 .. k : new[Place(h, n + j)] = bytes[j]
  BY <1>8, <1>10, <1>11
<1> HIDE DEF new
<1>19. Added(new, data, h, n, bytes, k)
  BY <1>12 DEF Added
<1>13. /\ fifo'.data = new /\ fifo'.head = h /\ fifo'.num = n + k
       /\ FifoTypeOK'
  BY <1>1, <1>6, <1>7, <1>9, FifoFacts DEF FifoTypeOK
<1>14. Bytes8(new, h, n + k) = Bytes8(data, h, n) \o bytes
  <2>1. /\ data \in [Slots -> FifoBytes] /\ new \in [Slots -> FifoBytes]
        /\ h \in Slots /\ n \in 0 .. Capacity /\ k \in 1 .. Capacity - n
        /\ bytes \in [1 .. k -> FifoBytes]
    BY <1>7, <1>9
  <2> QED
    BY <2>1, <1>19, Appended
<1>15. Contents = Bytes8(data, h, n)
  BY <1>1, <1>2, <1>3, FifoFacts
<1>16. Contents' = Bytes8(new, h, n + k)
  BY <1>13 DEF Contents, Bytes8, Place
<1>17. Len(Contents) = n
  BY <1>15, Bytes8Seq
<1>18. Contents' = Contents \o bytes
  BY <1>14, <1>15, <1>16
<1> QED
  BY <1>7, <1>13, <1>17, <1>18 DEF Queue!Enqueue

\* fifo8_push is push_all of one byte.
LEMMA PushAppends ==
  ASSUME FifoTypeOK, NEW b \in FifoBytes, Push(b)
  PROVE  FifoTypeOK' /\ Queue!Enqueue
<1>1. PICK h \in Slots : h = fifo.head
  BY FifoFacts
<1>2. PICK n \in 0 .. Capacity : n = fifo.num
  BY FifoFacts
<1>3. PICK data \in [Slots -> FifoBytes] : data = fifo.data
  BY FifoFacts
<1>4. PICK start \in Slots : start = PushIndex(fifo) /\ start = (h + n) % Capacity
  <2>1. \A x \in Int : x % Capacity \in 0 .. Capacity - 1
    BY FifoFacts
  <2> QED
    BY <1>1, <1>2, <2>1, FifoFacts DEF PushIndex
<1> DEFINE new == [data EXCEPT ![start] = b]
           bytes == [j \in 1 .. 1 |-> b]
<1>5. n # Capacity /\ fifo' = [fifo EXCEPT !.data = new, !.num = n + 1]
  BY <1>2, <1>3, <1>4 DEF Push, IsFull
<1>6. Capacity \in Nat \ {0} /\ n \in Nat /\ 1 \in 1 .. Capacity - n /\ n + 1 \in 0 .. Capacity
  BY <1>2, <1>5, FifoFacts
<1>7. new \in [Slots -> FifoBytes] /\ bytes \in [1 .. 1 -> FifoBytes]
  OBVIOUS
<1>8. start = Place(h, n + 1)
  <2>1. h + n = h + (n + 1) - 1
    BY <1>6, FifoFacts
  <2> QED
    BY <1>4, <2>1 DEF Place
<1>9. \A i \in 1 .. n : Place(h, i) # start /\ Place(h, i) \in Slots
  <2> TAKE i \in 1 .. n
  <2>1. i \in 1 .. Capacity /\ n + 1 \in 1 .. Capacity
    BY <1>6
  <2>2. PICK p \in Slots : /\ p = Place(h, i)
                           /\ p = IF h + i - 1 < Capacity THEN h + i - 1 ELSE h + i - 1 - Capacity
    BY <2>1, PlaceIs
  <2>3. start = IF h + (n + 1) - 1 < Capacity THEN h + (n + 1) - 1 ELSE h + (n + 1) - 1 - Capacity
    BY <1>8, <2>1, PlaceIs
  <2>4. h \in 0 .. Capacity - 1
    BY FifoFacts
  <2>5. p # start
    BY <1>6, <2>1, <2>2, <2>3, <2>4
  <2> QED
    BY <2>2, <2>5
<1>10. /\ \A i \in 1 .. n : new[Place(h, i)] = data[Place(h, i)]
       /\ \A j \in 1 .. 1 : new[Place(h, n + j)] = bytes[j]
  <2>1. \A j \in 1 .. 1 : j = 1
    OBVIOUS
  <2> QED
    BY <1>8, <1>9, <2>1
<1> HIDE DEF new, bytes
<1>17. Added(new, data, h, n, bytes, 1)
  BY <1>10 DEF Added
<1>11. /\ fifo'.data = new /\ fifo'.head = h /\ fifo'.num = n + 1
       /\ FifoTypeOK'
  BY <1>1, <1>5, <1>6, <1>7, FifoFacts DEF FifoTypeOK
<1>12. Bytes8(new, h, n + 1) = Bytes8(data, h, n) \o bytes
  <2>1. /\ data \in [Slots -> FifoBytes] /\ new \in [Slots -> FifoBytes]
        /\ h \in Slots /\ n \in 0 .. Capacity /\ 1 \in 1 .. Capacity - n
        /\ bytes \in [1 .. 1 -> FifoBytes]
    BY <1>6, <1>7
  <2> QED
    BY <2>1, <1>17, Appended
<1>13. Contents = Bytes8(data, h, n)
  BY <1>1, <1>2, <1>3, FifoFacts
<1>14. Contents' = Bytes8(new, h, n + 1)
  BY <1>11 DEF Contents, Bytes8, Place
<1>15. Len(Contents) = n
  BY <1>13, Bytes8Seq
<1>16. Contents' = Contents \o bytes
  BY <1>12, <1>13, <1>14
<1> QED
  BY <1>6, <1>7, <1>11, <1>15, <1>16 DEF Queue!Enqueue

\* fifo8_pop and fifo8_pop_buf take k bytes from the front.
LEMMA FrontLeaves ==
  ASSUME FifoTypeOK, NEW k \in 1 .. fifo.num,
         fifo' = [fifo EXCEPT !.head = (@ + k) % Capacity, !.num = @ - k]
  PROVE  FifoTypeOK' /\ Queue!Dequeue
<1>1. PICK h \in Slots : h = fifo.head
  BY FifoFacts
<1>2. PICK n \in 0 .. Capacity : n = fifo.num
  BY FifoFacts
<1>3. PICK data \in [Slots -> FifoBytes] : data = fifo.data
  BY FifoFacts
<1>4. Capacity \in Nat \ {0} /\ n \in Nat /\ k \in 1 .. n /\ n - k \in 0 .. Capacity
  BY <1>2, FifoFacts
<1>5. PICK g \in Slots : g = (h + k) % Capacity
  <2>1. \A x \in Int : x % Capacity \in 0 .. Capacity - 1
    BY FifoFacts
  <2> QED
    BY <1>4, <2>1, FifoFacts
<1>6. /\ fifo'.data = data /\ fifo'.head = g /\ fifo'.num = n - k
      /\ FifoTypeOK'
  BY <1>1, <1>2, <1>3, <1>4, <1>5, FifoFacts DEF FifoTypeOK
<1>7. Bytes8(data, g, n - k) = SubSeq(Bytes8(data, h, n), k + 1, n)
  BY <1>4, <1>5, Dropped
<1>8. Contents = Bytes8(data, h, n)
  BY <1>1, <1>2, <1>3, FifoFacts
<1>9. Contents' = Bytes8(data, g, n - k)
  BY <1>6 DEF Contents, Bytes8, Place
<1>10. Len(Contents) = n
  BY <1>8, Bytes8Seq
<1>11. Contents' = SubSeq(Contents, k + 1, Len(Contents))
  BY <1>7, <1>8, <1>9, <1>10
<1> QED
  BY <1>4, <1>6, <1>10, <1>11 DEF Queue!Dequeue

(* An empty ring is the empty queue.                                       *)
LEMMA EmptyBytes == ASSUME NEW data, NEW h PROVE Bytes8(data, h, 0) = << >>
<1>1. 1 .. 0 = {}
  OBVIOUS
<1> QED
  BY <1>1 DEF Bytes8

(* Every step of the ring is a step of the queue.                          *)
LEMMA FifoStepRefines ==
  ASSUME FifoTypeOK, [FifoNext]_fifo
  PROVE  FifoTypeOK' /\ [Queue!Next]_(Queue!queueVars)
<1>1. ASSUME NEW b \in FifoBytes, Push(b) PROVE FifoTypeOK' /\ Queue!Next
  BY <1>1, PushAppends DEF Queue!Next
<1>2. CASE Pop
  <2>1. fifo.num # 0 /\ fifo' = [fifo EXCEPT !.head = (@ + 1) % Capacity, !.num = @ - 1]
    BY <1>2 DEF Pop, IsEmpty
  <2>2. 1 \in 1 .. fifo.num
    BY <2>1, FifoFacts
  <2> QED
    BY <2>1, <2>2, FrontLeaves DEF Queue!Next
<1>3. CASE Reset
  <2>1. 0 \in Slots /\ 0 \in 0 .. Capacity
    BY FifoFacts
  <2>2. fifo'.num = 0 /\ FifoTypeOK'
    BY <1>3, <2>1, FifoFacts DEF Reset, FifoTypeOK
  <2>3. Contents' = Bytes8(fifo'.data, fifo'.head, 0)
    BY <2>2 DEF Contents, Bytes8, Place
  <2>4. Contents' = << >>
    BY <2>3, EmptyBytes
  <2> QED
    BY <2>2, <2>4 DEF Queue!Next, Queue!Clear
<1>4. ASSUME NEW max \in 1 .. Capacity, PopBuf(max) PROVE FifoTypeOK' /\ Queue!Next
  <2> DEFINE k == PopBufSize(fifo, max)
  <2>1. max \in 1 .. fifo.num /\ fifo' = [fifo EXCEPT !.head = (@ + k) % Capacity, !.num = @ - k]
    BY <1>4 DEF PopBuf
  <2>2. /\ fifo.num \in Nat /\ fifo.head \in 0 .. Capacity - 1 /\ Capacity \in Nat
        /\ k = IF Capacity - fifo.head < max THEN Capacity - fifo.head ELSE max
    BY FifoFacts DEF PopBufSize
  <2> HIDE DEF k
  <2>3. k \in 1 .. fifo.num
    BY <2>1, <2>2
  <2> QED
    BY <2>1, <2>3, FrontLeaves DEF Queue!Next
<1>5. ASSUME NEW k \in 1 .. Capacity, NEW bytes \in [1 .. k -> FifoBytes], PushAll(bytes)
      PROVE  FifoTypeOK' /\ Queue!Next
  BY <1>5, PushAllAppends DEF Queue!Next
<1>6. CASE UNCHANGED fifo
  <2>1. UNCHANGED Contents /\ FifoTypeOK'
    BY <1>6 DEF Contents, FifoTypeOK
  <2> QED
    BY <2>1 DEF Queue!queueVars
<1> QED
  BY <1>1, <1>2, <1>3, <1>4, <1>5, <1>6 DEF FifoNext

(* fifo8_create.                                                           *)
LEMMA FifoInitRefines ==
  ASSUME FifoInit
  PROVE  FifoTypeOK /\ Queue!Init
<1>1. /\ Capacity \in Nat \ {0} /\ fifo \in [data: [Slots -> FifoBytes], head: {0}, num: {0}]
  BY CapacityAssumption DEF FifoInit
<1>2. 0 \in Slots /\ 0 \in 0 .. Capacity
  BY <1>1 DEF Slots
<1>3. FifoTypeOK
  BY <1>1, <1>2 DEF FifoTypeOK
<1>4. Contents = Bytes8(fifo.data, fifo.head, 0)
  BY <1>1 DEF Contents, Bytes8, Place
<1> QED
  BY <1>3, <1>4, EmptyBytes DEF Queue!Init

(* The ring of fifo8.cpp implements a bounded queue, whatever its capacity:
   nothing is lost, invented or reordered when the head, push_all or pop_buf
   wrap. *)
THEOREM FifoImplementsQueue == FifoSpec => FifoIsQueue
<1>1. FifoInit => FifoTypeOK /\ Queue!Init
  BY FifoInitRefines
<1>2. FifoTypeOK /\ [FifoNext]_fifo => FifoTypeOK' /\ [Queue!Next]_(Queue!queueVars)
  BY FifoStepRefines
<1> QED
  BY <1>1, <1>2, PTL DEF FifoSpec, FifoIsQueue

-----------------------------------------------------------------------------
(* The 16550.                                                              *)

\* A SerialState, also in the middle of an access.
States ==
  [ier: SUBSET EnableBits, iir: {NoInt, "RLSI", "RDI", "THRI", "MSI"}, iirFe: BOOLEAN,
   dlab: BOOLEAN, mcr: SUBSET {"LOOP"}, lsr: SUBSET ({"TEMT", "THRE", "DR"} \cup LineErrors),
   msr: SUBSET (ModemLines \cup Deltas), rbr: Bytes, thrIpending: BOOLEAN,
   recv: Seq(Bytes), xmit: Seq(Bytes), fe: BOOLEAN, itl: 0 .. FifoLength + 1, irq: BOOLEAN]

\* What every access keeps. Nothing is left to transmit: serial_xmit sends at once.
Core(s) ==
  /\ s \in States /\ Len(s.recv) <= FifoLength /\ s.xmit = << >> /\ "THRE" \in s.lsr
  /\ s.fe => ("DR" \in s.lsr <=> s.recv # << >>)
  /\ ~s.fe => s.recv = << >>
IrqOk(s) == s.iir = Pending(s) /\ s.irq = (s.iir # NoInt)
Good(s) == Core(s) /\ IrqOk(s)

\* A transmitter interrupt ends only when it was seen or disabled.
Acked(s, t) == s.thrIpending /\ ~t.thrIpending => s.iir = "THRI" \/ "THRI" \notin t.ier

(* The receive FIFO as a sequence.                                         *)
LEMMA RecvType ==
  ASSUME NEW q
  PROVE  q \in UNION {[1 .. n -> Bytes] : n \in 0 .. FifoLength} <=> q \in Seq(Bytes) /\ Len(q) <= FifoLength
<1>1. FifoLength \in Nat
  BY SerialAssumption
<1>2. ASSUME q \in Seq(Bytes), Len(q) <= FifoLength
      PROVE  q \in UNION {[1 .. n -> Bytes] : n \in 0 .. FifoLength}
  <2>1. Len(q) \in 0 .. FifoLength /\ q \in [1 .. Len(q) -> Bytes]
    BY <1>1, <1>2, LenProperties
  <2> QED
    BY <2>1
<1>3. ASSUME NEW n \in 0 .. FifoLength, q \in [1 .. n -> Bytes]
      PROVE  q \in Seq(Bytes) /\ Len(q) <= FifoLength
  <2>1. n \in Nat /\ n <= FifoLength
    BY <1>1
  <2>2. q \in Seq(Bytes)
    BY <1>3, <2>1, SeqDef
  <2>3. Len(q) = n
    BY <1>3, <2>1, <2>2, LenProperties
  <2> QED
    BY <2>1, <2>2, <2>3
<1> QED
  BY <1>2, <1>3

\* Good is the invariants of the module together.
LEMMA GoodIs ==
  /\ Good(serial) => SerialTypeOK /\ IrqFollowsState /\ ReceiverConsistent
  /\ UNCHANGED serial => (Good(serial) => Good(serial)')
<1>1. ASSUME Good(serial) PROVE SerialTypeOK
  <2>1. serial.recv \in UNION {[1 .. n -> Bytes] : n \in 0 .. FifoLength}
    BY <1>1, RecvType DEF Good, Core, States
  <2> QED
    BY <1>1, <2>1 DEF Good, Core, States, SerialTypeOK
<1>2. ASSUME Good(serial) PROVE IrqFollowsState /\ ReceiverConsistent
  BY <1>2 DEF Good, Core, IrqOk, IrqFollowsState, ReceiverConsistent
<1>3. ASSUME UNCHANGED serial, Good(serial) PROVE Good(serial)'
  BY <1>3
<1> QED
  BY <1>1, <1>2, <1>3

\* serial_update_irq shows what is pending and changes nothing else.
LEMMA UpdateIrqShows ==
  ASSUME NEW s \in States
  PROVE  /\ UpdateIrq(s) \in States /\ IrqOk(UpdateIrq(s))
         /\ UpdateIrq(s).thrIpending = s.thrIpending /\ UpdateIrq(s).ier = s.ier
         /\ UpdateIrq(s).lsr = s.lsr /\ UpdateIrq(s).msr = s.msr /\ UpdateIrq(s).mcr = s.mcr
         /\ UpdateIrq(s).recv = s.recv /\ UpdateIrq(s).xmit = s.xmit /\ UpdateIrq(s).fe = s.fe
<1> DEFINE p == Pending(s)
           u == UpdateIrq(s)
<1>1. p \in {NoInt, "RLSI", "RDI", "THRI", "MSI"}
  BY DEF Pending
<1>2. u = [s EXCEPT !.iir = p, !.irq = p # NoInt]
  BY DEF UpdateIrq
<1> HIDE DEF p, u
<1>3. /\ u \in States /\ u.iir = p /\ u.irq = (p # NoInt)
      /\ u.thrIpending = s.thrIpending /\ u.ier = s.ier /\ u.lsr = s.lsr /\ u.msr = s.msr
      /\ u.recv = s.recv /\ u.xmit = s.xmit /\ u.fe = s.fe /\ u.itl = s.itl /\ u.mcr = s.mcr
  BY <1>1, <1>2 DEF States
<1>4. Pending(u) = p
  BY <1>3 DEF Pending, ReceiveTriggered, p
<1> QED
  BY <1>3, <1>4 DEF IrqOk, u

(* serial_update_irq sets IIR and the line from the registers, whatever    *)
(* they were.                                                              *)
LEMMA UpdateIrqGood ==
  ASSUME NEW s, Core(s)
  PROVE  /\ Good(UpdateIrq(s))
         /\ UpdateIrq(s).thrIpending = s.thrIpending /\ UpdateIrq(s).ier = s.ier
         /\ UpdateIrq(s).msr = s.msr /\ UpdateIrq(s).lsr = s.lsr
  BY UpdateIrqShows DEF Core, Good

(* serial_update_msl, which calls it only when a line has changed.         *)
LEMMA UpdateMslGood ==
  ASSUME NEW s, Core(s), NEW lines \in SUBSET ModemLines
  PROVE  /\ Core(UpdateMsl(s, lines))
         /\ IrqOk(s) => IrqOk(UpdateMsl(s, lines))
         /\ UpdateMsl(s, lines).thrIpending = s.thrIpending
         /\ UpdateMsl(s, lines).ier = s.ier /\ UpdateMsl(s, lines).lsr = s.lsr
<1> DEFINE changed == ChangedLines(s, lines)
           msr == lines \cup (s.msr \cap Deltas) \cup {Delta[l] : l \in changed}
           m == IF "RI" \in s.msr THEN msr ELSE msr \ {"TERI"}
           t == [s EXCEPT !.msr = m]
<1>1. changed \subseteq ModemLines
  BY DEF ChangedLines
<1>2. m \in SUBSET (ModemLines \cup Deltas)
  BY <1>1 DEF Deltas
<1>3. UpdateMsl(s, lines) = IF changed = {} THEN s ELSE UpdateIrq(t)
  BY DEF UpdateMsl
<1> HIDE DEF m, changed
<1>4. Core(t) /\ t.thrIpending = s.thrIpending /\ t.ier = s.ier /\ t.lsr = s.lsr
  BY <1>2 DEF Core, States
<1> HIDE DEF t
<1>5. Good(UpdateIrq(t)) /\ UpdateIrq(t).thrIpending = s.thrIpending
      /\ UpdateIrq(t).ier = s.ier /\ UpdateIrq(t).lsr = s.lsr
  BY <1>4, UpdateIrqGood
<1> QED
  BY <1>3, <1>5 DEF Good

\* An FCR that is not yet consistent is enough here: a byte makes it so.
LEMMA ReceiveGood ==
  ASSUME NEW s, Core(s), NEW b \in Bytes
  PROVE  Good(Receive(s, b)) /\ Receive(s, b).thrIpending = s.thrIpending /\ Receive(s, b).ier = s.ier
<1>1. /\ s \in States /\ s.recv \in Seq(Bytes) /\ Len(s.recv) <= FifoLength /\ FifoLength \in Nat \ {0}
      /\ s.lsr \in SUBSET ({"TEMT", "THRE", "DR"} \cup LineErrors) /\ s.fe \in BOOLEAN
      /\ "DR" \in {"TEMT", "THRE", "DR"} /\ "OE" \in LineErrors
  BY SerialAssumption DEF Core, States, LineErrors
<1>2. CASE s.fe
  <2> DEFINE q == IF Len(s.recv) < FifoLength THEN Append(s.recv, b) ELSE s.recv
             l == s.lsr \cup {"DR"} \cup (IF Len(s.recv) < FifoLength THEN {} ELSE {"OE"})
             t == [s EXCEPT !.recv = q, !.lsr = l]
  <2>1. q \in Seq(Bytes) /\ Len(q) <= FifoLength /\ q # << >>
    <3>1. CASE Len(s.recv) < FifoLength
      <4>1. Append(s.recv, b) \in Seq(Bytes) /\ Len(Append(s.recv, b)) = Len(s.recv) + 1 /\ Len(s.recv) \in Nat
        BY <1>1, AppendProperties, LenProperties
      <4>2. Len(s.recv) + 1 <= FifoLength /\ Len(s.recv) + 1 # 0
        BY <1>1, <3>1, <4>1
      <4> QED
        BY <3>1, <4>1, <4>2, EmptySeq
    <3>2. CASE ~(Len(s.recv) < FifoLength)
      <4>1. Len(s.recv) \in Nat
        BY <1>1, LenProperties
      <4>2. Len(s.recv) # 0
        BY <1>1, <3>2, <4>1
      <4> QED
        BY <1>1, <3>2, <4>2, EmptySeq
    <3> QED
      BY <3>1, <3>2
  <2>2. l \in SUBSET ({"TEMT", "THRE", "DR"} \cup LineErrors) /\ "DR" \in l /\ ("THRE" \in s.lsr => "THRE" \in l)
    BY <1>1
  <2>3. Receive(s, b) = UpdateIrq(t)
    BY <1>2 DEF Receive
  <2> HIDE DEF q, l
  <2>4. Core(t) /\ t.thrIpending = s.thrIpending /\ t.ier = s.ier
    BY <1>2, <2>1, <2>2 DEF Core, States
  <2> HIDE DEF t
  <2> QED
    BY <2>3, <2>4, UpdateIrqGood
<1>3. CASE ~s.fe
  <2> DEFINE l == s.lsr \cup {"DR"} \cup (IF "DR" \in s.lsr THEN {"OE"} ELSE {})
             t == [s EXCEPT !.rbr = b, !.lsr = l]
  <2>1. l \in SUBSET ({"TEMT", "THRE", "DR"} \cup LineErrors) /\ ("THRE" \in s.lsr => "THRE" \in l)
    BY <1>1
  <2>2. Receive(s, b) = UpdateIrq(t)
    BY <1>3 DEF Receive
  <2> HIDE DEF l
  <2>3. Core(t) /\ t.thrIpending = s.thrIpending /\ t.ier = s.ier
    BY <1>3, <2>1 DEF Core, States
  <2> HIDE DEF t
  <2> QED
    BY <2>2, <2>3, UpdateIrqGood
<1> QED
  BY <1>2, <1>3

\* One round of serial_xmit sends the one byte there is.
LEMMA TransmitsOnce ==
  ASSUME NEW s, NEW thr, s.fe => Len(s.xmit) = 1
  PROVE  Transmit(s, thr) = [SendOne(s, thr) EXCEPT !.lsr = @ \cup {"TEMT"}]
<1> DEFINE rounds == IF s.fe THEN Len(s.xmit) ELSE 1
           w == [n \in 0 .. 1 |-> IF n = 0 THEN s ELSE SendOne(s, thr)]
           f == CHOOSE g : g = [n \in 0 .. 1 |-> IF n = 0 THEN s ELSE SendOne(g[n - 1], thr)]
<1>1. rounds = 1
  OBVIOUS
<1>2. w = [n \in 0 .. 1 |-> IF n = 0 THEN s ELSE SendOne(w[n - 1], thr)]
  <2>1. \A n \in 0 .. 1 : n = 0 \/ (n = 1 /\ n - 1 = 0)
    OBVIOUS
  <2>2. w[0] = s
    OBVIOUS
  <2> HIDE DEF w
  <2>3. \A n \in 0 .. 1 : n # 0 => w[n - 1] = s
    BY <2>1, <2>2
  <2> QED
    BY <2>3 DEF w
<1> HIDE DEF w
<1>3. f = [n \in 0 .. 1 |-> IF n = 0 THEN s ELSE SendOne(f[n - 1], thr)]
  BY <1>2
<1>4. Transmit(s, thr) = [f[1] EXCEPT !.lsr = @ \cup {"TEMT"}]
  BY <1>1 DEF Transmit
<1> HIDE DEF f
<1>5. f[0] = s
  BY <1>3
<1>6. f[1] = SendOne(f[0], thr)
  <2>1. 1 \in 0 .. 1 /\ 1 # 0 /\ 1 - 1 = 0
    OBVIOUS
  <2> QED
    BY <1>3, <2>1
<1> QED
  BY <1>4, <1>5, <1>6

(* The accesses, one lemma each.                                           *)
LEMMA WriteThrGood ==
  ASSUME Good(serial), NEW b \in Bytes, WriteThr(b)
  PROVE  Good(serial)' /\ Acked(serial, serial')
<1> DEFINE room == IF Len(serial.xmit) = FifoLength THEN Tail(serial.xmit) ELSE serial.xmit
           queued == IF serial.fe THEN Append(room, b) ELSE serial.xmit
           r == [serial EXCEPT !.xmit = queued, !.thrIpending = FALSE, !.lsr = @ \ {"THRE", "TEMT"}]
           s == UpdateIrq(r)
           sent == [s EXCEPT !.xmit = << >>, !.lsr = @ \cup {"THRE"}]
           last == [sent EXCEPT !.thrIpending = TRUE]
           t == UpdateIrq(last)
           u == IF "LOOP" \in s.mcr THEN Receive(t, b) ELSE t
<1>1. Core(serial) /\ FifoLength \in Nat \ {0}
  BY SerialAssumption DEF Good
<1>2. serial' = Transmit(s, b)
  BY DEF WriteThr
<1>3. queued \in Seq(Bytes) /\ (serial.fe => queued = << b >>) /\ (~serial.fe => queued = << >>)
  <2>1. serial.xmit = << >> /\ Len(serial.xmit) = 0
    BY <1>1, EmptySeq DEF Core
  <2>2. room = << >>
    BY <1>1, <2>1
  <2>3. Append(<< >>, b) = << b >> /\ << b >> \in Seq(Bytes) /\ << >> \in Seq(Bytes)
    OBVIOUS
  <2> HIDE DEF room
  <2> QED
    BY <2>1, <2>2, <2>3
<1> HIDE DEF queued
<1>4. /\ r \in States /\ r.xmit = queued /\ r.thrIpending = FALSE /\ r.lsr = serial.lsr \ {"THRE", "TEMT"}
      /\ r.recv = serial.recv /\ r.fe = serial.fe /\ r.ier = serial.ier
  BY <1>1, <1>3 DEF Core, States
<1> HIDE DEF r
<1>5. /\ s \in States /\ s.xmit = queued /\ s.thrIpending = FALSE /\ s.lsr = serial.lsr \ {"THRE", "TEMT"}
      /\ s.recv = serial.recv /\ s.fe = serial.fe /\ s.ier = serial.ier
  BY <1>4, UpdateIrqShows
<1> HIDE DEF s
<1>6. s.fe => Len(s.xmit) = 1
  BY <1>3, <1>5
<1>7. Transmit(s, b) = [SendOne(s, b) EXCEPT !.lsr = @ \cup {"TEMT"}]
  BY <1>6, TransmitsOnce
<1>8. Core(sent) /\ sent.thrIpending = FALSE
  BY <1>1, <1>5 DEF Core, States
<1>9. Core(last) /\ last.thrIpending = TRUE
  BY <1>8 DEF Core, States
<1>10. LoadShiftRegister(s) = t
  <2> DEFINE rest == IF s.fe THEN Tail(s.xmit) ELSE s.xmit
             empty == s.fe => rest = << >>
             l == [s EXCEPT !.xmit = rest, !.lsr = IF empty THEN @ \cup {"THRE"} ELSE @]
  <2>1. rest = << >>
    <3>1. Tail(<< b >>) = << >>
      OBVIOUS
    <3> QED
      BY <1>3, <1>5, <3>1
  <2>2. empty /\ l = sent
    BY <2>1
  <2>3. LoadShiftRegister(s) = IF empty /\ ~s.thrIpending
                               THEN UpdateIrq([l EXCEPT !.thrIpending = TRUE]) ELSE l
    BY DEF LoadShiftRegister
  <2> HIDE DEF rest, empty, l
  <2> QED
    BY <1>5, <2>2, <2>3
<1> HIDE DEF sent, last
<1>11. Good(t) /\ t.thrIpending = TRUE
  BY <1>9, UpdateIrqGood
<1>12. SendOne(s, b) = u
  <2>1. (IF s.fe THEN Head(s.xmit) ELSE b) = b
    BY <1>3, <1>5
  <2>2. SendOne(s, b) = IF "LOOP" \in s.mcr THEN Receive(t, IF s.fe THEN Head(s.xmit) ELSE b) ELSE t
    BY <1>10 DEF SendOne
  <2> HIDE DEF t
  <2> QED
    BY <2>1, <2>2
<1> HIDE DEF t
<1>13. Good(u) /\ u.thrIpending = TRUE
  BY <1>11, ReceiveGood DEF Good
<1> HIDE DEF u
<1> DEFINE v == [u EXCEPT !.lsr = @ \cup {"TEMT"}]
<1>14. serial' = v
  BY <1>2, <1>7, <1>12
<1>15. Good(v) /\ v.thrIpending = TRUE
  <2>1. u \in States
    BY <1>13 DEF Good, Core
  <2>2. /\ v \in States /\ v.lsr = u.lsr \cup {"TEMT"} /\ v.ier = u.ier /\ v.iir = u.iir /\ v.irq = u.irq
        /\ v.recv = u.recv /\ v.xmit = u.xmit /\ v.fe = u.fe /\ v.itl = u.itl /\ v.msr = u.msr
        /\ v.thrIpending = u.thrIpending
    BY <2>1 DEF States
  <2> HIDE DEF v
  <2>3. Core(v)
    BY <1>13, <2>2 DEF Good, Core
  <2>4. v.lsr \cap LineErrors = u.lsr \cap LineErrors /\ ("DR" \in v.lsr <=> "DR" \in u.lsr)
    BY <2>2 DEF LineErrors
  <2>5. Pending(v) = Pending(u)
    BY <2>2, <2>4 DEF Pending, ReceiveTriggered
  <2> QED
    BY <1>13, <2>2, <2>3, <2>5 DEF Good, IrqOk
<1> HIDE DEF v
<1> QED
  BY <1>14, <1>15 DEF Acked

LEMMA WriteIerGood ==
  ASSUME Good(serial), NEW bits \in SUBSET EnableBits, NEW lines \in SUBSET ModemLines,
         WriteIer(bits, lines)
  PROVE  Good(serial)' /\ Acked(serial, serial')
<1> DEFINE changed == {x \in EnableBits : (x \in bits) # (x \in serial.ier)}
           s == [serial EXCEPT !.ier = bits]
           t == IF "MSI" \in changed /\ "MSI" \in bits THEN UpdateMsl(s, lines) ELSE s
           u == IF "THRI" \in changed
                THEN [t EXCEPT !.thrIpending = "THRI" \in bits /\ "THRE" \in t.lsr] ELSE t
<1>1. serial' = IF changed # {} THEN UpdateIrq(u) ELSE u
  BY DEF WriteIer
<1>2. Core(serial) /\ IrqOk(serial)
  BY DEF Good
<1>3. Core(s) /\ s.thrIpending = serial.thrIpending /\ s.ier = bits
  BY <1>2 DEF Core, States
<1>4. changed = {} => s = serial
  <2>1. SUFFICES ASSUME changed = {} PROVE s = serial
    OBVIOUS
  <2>2. serial.ier \subseteq EnableBits
    BY <1>2 DEF Core, States
  <2>3. bits = serial.ier
    BY <2>1, <2>2
  <2> QED
    BY <1>2, <2>3 DEF Core, States
<1> HIDE DEF s
<1>5. Core(t) /\ t.thrIpending = serial.thrIpending /\ t.ier = bits
  BY <1>3, UpdateMslGood
<1>6. changed = {} => t = s
  OBVIOUS
<1> HIDE DEF t
<1>7. /\ Core(u) /\ u.ier = bits
      /\ serial.thrIpending /\ ~u.thrIpending => "THRI" \notin bits
  BY <1>5 DEF Core, States
<1>8. changed = {} => u = t
  OBVIOUS
<1> HIDE DEF u
<1>9. CASE changed # {}
  BY <1>1, <1>7, <1>9, UpdateIrqGood DEF Acked
<1>10. CASE changed = {}
  <2>1. serial' = serial
    BY <1>1, <1>4, <1>6, <1>8, <1>10
  <2> QED
    BY <2>1 DEF Acked
<1> QED
  BY <1>9, <1>10

LEMMA WriteFcrGood ==
  ASSUME Good(serial), NEW fe \in BOOLEAN, NEW itl \in TriggerLevels, NEW rfr \in BOOLEAN,
         NEW xfr \in BOOLEAN, WriteFcr(fe, itl, rfr, xfr)
  PROVE  Good(serial)' /\ Acked(serial, serial')
<1> DEFINE flushed == fe # serial.fe
           s == IF rfr \/ flushed
                THEN [serial EXCEPT !.lsr = @ \ {"DR", "BI"}, !.recv = << >>] ELSE serial
           t == IF xfr \/ flushed
                THEN [s EXCEPT !.lsr = @ \cup {"THRE"}, !.thrIpending = TRUE, !.xmit = << >>] ELSE s
           u == [t EXCEPT !.fe = fe, !.iirFe = fe, !.itl = IF fe THEN itl ELSE @]
<1>1. serial' = UpdateIrq(u)
  BY DEF WriteFcr
<1>2. Core(serial) /\ FifoLength \in Nat \ {0} /\ << >> \in Seq(Bytes) /\ Len(<< >>) = 0
  BY SerialAssumption, EmptySeq DEF Good
<1>3. /\ Core(s) /\ s.thrIpending = serial.thrIpending /\ s.fe = serial.fe
      /\ flushed => s.recv = << >> /\ "DR" \notin s.lsr
  <2> DEFINE e == [serial EXCEPT !.lsr = @ \ {"DR", "BI"}, !.recv = << >>]
  <2>1. /\ Core(e) /\ e.thrIpending = serial.thrIpending /\ e.fe = serial.fe
        /\ e.recv = << >> /\ "DR" \notin e.lsr
    <3>1. serial \in States /\ serial.xmit = << >> /\ "THRE" \in serial.lsr
      BY <1>2 DEF Core
    <3>2. /\ e \in States /\ e.thrIpending = serial.thrIpending /\ e.fe = serial.fe
          /\ e.recv = << >> /\ e.xmit = serial.xmit /\ e.lsr = serial.lsr \ {"DR", "BI"}
      BY <1>2, <3>1 DEF States
    <3> HIDE DEF e
    <3>3. Len(e.recv) <= FifoLength
      BY <1>2, <3>2
    <3> QED
      BY <3>1, <3>2, <3>3 DEF Core
  <2>2. s = IF rfr \/ flushed THEN e ELSE serial
    OBVIOUS
  <2> HIDE DEF e, s, flushed
  <2> QED
    BY <1>2, <2>1, <2>2
<1> HIDE DEF s
<1>4. /\ Core(t) /\ (serial.thrIpending => t.thrIpending) /\ t.fe = serial.fe
      /\ flushed => t.recv = << >> /\ "DR" \notin t.lsr
  <2> DEFINE e == [s EXCEPT !.lsr = @ \cup {"THRE"}, !.thrIpending = TRUE, !.xmit = << >>]
  <2>1. /\ Core(e) /\ e.thrIpending /\ e.fe = s.fe
        /\ e.recv = s.recv /\ ("DR" \in e.lsr <=> "DR" \in s.lsr)
    BY <1>2, <1>3 DEF Core, States
  <2>2. t = IF xfr \/ flushed THEN e ELSE s
    OBVIOUS
  <2> HIDE DEF e, t, flushed
  <2> QED
    BY <1>3, <2>1, <2>2
<1> HIDE DEF t
<1>5. Core(u) /\ (serial.thrIpending => u.thrIpending)
  <2>1. itl \in 0 .. FifoLength + 1
    BY SerialAssumption
  <2>2. t.itl \in 0 .. FifoLength + 1 /\ t \in States
    BY <1>4 DEF Core, States
  <2>3. /\ u \in States /\ u.fe = fe /\ u.recv = t.recv /\ u.lsr = t.lsr /\ u.xmit = t.xmit
        /\ u.thrIpending = t.thrIpending
    BY <2>1, <2>2 DEF States
  <2>4. t.fe \in BOOLEAN
    BY <2>2 DEF States
  <2> HIDE DEF u
  <2>5. CASE fe = t.fe
    BY <1>4, <2>3, <2>5 DEF Core
  <2>6. CASE fe # t.fe
    <3>1. t.recv = << >> /\ "DR" \notin t.lsr
      BY <1>4, <2>6
    <3> QED
      BY <1>4, <2>3, <3>1 DEF Core
  <2> QED
    BY <2>5, <2>6
<1> HIDE DEF u
<1> QED
  BY <1>1, <1>5, UpdateIrqGood DEF Acked

LEMMA ReadRbrGood ==
  ASSUME Good(serial), ReadRbr
  PROVE  Good(serial)' /\ Acked(serial, serial')
<1> DEFINE rest == IF serial.fe /\ serial.recv # << >> THEN Tail(serial.recv) ELSE serial.recv
           none == serial.fe => rest = << >>
           t == [serial EXCEPT !.recv = rest, !.lsr = IF none THEN @ \ {"DR", "BI"} ELSE @]
<1>1. serial' = UpdateIrq(t)
  BY DEF ReadRbr
<1>2. Core(serial) /\ serial.recv \in Seq(Bytes) /\ Len(serial.recv) <= FifoLength
      /\ FifoLength \in Nat
  BY SerialAssumption DEF Good, Core, States
<1>3. rest \in Seq(Bytes) /\ Len(rest) <= FifoLength
  <2>1. CASE serial.fe /\ serial.recv # << >>
    <3>1. Tail(serial.recv) \in Seq(Bytes) /\ Len(Tail(serial.recv)) = Len(serial.recv) - 1
          /\ Len(serial.recv) \in Nat
      BY <1>2, <2>1, HeadTailProperties, LenProperties
    <3>2. Len(serial.recv) - 1 <= FifoLength
      BY <1>2, <3>1
    <3> QED
      BY <2>1, <3>1, <3>2
  <2>2. CASE ~(serial.fe /\ serial.recv # << >>)
    BY <1>2, <2>2
  <2> QED
    BY <2>1, <2>2
<1>4. /\ rest # << >> /\ serial.fe => serial.recv # << >>
      /\ ~serial.fe => rest = << >>
  BY <1>2 DEF Core
<1> HIDE DEF rest
<1>5. /\ none <=> rest = << >>
      /\ "DR" \notin serial.lsr \ {"DR", "BI"} /\ ("THRE" \in serial.lsr => "THRE" \in serial.lsr \ {"DR", "BI"})
  BY <1>4
<1> DEFINE l == IF none THEN serial.lsr \ {"DR", "BI"} ELSE serial.lsr
<1>6. /\ t \in States /\ t.recv = rest /\ t.lsr = l /\ t.fe = serial.fe /\ t.xmit = serial.xmit
      /\ t.thrIpending = serial.thrIpending
  BY <1>2, <1>3 DEF Core, States
<1>7. /\ "THRE" \in serial.lsr /\ serial.fe \in BOOLEAN
      /\ serial.fe => ("DR" \in serial.lsr <=> serial.recv # << >>)
      /\ ~serial.fe => serial.recv = << >>
      /\ serial.xmit = << >>
  BY <1>2 DEF Core, States
<1> HIDE DEF none, t
<1>8. serial.fe => ("DR" \in l <=> rest # << >>)
  BY <1>4, <1>5, <1>7
<1>9. "THRE" \in l
  BY <1>5, <1>7
<1> HIDE DEF l
<1>10. Core(t)
  BY <1>3, <1>4, <1>6, <1>7, <1>8, <1>9 DEF Core
<1> QED
  BY <1>1, <1>6, <1>10, UpdateIrqGood DEF Acked

(* The accesses that touch no FIFO.                                        *)
LEMMA OtherAccessesGood ==
  ASSUME Good(serial),
         \/ \E dlab \in BOOLEAN : WriteLcr(dlab)
         \/ \E bits \in SUBSET {"LOOP"} : WriteMcr(bits)
         \/ ReadIir \/ ReadLsr
         \/ \E lines \in SUBSET ModemLines : ReadMsr(lines)
  PROVE  Good(serial)' /\ Acked(serial, serial')
<1>1. Core(serial) /\ IrqOk(serial) /\ serial \in States
  BY DEF Good, Core
<1>2. ASSUME NEW dlab \in BOOLEAN, WriteLcr(dlab) PROVE Good(serial)' /\ Acked(serial, serial')
  <2> DEFINE t == [serial EXCEPT !.dlab = dlab]
  <2>1. /\ t \in States /\ t.lsr = serial.lsr /\ t.ier = serial.ier /\ t.iir = serial.iir /\ t.irq = serial.irq
        /\ t.recv = serial.recv /\ t.xmit = serial.xmit /\ t.fe = serial.fe /\ t.itl = serial.itl
        /\ t.msr = serial.msr /\ t.thrIpending = serial.thrIpending
    BY <1>1 DEF States
  <2>2. serial' = t
    BY <1>2 DEF WriteLcr
  <2> HIDE DEF t
  <2>3. Pending(t) = Pending(serial)
    BY <2>1 DEF Pending, ReceiveTriggered
  <2>4. Good(t) /\ Acked(serial, t)
    BY <1>1, <2>1, <2>3 DEF Good, Core, IrqOk, Acked
  <2> QED
    BY <2>2, <2>4
<1>3. ASSUME NEW bits \in SUBSET {"LOOP"}, WriteMcr(bits) PROVE Good(serial)' /\ Acked(serial, serial')
  <2> DEFINE t == [serial EXCEPT !.mcr = bits]
  <2>1. /\ t \in States /\ t.lsr = serial.lsr /\ t.ier = serial.ier /\ t.iir = serial.iir /\ t.irq = serial.irq
        /\ t.recv = serial.recv /\ t.xmit = serial.xmit /\ t.fe = serial.fe /\ t.itl = serial.itl
        /\ t.msr = serial.msr /\ t.thrIpending = serial.thrIpending
    BY <1>1 DEF States
  <2>2. serial' = t
    BY <1>3 DEF WriteMcr
  <2> HIDE DEF t
  <2>3. Pending(t) = Pending(serial)
    BY <2>1 DEF Pending, ReceiveTriggered
  <2>4. Good(t) /\ Acked(serial, t)
    BY <1>1, <2>1, <2>3 DEF Good, Core, IrqOk, Acked
  <2> QED
    BY <2>2, <2>4
<1>4. CASE ReadIir
  <2> DEFINE t == [serial EXCEPT !.thrIpending = FALSE]
  <2>1. serial' = IF serial.iir = "THRI" THEN UpdateIrq(t) ELSE serial
    BY <1>4 DEF ReadIir
  <2>2. Core(t)
    BY <1>1 DEF Core, States
  <2> HIDE DEF t
  <2> QED
    BY <1>1, <2>1, <2>2, UpdateIrqGood DEF Acked, Good
<1>5. CASE ReadLsr
  <2> DEFINE t == [serial EXCEPT !.lsr = @ \ {"BI", "OE"}]
  <2>1. serial' = IF serial.lsr \cap {"BI", "OE"} # {} THEN UpdateIrq(t) ELSE serial
    BY <1>5 DEF ReadLsr
  <2>2. Core(t) /\ t.thrIpending = serial.thrIpending
    BY <1>1 DEF Core, States
  <2> HIDE DEF t
  <2> QED
    BY <1>1, <2>1, <2>2, UpdateIrqGood DEF Acked, Good
<1>6. ASSUME NEW lines \in SUBSET ModemLines, ReadMsr(lines) PROVE Good(serial)' /\ Acked(serial, serial')
  <2> DEFINE s == UpdateMsl(serial, lines)
             t == [s EXCEPT !.msr = @ \ Deltas]
  <2>1. serial' = IF "LOOP" \in serial.mcr THEN serial
                  ELSE IF s.msr \cap Deltas # {} THEN UpdateIrq(t) ELSE s
    BY <1>6 DEF ReadMsr
  <2>2. Core(s) /\ IrqOk(s) /\ s.thrIpending = serial.thrIpending
    BY <1>1, UpdateMslGood
  <2> HIDE DEF s
  <2>3. Core(t) /\ t.thrIpending = serial.thrIpending
    BY <2>2 DEF Core, States
  <2> HIDE DEF t
  <2> QED
    BY <1>1, <2>1, <2>2, <2>3, UpdateIrqGood DEF Acked, Good
<1> QED
  BY <1>2, <1>3, <1>4, <1>5, <1>6

(* Every access leaves the registers in agreement.                         *)
LEMMA SerialStepGood ==
  ASSUME Good(serial), [SerialNext]_serial
  PROVE  Good(serial)' /\ Acked(serial, serial')
<1>1. ASSUME NEW b \in Bytes, WriteThr(b) PROVE Good(serial)' /\ Acked(serial, serial')
  BY <1>1, WriteThrGood
<1>2. ASSUME NEW bits \in SUBSET EnableBits, NEW lines \in SUBSET ModemLines, WriteIer(bits, lines)
      PROVE  Good(serial)' /\ Acked(serial, serial')
  BY <1>2, WriteIerGood
<1>3. ASSUME NEW fe \in BOOLEAN, NEW rfr \in BOOLEAN, NEW xfr \in BOOLEAN, NEW itl \in TriggerLevels,
             WriteFcr(fe, itl, rfr, xfr)
      PROVE  Good(serial)' /\ Acked(serial, serial')
  BY <1>3, WriteFcrGood
<1>4. CASE ReadRbr
  BY <1>4, ReadRbrGood
<1>5. CASE UNCHANGED serial
  BY <1>5 DEF Acked
<1>6. CASE WriteDivisor \/ ReadPlain
  BY <1>5, <1>6 DEF WriteDivisor, ReadPlain
<1> QED
  BY <1>1, <1>2, <1>3, <1>4, <1>5, <1>6, OtherAccessesGood DEF SerialNext

(* A reset does too, whatever malloc left.                                 *)
LEMMA SerialInitGood ==
  ASSUME SerialInit
  PROVE  Good(serial)
<1>1. PICK fe \in BOOLEAN, itl \in 0 .. FifoLength + 1, lines \in SUBSET ModemLines :
        serial = Reset16550(fe, itl, lines)
  BY DEF SerialInit
<1>2. (CHOOSE b \in Bytes : TRUE) \in Bytes
  BY SerialAssumption
<1>3. << >> \in Seq(Bytes) /\ Len(<< >>) = 0 /\ FifoLength \in Nat
  BY SerialAssumption, EmptySeq
<1>4. serial \in States
  BY <1>1, <1>2, <1>3 DEF Reset16550, States, EnableBits, LineErrors
<1>5. Core(serial)
  BY <1>1, <1>3, <1>4 DEF Reset16550, Core
<1>6. Pending(serial) = NoInt
  BY <1>1 DEF Reset16550, Pending
<1>7. IrqOk(serial)
  BY <1>1, <1>6 DEF Reset16550, IrqOk
<1> QED
  BY <1>5, <1>7 DEF Good

(* What every access leaves behind (serial_ioport_read and _write). *)
THEOREM SerialSafe == SerialSpec => []Good(serial)
<1>1. SerialInit => Good(serial)
  BY SerialInitGood
<1>2. Good(serial) /\ [SerialNext]_serial => Good(serial)'
  BY SerialStepGood
<1> QED
  BY <1>1, <1>2, PTL DEF SerialSpec

(* The interrupt line and IIR show what the registers call for, after any
   sequence of accesses (serial_update_irq). *)
THEOREM IrqAlwaysFollows == SerialSpec => []IrqFollowsState
<1>1. Good(serial) => IrqFollowsState
  BY GoodIs
<1> QED
  BY <1>1, SerialSafe, PTL

(* LSR.DR agrees with the receive FIFO (serial_receive1, reads of RBR and
   flushes). *)
THEOREM ReceiverIsConsistent == SerialSpec => []ReceiverConsistent
<1>1. Good(serial) => ReceiverConsistent
  BY GoodIs
<1> QED
  BY <1>1, SerialSafe, PTL

(* A transmitter interrupt is not lost (thr_ipending). *)
THEOREM ThreIsNotLost == SerialSpec => ThreNotLost
<1> DEFINE Step == serial.thrIpending /\ ~serial'.thrIpending => serial.iir = "THRI" \/ "THRI" \notin serial'.ier
<1>1. Good(serial) /\ [SerialNext]_serial => [Step]_serial
  BY SerialStepGood DEF Acked
<1> QED
  BY <1>1, SerialSafe, PTL DEF SerialSpec, ThreNotLost

-----------------------------------------------------------------------------
(* Powers of two: the modulus of ghr_idx, the bounds of the counters.      *)

(* Powers of two as the number of subsets: the exponent has no other       *)
(* theory here.                                                            *)
LEMMA PowerIsSubsets ==
  ASSUME NEW n \in Nat
  PROVE  IsFiniteSet(SUBSET (1 .. n)) /\ Cardinality(SUBSET (1 .. n)) = 2 ^ n
<1>1. \A a, b \in Int : IsFiniteSet(a .. b) /\ Cardinality(a .. b) = IF a > b THEN 0 ELSE b - a + 1
  BY FS_Interval
<1>2. 1 \in Int /\ n \in Int
  OBVIOUS
<1>3. IsFiniteSet(1 .. n) /\ Cardinality(1 .. n) = IF 1 > n THEN 0 ELSE n - 1 + 1
  BY <1>1, <1>2, Zenon
<1>4. Cardinality(1 .. n) = n
  BY <1>3
<1>5. IsFiniteSet(SUBSET (1 .. n)) /\ Cardinality(SUBSET (1 .. n)) = 2 ^ Cardinality(1 .. n)
  BY <1>3, FS_SUBSET, Zenon
<1> QED
  BY <1>4, <1>5

(* They are positive,                                                      *)
LEMMA PowerIsPositive ==
  ASSUME NEW n \in Nat
  PROVE  2 ^ n \in Nat \ {0}
<1>1. IsFiniteSet(SUBSET (1 .. n)) /\ Cardinality(SUBSET (1 .. n)) = 2 ^ n
  BY PowerIsSubsets
<1>2. SUBSET (1 .. n) # {}
  OBVIOUS
<1>3. Cardinality(SUBSET (1 .. n)) \in Nat
  BY <1>1, FS_CardinalityType
<1>4. Cardinality(SUBSET (1 .. n)) # 0
  BY <1>1, <1>2, FS_EmptySet
<1> QED
  BY <1>1, <1>3, <1>4

(* and grow.                                                               *)
LEMMA PowersGrow ==
  ASSUME NEW n \in Nat \ {0}
  PROVE  2 ^ (n - 1) \in Nat \ {0} /\ 2 ^ n \in Nat \ {0} /\ 2 ^ (n - 1) <= 2 ^ n
<1> DEFINE k == n - 1
<1>1. k \in Nat /\ n \in Nat /\ k <= n
  OBVIOUS
<1> HIDE DEF k
<1>2. 2 ^ k \in Nat \ {0} /\ 2 ^ n \in Nat \ {0}
  BY <1>1, PowerIsPositive
<1>3. IsFiniteSet(SUBSET (1 .. k)) /\ Cardinality(SUBSET (1 .. k)) = 2 ^ k
  BY <1>1, PowerIsSubsets
<1>4. IsFiniteSet(SUBSET (1 .. n)) /\ Cardinality(SUBSET (1 .. n)) = 2 ^ n
  BY PowerIsSubsets
<1>5. 1 .. k \subseteq 1 .. n
  BY <1>1
<1>6. SUBSET (1 .. k) \subseteq SUBSET (1 .. n)
  BY <1>5
<1>7. Cardinality(SUBSET (1 .. k)) <= Cardinality(SUBSET (1 .. n))
  BY <1>4, <1>6, FS_Subset
<1>8. 2 ^ k <= 2 ^ n
  BY <1>3, <1>4, <1>7
<1> QED
  BY <1>2, <1>8 DEF k

-----------------------------------------------------------------------------
(* The predictors: types of the histories and of the instructions.         *)

GhrType == [0 .. GhrSize - 1 -> {0, 1}]
Tops == 0 .. RasSize - 1
MetaIds == 0 .. MetaSlots - 1
Counters == MinCounter .. MaxCounter
InstType == [type : Types \cup {"INT"}, pc : Pcs, size : InstSizes, meta : MetaIds, taken : BOOLEAN,
             exc : BOOLEAN, at : MetaType, resolved : BOOLEAN, fault : BOOLEAN]

\* Everything but the pipeline is typed.
TablesTyped ==
  /\ ghr \in GhrType /\ ghrIdx \in Idx /\ top \in Tops
  /\ table \in [TableIndices -> Counters]
  /\ metas \in [MetaIds -> MetaType] /\ metaIdx \in MetaIds
  /\ faults \in 0 .. MaxFaults

(* The assumption on the parameters, part by part.                         *)
LEMMA Parameters ==
  /\ GhrSize \in Nat \ {0} /\ HistBits \in Nat \ {0} /\ HistBits <= GhrSize
  /\ IdxBits \in Nat \ {0} /\ RasSize \in Nat \ {0} /\ MetaSlots \in Nat \ {0} /\ InFlight \in Nat
  /\ InFlight >= 2 /\ MetaSlots >= 2 * InFlight - 1
  /\ InstSizes \subseteq 1 .. RasSize /\ MaxFaults \in Nat
  /\ (CHOOSE pc \in Pcs : TRUE) \in Pcs /\ (CHOOSE n \in InstSizes : TRUE) \in InstSizes
<1>1. (CHOOSE pc \in Pcs : TRUE) \in Pcs
  BY PredictorAssumption, Zenon
<1>2. (CHOOSE n \in InstSizes : TRUE) \in InstSizes
  BY PredictorAssumption, Zenon
<1>3. HistBits \in 1 .. GhrSize /\ GhrSize \in Nat \ {0}
  BY PredictorAssumption
<1>4. IdxBits \in Nat \ {0} /\ RasSize \in Nat \ {0} /\ MetaSlots \in Nat \ {0} /\ InFlight \in Nat \ {0}
  BY PredictorAssumption
<1>5. InstSizes \subseteq 1 .. RasSize /\ MaxFaults \in Nat /\ InFlight >= 2 /\ MetaSlots >= 2 * InFlight - 1
  BY PredictorAssumption
<1> QED
  BY <1>1, <1>2, <1>3, <1>4, <1>5

\* 2 ^ IdxBits, the modulus of ghr_idx, and its half
LEMMA IdxRange ==
  /\ 2 ^ IdxBits \in Nat \ {0} /\ 2 ^ (IdxBits - 1) \in Nat \ {0}
  /\ 2 ^ (IdxBits - 1) <= 2 ^ IdxBits
  /\ Idx = 0 .. 2 ^ IdxBits - 1
BY Parameters, PowersGrow DEF Idx

(* One branch enters the history.                                          *)
LEMMA PushTyped ==
  ASSUME NEW g \in GhrType, NEW taken
  PROVE  /\ PushBit(g, taken) \in GhrType
         /\ \A i \in 0 .. GhrSize - 1 :
              PushBit(g, taken)[i] = IF i = 0 THEN (IF taken THEN 1 ELSE 0) ELSE g[i - 1]
<1>1. GhrSize \in Nat \ {0}
  BY Parameters
<1>2. \A i \in 0 .. GhrSize - 1 : i # 0 => i - 1 \in 0 .. GhrSize - 1
  BY <1>1
<1>3. \A i \in 0 .. GhrSize - 1 : (IF i = 0 THEN (IF taken THEN 1 ELSE 0) ELSE g[i - 1]) \in {0, 1}
  BY <1>2 DEF GhrType
<1> QED
  BY <1>3 DEF PushBit, GhrType

(* And some leave it.                                                      *)
LEMMA ShiftTyped ==
  ASSUME NEW g \in GhrType, NEW n \in Int
  PROVE  /\ ShiftRight(g, n) \in GhrType
         /\ \A i \in 0 .. GhrSize - 1 :
              ShiftRight(g, n)[i] = IF n >= 0 /\ i + n < GhrSize THEN g[i + n] ELSE 0
<1>1. GhrSize \in Nat \ {0}
  BY Parameters
<1>2. \A i \in 0 .. GhrSize - 1 : n >= 0 /\ i + n < GhrSize => i + n \in 0 .. GhrSize - 1
  BY <1>1
<1>3. \A i \in 0 .. GhrSize - 1 : (IF n >= 0 /\ i + n < GhrSize THEN g[i + n] ELSE 0) \in {0, 1}
  BY <1>2 DEF GhrType
<1> QED
  BY <1>3 DEF ShiftRight, GhrType

(* The part of it that GShareBP reads.                                     *)
LEMMA RecentTyped ==
  ASSUME NEW g \in GhrType
  PROVE  /\ Recent(g) \in [0 .. HistBits - 1 -> {0, 1}]
         /\ \A i \in 0 .. HistBits - 1 : Recent(g)[i] = g[i]
<1>1. GhrSize \in Nat \ {0} /\ HistBits \in Nat \ {0} /\ HistBits <= GhrSize
  BY Parameters
<1>2. \A i \in 0 .. HistBits - 1 : i \in 0 .. GhrSize - 1
  BY <1>1
<1>3. \A i \in 0 .. HistBits - 1 : g[i] \in {0, 1}
  BY <1>2 DEF GhrType
<1> QED
  BY <1>3 DEF Recent

(* A remainder is in its range.                                            *)
LEMMA ModulusTyped ==
  ASSUME NEW q \in Nat \ {0}, NEW x \in Int
  PROVE  x % q \in 0 .. q - 1
BY SMT

(* How far a rollback shifts is an integer.                                *)
LEMMA ShiftSizeTyped ==
  ASSUME NEW a \in Idx, NEW b \in Idx
  PROVE  ShiftSize(a, b) \in Int
<1> DEFINE W == 2 ^ IdxBits
           H == 2 ^ (IdxBits - 1)
           x == a - b
<1>1. W \in Nat \ {0} /\ H \in Nat \ {0} /\ x \in Int
  BY IdxRange
<1>2. ShiftSize(a, b) = IF x % W < H THEN x % W ELSE (x % W) - W
  BY DEF ShiftSize
<1> HIDE DEF W, H, x
<1>3. x % W \in 0 .. W - 1
  BY <1>1, ModulusTyped
<1> QED
  BY <1>1, <1>2, <1>3

\* A history and its ghr_idx after GHR::update
Histories == GhrType \X Idx

(* GHR::speculative_update;                                                *)
LEMMA SpeculateTyped ==
  ASSUME NEW g \in GhrType, NEW x \in Idx, NEW type, NEW taken
  PROVE  Speculate(<< g, x >>, type, taken) \in Histories
<1> DEFINE W == 2 ^ IdxBits
           y == x + 1
<1>1. W \in Nat \ {0} /\ y \in Int /\ Idx = 0 .. W - 1
  BY IdxRange
<1>2. PushBit(g, taken) \in GhrType
  BY PushTyped
<1>3. Speculate(<< g, x >>, type, taken) = IF type = "COND" THEN << PushBit(g, taken), y % W >> ELSE << g, x >>
  BY DEF Speculate
<1> HIDE DEF W, y
<1>4. y % W \in Idx
  BY <1>1, ModulusTyped
<1> QED
  BY <1>2, <1>3, <1>4 DEF Histories

(* GHR::update;                                                            *)
LEMMA RollbackTyped ==
  ASSUME NEW g \in GhrType, NEW x \in Idx, NEW meta \in MetaType, NEW type, NEW taken
  PROVE  Rollback(<< g, x >>, meta, type, taken) \in Histories
<1> DEFINE n == ShiftSize(x, meta.idx)
<1>1. meta.idx \in Idx
  BY DEF MetaType
<1>2. n \in Int
  BY <1>1, ShiftSizeTyped
<1>3. Rollback(<< g, x >>, meta, type, taken) = Speculate(<< ShiftRight(g, n), meta.idx >>, type, taken)
  BY DEF Rollback
<1> HIDE DEF n
<1>4. ShiftRight(g, n) \in GhrType
  BY <1>2, ShiftTyped
<1> QED
  BY <1>1, <1>3, <1>4, SpeculateTyped

(* RAS::update;                                                            *)
LEMMA TopTyped ==
  ASSUME NEW t \in Tops, NEW type, NEW size \in 1 .. RasSize
  PROVE  TopAfter(t, type, size) \in Tops
<1> DEFINE x == t + 1
<1>1. RasSize \in Nat \ {0} /\ t \in 0 .. RasSize - 1 /\ size \in Nat \ {0} /\ size <= RasSize /\ x \in Int
  BY Parameters DEF Tops
<1>2. TopAfter(t, type, size) = CASE type \in Pushing -> x % size
                                  [] type = "POP" -> IF t = 0 THEN size - 1 ELSE t - 1
                                  [] OTHER -> t
  BY DEF TopAfter
<1> HIDE DEF x
<1>3. x % size \in 0 .. size - 1
  BY <1>1, ModulusTyped
<1>4. CASE type \in Pushing
  BY <1>1, <1>2, <1>3, <1>4 DEF Tops, Pushing
<1>5. CASE type = "POP"
  BY <1>1, <1>2, <1>5 DEF Tops, Pushing
<1>6. CASE type \notin Pushing /\ type # "POP"
  BY <1>1, <1>2, <1>6 DEF Tops
<1> QED
  BY <1>4, <1>5, <1>6

(* Predictor::redirect, of both histories;                                 *)
LEMMA RedirectTyped ==
  ASSUME ghr \in GhrType, ghrIdx \in Idx, NEW meta \in MetaType, NEW type, NEW size \in InstSizes,
         NEW taken, Redirect(meta, type, size, taken)
  PROVE  ghr' \in GhrType /\ ghrIdx' \in Idx /\ top' \in Tops
<1>1. Rollback(<< ghr, ghrIdx >>, meta, type, taken) \in Histories
  BY RollbackTyped
<1>2. ghr' \in GhrType /\ ghrIdx' \in Idx
  BY <1>1 DEF Redirect, HistoryBecomes, Histories
<1>3. size \in 1 .. RasSize /\ meta.top \in Tops
  BY Parameters DEF MetaType, Tops
<1>4. TopAfter(meta.top, type, size) \in Tops
  BY <1>3, TopTyped
<1> QED
  BY <1>2, <1>4 DEF Redirect, RasRedirect

(* GShareBP's counters;                                                    *)
LEMMA CounterTyped ==
  ASSUME NEW c \in Counters, NEW taken
  PROVE  UpdateCounter(c, taken) \in Counters
<1>1. 2 ^ BitSize \in Nat \ {0}
  BY PredictorAssumption, PowerIsPositive
<1>2. MinCounter \in Int /\ MaxCounter \in Int /\ MinCounter <= MaxCounter
  BY <1>1 DEF MinCounter, MaxCounter
<1> QED
  BY <1>2 DEF Counters, UpdateCounter

(* its table;                                                              *)
LEMMA TrainTyped ==
  ASSUME table \in [TableIndices -> Counters], NEW inst, NEW taken, GShareTrain(inst, taken)
  PROVE  table' \in [TableIndices -> Counters]
<1>1. CASE inst.type # "COND"
  BY <1>1 DEF GShareTrain
<1>2. CASE inst.type = "COND"
  <2> DEFINE i == TableIdx(inst.pc, metas[inst.meta].hist)
  <2>1. table' = [table EXCEPT ![i] = UpdateCounter(@, taken)]
    BY <1>2 DEF GShareTrain
  <2> HIDE DEF i
  <2>2. i \in TableIndices => UpdateCounter(table[i], taken) \in Counters
    BY CounterTyped
  <2> QED
    BY <2>1, <2>2
<1> QED
  BY <1>1, <1>2

(* its prediction.                                                         *)
LEMMA PredictionTyped ==
  ASSUME NEW type, NEW pc
  PROVE  PredictedTaken(type, pc) \in BOOLEAN
<1>1. GShareTaken(pc) \in BOOLEAN
  BY DEF GShareTaken
<1> QED
  BY <1>1 DEF PredictedTaken

-----------------------------------------------------------------------------
(* The pipeline as the predictors see it: a resolved part, and at most two  *)
(* instructions, in EXE and in ID, behind it.                              *)

PipeShape(L, R) ==
  /\ L \in Seq(InstType) /\ Len(L) <= InFlight
  /\ R \in 0 .. Len(L) /\ Len(L) - R <= 2
  /\ \A i \in 1 .. Len(L) : (L[i].resolved <=> i <= R) /\ (L[i].fault => L[i].exc)

\* What stays of an instruction when EXE is done with it.
SameInst(a, b) ==
  /\ a.type = b.type /\ a.size = b.size /\ a.meta = b.meta /\ a.at = b.at
  /\ a.fault = b.fault /\ a.exc = b.exc

\* L2 is the first n instructions of L, from instruction d + 1 on.
Part(L, L2, d, n) ==
  /\ Len(L2) = n
  /\ \A i \in 1 .. n : SameInst(L2[i], L[i + d])

(* The front of a sequence.                                                *)
LEMMA FrontOf ==
  ASSUME NEW S, NEW s \in Seq(S), NEW n \in 0 .. Len(s)
  PROVE  /\ SubSeq(s, 1, n) \in Seq(S) /\ Len(SubSeq(s, 1, n)) = n
         /\ \A i \in 1 .. n : SubSeq(s, 1, n)[i] = s[i]
<1>1. Len(s) \in Nat /\ n \in Int /\ 1 \in Int
  BY LenProperties
<1>2. \A i \in 1 .. n : s[i] \in S
  <2>1. \A i \in 1 .. n : i \in 1 .. Len(s)
    BY <1>1
  <2> QED
    BY <2>1, ElementOfSeq
<1>3. /\ SubSeq(s, 1, n) \in Seq(S)
      /\ Len(SubSeq(s, 1, n)) = IF 1 <= n THEN n - 1 + 1 ELSE 0
      /\ \A i \in 1 .. n - 1 + 1 : SubSeq(s, 1, n)[i] = s[1 + i - 1]
  BY <1>1, <1>2, SubSeqProperties
<1> QED
  BY <1>1, <1>3

(* A sequence with one element replaced.                                   *)
LEMMA ReplacedIn ==
  ASSUME NEW S, NEW s \in Seq(S), NEW k \in 1 .. Len(s), NEW y \in S, NEW t, t = [s EXCEPT ![k] = y]
  PROVE  t \in Seq(S) /\ Len(t) = Len(s) /\ \A i \in 1 .. Len(s) : t[i] = IF i = k THEN y ELSE s[i]
<1>1. [s EXCEPT ![k] = y] \in Seq(S) /\ Len([s EXCEPT ![k] = y]) = Len(s)
      /\ \A i \in 1 .. Len(s) : [s EXCEPT ![k] = y][i] = IF i = k THEN y ELSE s[i]
  BY ExceptSeq
<1> QED
  BY <1>1

(* Two different elements are two.                                         *)
LEMMA TwoElements ==
  ASSUME NEW a, NEW b, a # b
  PROVE  Cardinality({a} \cup {b}) = 2
<1>1. IsFiniteSet({a}) /\ Cardinality({a}) = 1
  BY FS_Singleton
<1>2. b \notin {a}
  OBVIOUS
<1>3. Cardinality({a} \cup {b}) = Cardinality({a}) + 1
  BY <1>1, <1>2, FS_AddElement
<1> QED
  BY <1>1, <1>3

(* What happens to the list of instructions in flight: one is predicted,   *)
LEMMA PipeAppend ==
  ASSUME NEW L, NEW R, PipeShape(L, R), Len(L) < InFlight, Len(L) - R <= 1,
         NEW x \in InstType, ~x.resolved, x.fault => x.exc
  PROVE  /\ PipeShape(Append(L, x), R) /\ Len(Append(L, x)) = Len(L) + 1
         /\ \A i \in 1 .. Len(L) : Append(L, x)[i] = L[i]
         /\ Append(L, x)[Len(L) + 1] = x
<1>1. L \in Seq(InstType) /\ Len(L) \in Nat /\ R \in 0 .. Len(L) /\ InFlight \in Nat
  BY LenProperties, Parameters DEF PipeShape
<1>2. /\ Append(L, x) \in Seq(InstType) /\ Len(Append(L, x)) = Len(L) + 1
      /\ \A i \in 1 .. Len(L) : Append(L, x)[i] = L[i]
      /\ Append(L, x)[Len(L) + 1] = x
  BY <1>1, AppendProperties
<1> DEFINE M == Append(L, x)
<1>3. ASSUME NEW i \in 1 .. Len(M)
      PROVE  (M[i].resolved <=> i <= R) /\ (M[i].fault => M[i].exc)
  <2>1. CASE i = Len(L) + 1
    <3>1. M[i] = x /\ ~(i <= R)
      BY <1>1, <1>2, <2>1
    <3> QED
      BY <3>1
  <2>2. CASE i # Len(L) + 1
    <3>1. i \in 1 .. Len(L)
      BY <1>1, <1>2, <2>2
    <3>2. M[i] = L[i]
      BY <1>2, <3>1
    <3> QED
      BY <3>1, <3>2 DEF PipeShape
  <2> QED
    BY <2>1, <2>2
<1> HIDE DEF M
<1>4. M = Append(L, x)
  BY DEF M
<1>5. M \in Seq(InstType) /\ Len(M) = Len(L) + 1
  BY <1>2, <1>4
<1>6. PipeShape(M, R)
  BY <1>1, <1>3, <1>5 DEF PipeShape
<1> QED
  BY <1>2, <1>4, <1>6

(* EXE resolves the oldest that is not,                                    *)
LEMMA ResolveOne ==
  ASSUME NEW L, NEW R, PipeShape(L, R), R < Len(L), NEW M, M = [L EXCEPT ![R + 1].resolved = TRUE]
  PROVE  PipeShape(M, R + 1) /\ Part(L, M, 0, Len(L))
<1> DEFINE k == R + 1
<1>1. L \in Seq(InstType) /\ Len(L) \in Nat /\ R \in 0 .. Len(L) /\ k \in 1 .. Len(L) /\ k = R + 1
  BY LenProperties DEF PipeShape
<1>2. M = [L EXCEPT ![k] = [L[k] EXCEPT !.resolved = TRUE]]
  OBVIOUS
<1> HIDE DEF k
<1>3. L[k] \in InstType
  BY <1>1, ElementOfSeq
<1>4. PICK y : y = [L[k] EXCEPT !.resolved = TRUE]
  OBVIOUS
<1>5. y \in InstType /\ SameInst(y, L[k]) /\ y.resolved
  BY <1>3, <1>4 DEF InstType, SameInst
<1>6. M = [L EXCEPT ![k] = y]
  BY <1>2, <1>4
<1>7. M \in Seq(InstType) /\ Len(M) = Len(L) /\ \A i \in 1 .. Len(L) : M[i] = IF i = k THEN y ELSE L[i]
  <2> PICK N : N = [L EXCEPT ![k] = y]
    OBVIOUS
  <2>1. L \in Seq(InstType) /\ k \in 1 .. Len(L) /\ y \in InstType
    BY <1>1, <1>5
  <2>2. N \in Seq(InstType) /\ Len(N) = Len(L) /\ \A i \in 1 .. Len(L) : N[i] = IF i = k THEN y ELSE L[i]
    BY <2>1, ReplacedIn
  <2>3. M = N
    BY <1>6
  <2> QED
    BY <2>2, <2>3
<1>8. ASSUME NEW i \in 1 .. Len(L)
      PROVE  (M[i].resolved <=> i <= R + 1) /\ (M[i].fault => M[i].exc) /\ SameInst(M[i], L[i])
  <2>1. (L[i].resolved <=> i <= R) /\ (L[i].fault => L[i].exc)
    BY DEF PipeShape
  <2>2. CASE i = k
    <3>1. M[i] = y /\ i <= R + 1
      BY <1>1, <1>7, <2>2
    <3> QED
      BY <1>5, <2>1, <2>2, <3>1 DEF SameInst
  <2>3. CASE i # k
    <3>1. M[i] = L[i] /\ (i <= R + 1 <=> i <= R)
      BY <1>1, <1>7, <2>3
    <3> QED
      BY <2>1, <3>1 DEF SameInst
  <2> QED
    BY <2>2, <2>3
<1>9. Len(L) <= InFlight /\ Len(L) - R <= 2
  BY DEF PipeShape
<1>10. PipeShape(M, R + 1)
  BY <1>1, <1>7, <1>8, <1>9 DEF PipeShape
<1>11. \A i \in 1 .. Len(L) : i + 0 = i
  OBVIOUS
<1>12. Part(L, M, 0, Len(L))
  BY <1>7, <1>8, <1>11 DEF Part
<1> QED
  BY <1>10, <1>12

(* and drops those behind it,                                              *)
LEMMA CutAfter ==
  ASSUME NEW L, NEW R, PipeShape(L, R), R < Len(L), NEW M, M = [L EXCEPT ![R + 1].resolved = TRUE],
         NEW C, C = SubSeq(M, 1, R + 1)
  PROVE  PipeShape(C, R + 1) /\ Part(L, C, 0, R + 1)
<1>1. PipeShape(M, R + 1) /\ Part(L, M, 0, Len(L))
  BY ResolveOne
<1>2. M \in Seq(InstType) /\ Len(M) = Len(L) /\ Len(L) \in Nat /\ R \in 0 .. Len(L) /\ Len(L) <= InFlight
  BY <1>1, LenProperties DEF PipeShape, Part
<1> DEFINE k == R + 1
<1>3. k \in 1 .. Len(M) /\ k \in Int /\ 1 \in Int /\ 1 <= k /\ k <= InFlight
  BY <1>2, Parameters
<1> HIDE DEF k
<1>31. C = SubSeq(M, 1, k)
  BY DEF k
<1>32. \A i \in 1 .. k : M[i] \in InstType
  BY <1>2, <1>3, ElementOfSeq
<1>33. k \in 0 .. Len(M)
  BY <1>2, <1>3
<1>4. C \in Seq(InstType) /\ Len(C) = k /\ \A i \in 1 .. k : C[i] = M[i]
  BY <1>2, <1>31, <1>33, FrontOf
<1>5. ASSUME NEW i \in 1 .. k
      PROVE  (C[i].resolved <=> i <= k) /\ (C[i].fault => C[i].exc) /\ SameInst(C[i], L[i + 0])
  <2>1. i \in 1 .. Len(M) /\ i \in 1 .. Len(L) /\ C[i] = M[i]
    BY <1>2, <1>3, <1>4
  <2>2. (M[i].resolved <=> i <= k) /\ (M[i].fault => M[i].exc)
    BY <1>1, <2>1 DEF PipeShape, k
  <2>3. SameInst(M[i], L[i + 0])
    BY <1>1, <2>1 DEF Part
  <2> QED
    BY <2>1, <2>2, <2>3
<1>6. k - k <= 2 /\ k \in 0 .. k
  BY <1>3
<1>7. PipeShape(C, k) /\ Part(L, C, 0, k)
  BY <1>3, <1>4, <1>5, <1>6 DEF PipeShape, Part
<1> QED
  BY <1>7 DEF k

(* WB retires the oldest,                                                  *)
LEMMA PipeTail ==
  ASSUME NEW L, NEW R, PipeShape(L, R), R >= 1
  PROVE  PipeShape(Tail(L), R - 1) /\ Part(L, Tail(L), 1, Len(L) - 1)
<1>1. L \in Seq(InstType) /\ Len(L) \in Nat /\ R \in 0 .. Len(L) /\ Len(L) >= 1 /\ L # << >> /\ Len(L) <= InFlight
      /\ Len(L) - R <= 2 /\ InFlight \in Nat
  BY LenProperties, EmptySeq, Parameters DEF PipeShape
<1>2. Tail(L) \in Seq(InstType) /\ Len(Tail(L)) = Len(L) - 1
      /\ \A i \in 1 .. Len(Tail(L)) : Tail(L)[i] = L[i + 1]
  BY <1>1, HeadTailProperties
<1>3. ASSUME NEW i \in 1 .. Len(L) - 1
      PROVE  (Tail(L)[i].resolved <=> i <= R - 1) /\ (Tail(L)[i].fault => Tail(L)[i].exc)
             /\ SameInst(Tail(L)[i], L[i + 1])
  <2>1. Tail(L)[i] = L[i + 1] /\ i + 1 \in 1 .. Len(L) /\ (i <= R - 1 <=> i + 1 <= R)
    BY <1>1, <1>2
  <2>2. (L[i + 1].resolved <=> i + 1 <= R) /\ (L[i + 1].fault => L[i + 1].exc)
    BY <2>1 DEF PipeShape
  <2> QED
    BY <2>1, <2>2 DEF SameInst
<1> QED
  BY <1>1, <1>2, <1>3 DEF PipeShape, Part

(* or drops them all.                                                      *)
LEMMA PipeEmpty ==
  PipeShape(<< >>, 0) /\ Len(<< >>) = 0
<1>1. << >> \in Seq(InstType) /\ Len(<< >>) = 0
  BY EmptySeq
<1> QED
  BY <1>1, Parameters DEF PipeShape

\* Nothing more than EXE holds is unresolved when ID is free.
LEMMA IdFreeMeans ==
  ASSUME NEW R, PipeShape(insts, R), IdFree
  PROVE  Len(insts) < InFlight /\ Len(insts) - R <= 1
<1>1. Len(insts) \in Nat /\ R \in 0 .. Len(insts) /\ Len(insts) - R <= 2
  BY LenProperties DEF PipeShape
<1> DEFINE S == {i \in 1 .. Len(insts) : ~insts[i].resolved}
<1>2. Cardinality(S) < 2 /\ Len(insts) < InFlight
  BY DEF IdFree
<1>3. ASSUME Len(insts) - R = 2
      PROVE  FALSE
  <2>1. R + 1 \in 1 .. Len(insts) /\ R + 2 \in 1 .. Len(insts)
    BY <1>1, <1>3
  <2>2. ASSUME NEW i \in 1 .. Len(insts)
        PROVE  ~insts[i].resolved <=> (i = R + 1 \/ i = R + 2)
    <3>1. insts[i].resolved <=> i <= R
      BY DEF PipeShape
    <3>2. ~(i <= R) <=> (i = R + 1 \/ i = R + 2)
      BY <1>1, <1>3
    <3> QED
      BY <3>1, <3>2
  <2>3. S = {R + 1} \cup {R + 2}
    BY <2>1, <2>2
  <2>5. R + 1 # R + 2
    BY <1>1
  <2>7. Cardinality(S) = 2
    BY <2>3, <2>5, TwoElements
  <2> QED
    BY <1>2, <2>7
<1> QED
  BY <1>1, <1>2, <1>3

\* EXE holds the first unresolved instruction.
LEMMA ExeIsFirst ==
  ASSUME NEW R, PipeShape(insts, R), NEW i \in 1 .. Len(insts), InExe(i)
  PROVE  i = R + 1 /\ R < Len(insts)
<1>1. Len(insts) \in Nat /\ R \in 0 .. Len(insts)
  BY LenProperties DEF PipeShape
<1>2. ~insts[i].resolved
  BY DEF InExe
<1>3. ~(i <= R)
  BY <1>2 DEF PipeShape
<1>4. ASSUME i > R + 1
      PROVE  FALSE
  <2>1. R + 1 \in 1 .. i - 1 /\ R + 1 \in 1 .. Len(insts) /\ ~(R + 1 <= R)
    BY <1>1, <1>4
  <2>2. insts[R + 1].resolved
    BY <2>1 DEF InExe
  <2> QED
    BY <2>1, <2>2 DEF PipeShape
<1> QED
  BY <1>1, <1>3, <1>4

-----------------------------------------------------------------------------
(* The ring of metas: how far meta_idx has gone since an instruction was    *)
(* predicted. Everything from it to the end of the pipeline was predicted   *)
(* once; and of what was killed behind a misprediction, at most one slot    *)
(* for each instruction that EXE resolved.                                 *)

\* n steps on from a in a ring of q slots is b.
Ahead(q, a, b, n) == b = IF a + n < q THEN a + n ELSE a + n - q

Span(len, R, i) == (len - i + 1) + (IF i <= R THEN R - i + 1 ELSE 0)

KeptFor(inst, m, mi, s) ==
  /\ m[inst.meta] = inst.at
  /\ \E n \in 1 .. MetaSlots : n <= s /\ Ahead(MetaSlots, inst.meta, mi, n)

Kept(L, m, mi, R) ==
  \A i \in 1 .. Len(L) : ~L[i].fault => KeptFor(L[i], m, mi, Span(Len(L), R, i))

PredictorInv ==
  /\ TablesTyped
  /\ \E R \in Nat : PipeShape(insts, R) /\ Kept(insts, metas, metaIdx, R)

(* meta_idx moves on.                                                      *)
LEMMA AheadNext ==
  ASSUME NEW q \in Nat \ {0}, NEW a \in 0 .. q - 1, NEW b \in 0 .. q - 1, NEW n \in 0 .. q - 1,
         Ahead(q, a, b, n)
  PROVE  (b + 1) % q \in 0 .. q - 1 /\ Ahead(q, a, (b + 1) % q, n + 1)
<1> DEFINE x == b + 1
<1>1. x \in 0 .. 2 * q - 1 /\ x = b + 1
  OBVIOUS
<1> HIDE DEF x
<1>2. x % q = IF x < q THEN x ELSE x - q
  BY <1>1, SmallModulus
<1>3. PICK y : y = x % q
  OBVIOUS
<1>4. y = IF x < q THEN x ELSE x - q
  BY <1>2, <1>3
<1>5. y \in 0 .. q - 1 /\ Ahead(q, a, y, n + 1)
  BY <1>1, <1>4 DEF Ahead
<1> QED
  BY <1>3, <1>5 DEF x

(* What is kept for some instructions is kept for a part of them.          *)
LEMMA KeptOfPart ==
  ASSUME NEW L, NEW m, NEW mi, NEW R \in Nat, Kept(L, m, mi, R),
         NEW L2, NEW d \in Nat, NEW n \in Nat, NEW R2 \in Nat, Part(L, L2, d, n), Len(L) \in Nat,
         \A i \in 1 .. n : i + d \in 1 .. Len(L) /\ Span(Len(L), R, i + d) <= Span(n, R2, i)
  PROVE  Kept(L2, m, mi, R2)
<1>1. Len(L2) = n
  BY DEF Part
<1>2. ASSUME NEW i \in 1 .. n, ~L2[i].fault
      PROVE  KeptFor(L2[i], m, mi, Span(n, R2, i))
  <2>1. SameInst(L2[i], L[i + d]) /\ i + d \in 1 .. Len(L) /\ Span(Len(L), R, i + d) <= Span(n, R2, i)
    BY DEF Part
  <2>2. KeptFor(L[i + d], m, mi, Span(Len(L), R, i + d))
    BY <1>2, <2>1 DEF Kept, SameInst
  <2>3. PICK k \in 1 .. MetaSlots : k <= Span(Len(L), R, i + d) /\ Ahead(MetaSlots, L[i + d].meta, mi, k)
    BY <2>2 DEF KeptFor
  <2>9. Span(Len(L), R, i + d) \in Int /\ Span(n, R2, i) \in Int
    BY DEF Span
  <2>4. PICK s \in Int : s = Span(Len(L), R, i + d)
    BY <2>9
  <2>5. PICK u \in Int : u = Span(n, R2, i)
    BY <2>9
  <2>6. k \in Int
    BY Parameters
  <2>7. k <= u
    BY <2>1, <2>3, <2>4, <2>5, <2>6
  <2>8. L2[i].meta = L[i + d].meta /\ L2[i].at = L[i + d].at
    BY <2>1 DEF SameInst
  <2> QED
    BY <2>2, <2>3, <2>5, <2>7, <2>8 DEF KeptFor
<1> QED
  BY <1>1, <1>2 DEF Kept

\* The one place where the size of the ring matters: the slot that predict
\* writes is that of no instruction in the pipeline.
LEMMA SlotIsFree ==
  ASSUME NEW L, NEW R, PipeShape(L, R), NEW m \in [MetaIds -> MetaType], NEW mi \in MetaIds, Kept(L, m, mi, R),
         Len(L) < InFlight, NEW meta, NEW i \in 1 .. Len(L), ~L[i].fault
  PROVE  KeptFor(L[i], [m EXCEPT ![mi] = meta], NextMeta(mi), Span(Len(L) + 1, R, i))
<1>1. L \in Seq(InstType) /\ Len(L) \in Nat /\ R \in 0 .. Len(L) /\ InFlight \in Nat
      /\ MetaSlots \in Nat \ {0} /\ MetaSlots >= 2 * InFlight - 1
  BY LenProperties, Parameters DEF PipeShape
<1>2. L[i] \in InstType
  BY <1>1, ElementOfSeq
<1>3. PICK a : a = L[i].meta
  OBVIOUS
<1>4. a \in 0 .. MetaSlots - 1 /\ mi \in 0 .. MetaSlots - 1
  BY <1>2, <1>3 DEF InstType, MetaIds
<1>5. m[a] = L[i].at
  BY <1>3 DEF Kept, KeptFor
<1>6. PICK n \in 1 .. MetaSlots : n <= Span(Len(L), R, i) /\ Ahead(MetaSlots, a, mi, n)
  BY <1>3 DEF Kept, KeptFor
<1>7. n <= 2 * InFlight - 2
  BY <1>1, <1>6 DEF Span
<1>8. n \in 0 .. MetaSlots - 1 /\ n + 1 \in 1 .. MetaSlots
  BY <1>1, <1>7
<1>9. a # mi
  BY <1>1, <1>4, <1>6, <1>8 DEF Ahead
<1>10. [m EXCEPT ![mi] = meta][a] = L[i].at
  BY <1>4, <1>5, <1>9 DEF MetaIds
<1>11. Ahead(MetaSlots, a, (mi + 1) % MetaSlots, n + 1)
  BY <1>1, <1>4, <1>6, <1>8, AheadNext
<1>12. n + 1 <= Span(Len(L) + 1, R, i)
  BY <1>1, <1>6 DEF Span
<1> QED
  BY <1>3, <1>8, <1>10, <1>11, <1>12 DEF KeptFor, NextMeta

(* A prediction writes a slot that no instruction in flight has.           *)
LEMMA KeptPredict ==
  ASSUME NEW L, NEW R, PipeShape(L, R), NEW m \in [MetaIds -> MetaType], NEW mi \in MetaIds, Kept(L, m, mi, R),
         Len(L) < InFlight, NEW x \in InstType, x.meta = mi,
         NEW M, Len(M) = Len(L) + 1, \A i \in 1 .. Len(L) : M[i] = L[i], M[Len(L) + 1] = x
  PROVE  Kept(M, [m EXCEPT ![mi] = x.at], NextMeta(mi), R)
<1>1. Len(L) \in Nat /\ R \in 0 .. Len(L) /\ MetaSlots \in Nat \ {0} /\ mi \in 0 .. MetaSlots - 1
  BY LenProperties, Parameters DEF PipeShape, MetaIds
<1> DEFINE m2 == [m EXCEPT ![mi] = x.at]
<1>2. m2[mi] = x.at
  OBVIOUS
<1>3. KeptFor(x, m2, NextMeta(mi), Span(Len(L) + 1, R, Len(L) + 1))
  <2>1. Ahead(MetaSlots, mi, mi, 0) /\ 0 \in 0 .. MetaSlots - 1
    BY <1>1 DEF Ahead
  <2>2. Ahead(MetaSlots, mi, (mi + 1) % MetaSlots, 0 + 1)
    BY <1>1, <2>1, AheadNext
  <2>3. Ahead(MetaSlots, mi, (mi + 1) % MetaSlots, 1)
    BY <2>2
  <2>4. 1 <= Span(Len(L) + 1, R, Len(L) + 1) /\ 1 \in 1 .. MetaSlots
    BY <1>1 DEF Span
  <2> HIDE DEF m2
  <2> QED
    BY <1>2, <2>3, <2>4 DEF KeptFor, NextMeta
<1>4. ASSUME NEW i \in 1 .. Len(L), ~L[i].fault
      PROVE  KeptFor(L[i], m2, NextMeta(mi), Span(Len(L) + 1, R, i))
  BY <1>4, SlotIsFree
<1> HIDE DEF m2
<1>5. ASSUME NEW i \in 1 .. Len(M), ~M[i].fault
      PROVE  KeptFor(M[i], m2, NextMeta(mi), Span(Len(M), R, i))
  <2>1. CASE i = Len(L) + 1
    BY <1>3, <2>1
  <2>2. CASE i # Len(L) + 1
    <3>1. i \in 1 .. Len(L)
      BY <1>1, <2>2
    <3>2. M[i] = L[i]
      BY <3>1
    <3> QED
      BY <1>4, <1>5, <3>1, <3>2
  <2> QED
    BY <2>1, <2>2
<1>6. Kept(M, m2, NextMeta(mi), R)
  BY <1>5 DEF Kept
<1> QED
  BY <1>6 DEF m2

\* A fetch fault has no slot of its own.
LEMMA KeptFault ==
  ASSUME NEW L, NEW R, PipeShape(L, R), NEW m, NEW mi, Kept(L, m, mi, R), NEW x, x.fault,
         NEW M, Len(M) = Len(L) + 1, \A i \in 1 .. Len(L) : M[i] = L[i], M[Len(L) + 1] = x
  PROVE  Kept(M, m, mi, R)
<1>1. Len(L) \in Nat /\ R \in 0 .. Len(L)
  BY LenProperties DEF PipeShape
<1>2. ASSUME NEW i \in 1 .. Len(M), ~M[i].fault
      PROVE  KeptFor(M[i], m, mi, Span(Len(M), R, i))
  <2>1. i # Len(L) + 1
    BY <1>2
  <2>2. i \in 1 .. Len(L) /\ i \in Int
    BY <1>1, <2>1
  <2>3. M[i] = L[i]
    BY <2>2
  <2>4. KeptFor(L[i], m, mi, Span(Len(L), R, i))
    BY <1>2, <2>2, <2>3 DEF Kept
  <2>5. PICK n \in 1 .. MetaSlots : n <= Span(Len(L), R, i) /\ Ahead(MetaSlots, L[i].meta, mi, n)
    BY <2>4 DEF KeptFor
  <2>6. n <= Span(Len(M), R, i)
    BY <1>1, <2>2, <2>5, Parameters DEF Span
  <2> QED
    BY <2>3, <2>4, <2>5, <2>6 DEF KeptFor
<1> QED
  BY <1>2 DEF Kept

-----------------------------------------------------------------------------
(* Every step of the pipeline keeps the invariant.                         *)

(* Nothing is in flight at the start.                                      *)
LEMMA PredictorStarts ==
  ASSUME PredictorInit
  PROVE  PredictorInv
<1>1. ZeroGhr \in GhrType
  BY DEF ZeroGhr, GhrType
<1>2. 0 \in Idx /\ 0 \in Tops /\ 0 \in MetaIds /\ 0 \in 0 .. MaxFaults
  BY Parameters, IdxRange DEF Tops, MetaIds
<1>3. NoMeta \in MetaType
  BY <1>1, <1>2, RecentTyped DEF NoMeta, MetaType, Tops
<1>4. 0 \in Counters
  <2>1. 2 ^ BitSize \in Nat \ {0}
    BY PredictorAssumption, PowerIsPositive
  <2> QED
    BY <2>1 DEF Counters, MinCounter, MaxCounter
<1>5. TablesTyped
  BY <1>1, <1>2, <1>3, <1>4 DEF PredictorInit, TablesTyped, MetaIds
<1>6. insts = << >>
  BY DEF PredictorInit
<1>7. PipeShape(insts, 0) /\ Kept(insts, metas, metaIdx, 0)
  BY <1>6, PipeEmpty DEF Kept
<1> QED
  BY <1>5, <1>7 DEF PredictorInv

(* One lemma for each action.                                              *)
LEMMA PredictKeepsInv ==
  ASSUME PredictorInv, NEW type \in Types, NEW pc \in Pcs, NEW size \in InstSizes, NEW exc \in BOOLEAN,
         Predict(type, pc, size, exc)
  PROVE  PredictorInv'
<1>1. TablesTyped
  BY DEF PredictorInv
<1>2. PICK R \in Nat : PipeShape(insts, R) /\ Kept(insts, metas, metaIdx, R)
  BY DEF PredictorInv
<1>3. Len(insts) < InFlight /\ Len(insts) - R <= 1
  BY <1>2, IdFreeMeans DEF Predict
<1>4. PICK taken \in BOOLEAN : taken = PredictedTaken(type, pc)
  BY PredictionTyped
<1>5. [idx |-> ghrIdx, top |-> top, hist |-> Recent(ghr)] \in MetaType
  BY <1>1, RecentTyped DEF TablesTyped, MetaType, Tops
<1>6. PICK meta \in MetaType : meta = [idx |-> ghrIdx, top |-> top, hist |-> Recent(ghr)]
  BY <1>5
<1>7. PICK spec \in Histories : spec = Speculate(<< ghr, ghrIdx >>, type, taken)
  BY <1>1, SpeculateTyped DEF TablesTyped
<1>8. Rollback(spec, meta, type, taken) \in Histories
  <2>1. spec[1] \in GhrType /\ spec[2] \in Idx /\ spec = << spec[1], spec[2] >>
    BY DEF Histories
  <2>2. Rollback(<< spec[1], spec[2] >>, meta, type, taken) \in Histories
    BY <2>1, RollbackTyped
  <2> QED
    BY <2>1, <2>2
<1>9. PICK h \in Histories : h = IF taken THEN Rollback(spec, meta, type, taken) ELSE spec
  BY <1>8
<1>10. PICK x : x = [type |-> type, pc |-> pc, size |-> size, meta |-> metaIdx, taken |-> taken, exc |-> exc,
                     at |-> meta, resolved |-> FALSE, fault |-> FALSE]
  OBVIOUS
<1>11. x \in InstType /\ x.meta = metaIdx /\ x.at = meta /\ x.resolved = FALSE /\ x.fault = FALSE
  BY <1>1, <1>10 DEF InstType, TablesTyped
<1>12. /\ insts' = Append(insts, x) /\ metas' = [metas EXCEPT ![metaIdx] = x.at] /\ metaIdx' = NextMeta(metaIdx)
       /\ UNCHANGED << table, faults >>
  BY <1>4, <1>6, <1>10, <1>11 DEF Predict
<1>13. ghr' = h[1] /\ ghrIdx' = h[2]
  BY <1>4, <1>6, <1>7, <1>9 DEF Predict, HistoryBecomes
<1>14. top' \in Tops
  <2>1. top' = IF taken THEN TopAfter(meta.top, type, size) ELSE TopAfter(top, type, RasSize)
    BY <1>4, <1>6 DEF Predict, RasRedirect, RasPredict
  <2>2. size \in 1 .. RasSize /\ RasSize \in 1 .. RasSize /\ meta.top \in Tops /\ top \in Tops
    BY <1>1, Parameters DEF MetaType, Tops, TablesTyped
  <2>3. TopAfter(meta.top, type, size) \in Tops /\ TopAfter(top, type, RasSize) \in Tops
    BY <2>2, TopTyped
  <2> QED
    BY <2>1, <2>3
<1>15. metas' \in [MetaIds -> MetaType] /\ metaIdx' \in MetaIds
  <2>1. metas' \in [MetaIds -> MetaType]
    BY <1>1, <1>11, <1>12 DEF TablesTyped
  <2> DEFINE y == metaIdx + 1
  <2>2. y \in Int /\ MetaSlots \in Nat \ {0} /\ MetaIds = 0 .. MetaSlots - 1
    BY <1>1, Parameters DEF TablesTyped, MetaIds
  <2>3. metaIdx' = y % MetaSlots
    BY <1>12 DEF NextMeta
  <2> HIDE DEF y
  <2>4. y % MetaSlots \in 0 .. MetaSlots - 1
    BY <2>2, ModulusTyped
  <2> QED
    BY <2>1, <2>2, <2>3, <2>4
<1>16. TablesTyped'
  BY <1>1, <1>12, <1>13, <1>14, <1>15 DEF TablesTyped, Histories
<1>17. PICK M : M = Append(insts, x)
  OBVIOUS
<1>18. /\ PipeShape(M, R) /\ Len(M) = Len(insts) + 1
       /\ \A i \in 1 .. Len(insts) : M[i] = insts[i]
       /\ M[Len(insts) + 1] = x
  BY <1>2, <1>3, <1>11, <1>17, PipeAppend
<1>19. metas \in [MetaIds -> MetaType] /\ metaIdx \in MetaIds
  BY <1>1 DEF TablesTyped
<1>20. Kept(M, [metas EXCEPT ![metaIdx] = x.at], NextMeta(metaIdx), R)
  BY <1>2, <1>3, <1>11, <1>18, <1>19, KeptPredict
<1>21. PipeShape(insts', R) /\ Kept(insts', metas', metaIdx', R)
  BY <1>12, <1>17, <1>18, <1>20
<1> QED
  BY <1>2, <1>16, <1>21 DEF PredictorInv

LEMMA FetchFaultKeepsInv ==
  ASSUME PredictorInv, NEW slot \in MetaIds, FetchFault(slot)
  PROVE  PredictorInv'
<1>1. TablesTyped
  BY DEF PredictorInv
<1>2. PICK R \in Nat : PipeShape(insts, R) /\ Kept(insts, metas, metaIdx, R)
  BY DEF PredictorInv
<1>3. Len(insts) < InFlight /\ Len(insts) - R <= 1
  BY <1>2, IdFreeMeans DEF FetchFault
<1>4. PICK x : x = [type |-> "INT", pc |-> CHOOSE pc \in Pcs : TRUE, size |-> CHOOSE n \in InstSizes : TRUE,
                    meta |-> slot, taken |-> FALSE, exc |-> TRUE, at |-> metas[slot],
                    resolved |-> FALSE, fault |-> TRUE]
  OBVIOUS
<1>5. (CHOOSE pc \in Pcs : TRUE) \in Pcs /\ (CHOOSE n \in InstSizes : TRUE) \in InstSizes /\ metas[slot] \in MetaType
  BY <1>1, Parameters DEF TablesTyped
<1>6. x \in InstType /\ x.exc = TRUE /\ x.resolved = FALSE /\ x.fault = TRUE
  BY <1>4, <1>5 DEF InstType
<1>7. insts' = Append(insts, x) /\ UNCHANGED << ghr, ghrIdx, top, table, metas, metaIdx >>
      /\ faults' = faults + 1 /\ faults < MaxFaults
  BY <1>4 DEF FetchFault
<1>8. faults' \in 0 .. MaxFaults
  BY <1>1, <1>7, Parameters DEF TablesTyped
<1>9. TablesTyped'
  BY <1>1, <1>7, <1>8 DEF TablesTyped
<1>10. PICK M : M = Append(insts, x)
  OBVIOUS
<1>11. /\ PipeShape(M, R) /\ Len(M) = Len(insts) + 1
       /\ \A i \in 1 .. Len(insts) : M[i] = insts[i]
       /\ M[Len(insts) + 1] = x
  BY <1>2, <1>3, <1>6, <1>10, PipeAppend
<1>12. Kept(M, metas, metaIdx, R)
  BY <1>2, <1>6, <1>11, KeptFault
<1>13. PipeShape(insts', R) /\ Kept(insts', metas', metaIdx', R)
  BY <1>7, <1>10, <1>11, <1>12
<1> QED
  BY <1>2, <1>9, <1>13 DEF PredictorInv

\* PassExe and Train resolve the instruction in EXE and leave the metas.
LEMMA ResolveKeepsInv ==
  ASSUME PredictorInv, NEW i \in 1 .. Len(insts), InExe(i), insts' = Resolve(i), TablesTyped',
         UNCHANGED << metas, metaIdx >>
  PROVE  PredictorInv'
<1>1. PICK R \in Nat : PipeShape(insts, R) /\ Kept(insts, metas, metaIdx, R)
  BY DEF PredictorInv
<1>2. i = R + 1 /\ R < Len(insts) /\ Len(insts) \in Nat
  BY <1>1, ExeIsFirst, LenProperties DEF PipeShape
<1>3. PICK M : M = [insts EXCEPT ![R + 1].resolved = TRUE]
  OBVIOUS
<1>4. PipeShape(M, R + 1) /\ Part(insts, M, 0, Len(insts))
  BY <1>1, <1>2, <1>3, ResolveOne
<1>5. PICK n : n = Len(insts)
  OBVIOUS
<1>6. \A k \in 1 .. n : k + 0 \in 1 .. n /\ Span(n, R, k + 0) <= Span(n, R + 1, k)
  BY <1>2, <1>5 DEF Span
<1>7. n \in Nat /\ 0 \in Nat /\ R + 1 \in Nat
  BY <1>2, <1>5
<1>8. Kept(M, metas, metaIdx, R + 1)
  BY <1>1, <1>4, <1>5, <1>6, <1>7, KeptOfPart
<1>9. insts' = M
  BY <1>2, <1>3 DEF Resolve
<1>10. PipeShape(insts', R + 1) /\ Kept(insts', metas', metaIdx', R + 1)
  BY <1>4, <1>8, <1>9
<1> QED
  BY <1>7, <1>10 DEF PredictorInv

LEMMA PassExeKeepsInv ==
  ASSUME PredictorInv, NEW i \in 1 .. Len(insts), PassExe(i)
  PROVE  PredictorInv'
<1>1. TablesTyped'
  BY DEF PredictorInv, TablesTyped, PassExe
<1> QED
  BY <1>1, ResolveKeepsInv DEF PassExe

LEMMA TrainKeepsInv ==
  ASSUME PredictorInv, NEW i \in 1 .. Len(insts), NEW taken \in BOOLEAN, Train(i, taken)
  PROVE  PredictorInv'
<1>1. table' \in [TableIndices -> Counters]
  BY TrainTyped DEF PredictorInv, TablesTyped, Train
<1>2. TablesTyped'
  BY <1>1 DEF PredictorInv, TablesTyped, Train
<1> QED
  BY <1>2, ResolveKeepsInv DEF Train

LEMMA BrRedirectKeepsInv ==
  ASSUME PredictorInv, NEW i \in 1 .. Len(insts), NEW taken \in BOOLEAN, BrRedirect(i, taken)
  PROVE  PredictorInv'
<1>1. TablesTyped
  BY DEF PredictorInv
<1>2. PICK R \in Nat : PipeShape(insts, R) /\ Kept(insts, metas, metaIdx, R)
  BY DEF PredictorInv
<1>3. i = R + 1 /\ R < Len(insts) /\ Len(insts) \in Nat
  BY <1>2, ExeIsFirst, LenProperties DEF PipeShape, BrRedirect
<1>4. insts[i] \in InstType
  BY <1>2, ElementOfSeq DEF PipeShape
<1>5. metas[insts[i].meta] \in MetaType /\ insts[i].size \in InstSizes
  BY <1>1, <1>4 DEF TablesTyped, InstType
<1>6. Redirect(metas[insts[i].meta], insts[i].type, insts[i].size, taken) /\ GShareTrain(insts[i], taken)
      /\ insts' = SubSeq(Resolve(i), 1, i) /\ UNCHANGED << metas, metaIdx, faults >>
  BY DEF BrRedirect
<1>7. ghr' \in GhrType /\ ghrIdx' \in Idx /\ top' \in Tops
  BY <1>1, <1>5, <1>6, RedirectTyped DEF TablesTyped
<1>8. table' \in [TableIndices -> Counters]
  BY <1>1, <1>6, TrainTyped DEF TablesTyped
<1>9. TablesTyped'
  BY <1>1, <1>6, <1>7, <1>8 DEF TablesTyped
<1>10. PICK M : M = [insts EXCEPT ![R + 1].resolved = TRUE]
  OBVIOUS
<1>11. PICK C : C = SubSeq(M, 1, R + 1)
  OBVIOUS
<1>12. PipeShape(C, R + 1) /\ Part(insts, C, 0, R + 1)
  BY <1>2, <1>3, <1>10, <1>11, CutAfter
<1>13. insts' = C
  BY <1>3, <1>6, <1>10, <1>11 DEF Resolve
<1>14. PICK n : n = Len(insts)
  OBVIOUS
<1>15. PICK r : r = R + 1
  OBVIOUS
<1>16. n - R <= 2 /\ n \in Nat /\ R < n /\ r \in Nat
  BY <1>2, <1>3, <1>14, <1>15 DEF PipeShape
<1>17. \A k \in 1 .. r : k + 0 \in 1 .. n /\ Span(n, R, k + 0) <= Span(r, r, k)
  BY <1>15, <1>16 DEF Span
<1>18. Kept(C, metas, metaIdx, r)
  BY <1>2, <1>12, <1>14, <1>15, <1>16, <1>17, KeptOfPart
<1>19. PipeShape(insts', r) /\ Kept(insts', metas', metaIdx', r)
  BY <1>6, <1>12, <1>13, <1>15, <1>18
<1> QED
  BY <1>9, <1>16, <1>19 DEF PredictorInv

LEMMA RetireKeepsInv ==
  ASSUME PredictorInv, Retire
  PROVE  PredictorInv'
<1>1. TablesTyped'
  BY DEF PredictorInv, TablesTyped, Retire
<1>2. PICK R \in Nat : PipeShape(insts, R) /\ Kept(insts, metas, metaIdx, R)
  BY DEF PredictorInv
<1>3. R >= 1 /\ Len(insts) \in Nat /\ R <= Len(insts)
  <2>1. insts \in Seq(InstType) /\ insts # << >> /\ Head(insts) = insts[1] /\ Head(insts).resolved
    BY <1>2, HeadTailProperties DEF Retire, PipeShape
  <2>2. Len(insts) \in Nat /\ 1 \in 1 .. Len(insts) /\ R \in 0 .. Len(insts)
    BY <1>2, <2>1, LenProperties, EmptySeq DEF PipeShape
  <2>3. insts[1].resolved <=> 1 <= R
    BY <1>2, <2>2 DEF PipeShape
  <2> QED
    BY <2>1, <2>2, <2>3
<1>4. PICK T : T = Tail(insts)
  OBVIOUS
<1>5. PICK n \in Nat : n = Len(insts)
  BY <1>3
<1>6. PICK r \in Nat : r = R - 1
  BY <1>3
<1>7. PICK k \in Nat : k = n - 1
  BY <1>3, <1>5
<1>8. PipeShape(T, r) /\ Part(insts, T, 1, k)
  BY <1>2, <1>3, <1>4, <1>5, <1>6, <1>7, PipeTail
<1>9. \A j \in 1 .. k : j + 1 \in 1 .. n /\ Span(n, R, j + 1) <= Span(k, r, j)
  BY <1>3, <1>6, <1>7 DEF Span
<1>10. Kept(T, metas, metaIdx, r)
  BY <1>2, <1>5, <1>8, <1>9, KeptOfPart
<1>11. insts' = T /\ UNCHANGED << metas, metaIdx >>
  BY <1>4 DEF Retire
<1>12. PipeShape(insts', r) /\ Kept(insts', metas', metaIdx', r)
  BY <1>8, <1>10, <1>11
<1> QED
  BY <1>1, <1>12 DEF PredictorInv

LEMMA ExcRedirectKeepsInv ==
  ASSUME PredictorInv, ExcRedirect
  PROVE  PredictorInv'
<1>1. TablesTyped
  BY DEF PredictorInv
<1>2. PICK R \in Nat : PipeShape(insts, R) /\ Kept(insts, metas, metaIdx, R)
  BY DEF PredictorInv
<1>3. Head(insts) \in InstType
  BY <1>2, HeadTailProperties DEF ExcRedirect, PipeShape
<1>4. metas[Head(insts).meta] \in MetaType /\ Head(insts).size \in InstSizes
  BY <1>1, <1>3 DEF TablesTyped, InstType
<1>5. ghr' \in GhrType /\ ghrIdx' \in Idx /\ top' \in Tops
  BY <1>1, <1>4, RedirectTyped DEF TablesTyped, ExcRedirect
<1>6. TablesTyped'
  BY <1>1, <1>5 DEF TablesTyped, ExcRedirect
<1>7. insts' = << >>
  BY DEF ExcRedirect
<1>8. PipeShape(insts', 0) /\ Kept(insts', metas', metaIdx', 0)
  BY <1>7, PipeEmpty DEF Kept
<1> QED
  BY <1>6, <1>8 DEF PredictorInv

(* Every step keeps the invariant.                                         *)
LEMMA PredictorStepKeepsInv ==
  ASSUME PredictorInv, [PredictorNext]_predictorVars
  PROVE  PredictorInv'
<1>1. CASE \E type \in Types, pc \in Pcs, size \in InstSizes, exc \in BOOLEAN : Predict(type, pc, size, exc)
  BY <1>1, PredictKeepsInv
<1>2. CASE \E slot \in 0 .. MetaSlots - 1 : FetchFault(slot)
  BY <1>2, FetchFaultKeepsInv DEF MetaIds
<1>3. CASE \E i \in 1 .. Len(insts) : PassExe(i)
  BY <1>3, PassExeKeepsInv
<1>4. CASE \E i \in 1 .. Len(insts), taken \in BOOLEAN : Train(i, taken) \/ BrRedirect(i, taken)
  BY <1>4, TrainKeepsInv, BrRedirectKeepsInv
<1>5. CASE Retire
  BY <1>5, RetireKeepsInv
<1>6. CASE ExcRedirect
  BY <1>6, ExcRedirectKeepsInv
<1>7. CASE UNCHANGED predictorVars
  BY <1>7 DEF PredictorInv, TablesTyped, predictorVars
<1> QED
  BY <1>1, <1>2, <1>3, <1>4, <1>5, <1>6, <1>7 DEF PredictorNext

(* The invariant of the predictors holds in every reachable state: the      *)
(* histories, the table and the instructions are typed, at most two         *)
(* instructions are unresolved, and meta_idx is never further from the slot *)
(* of an instruction than the ring is long (Predictor::predict).            *)
THEOREM PredictorSafe == PredictorSpec => []PredictorInv
<1>1. PredictorInit => PredictorInv
  BY PredictorStarts
<1>2. PredictorInv /\ [PredictorNext]_predictorVars => PredictorInv'
  BY PredictorStepKeepsInv
<1> QED
  BY <1>1, <1>2, PTL DEF PredictorSpec

(* The invariant gives the types.                                          *)
LEMMA PredictorInvTyped ==
  ASSUME PredictorInv
  PROVE  PredictorTypeOK
<1>1. PICK R \in Nat : PipeShape(insts, R)
  BY DEF PredictorInv
<1>2. \A i \in 1 .. Len(insts) : insts[i] \in InstType
  BY <1>1, ElementOfSeq DEF PipeShape
<1> QED
  BY <1>1, <1>2 DEF PredictorInv, TablesTyped, PredictorTypeOK, PipeShape, GhrType, Tops, Counters, MetaIds, InstType

(* What predict stored for an instruction is still in its slot of the ring  *)
(* when EXE trains with it or a redirect rolls back to it, for every length *)
(* of the pipeline and every ring of at least 2 * InFlight - 1 slots.       *)
THEOREM MetasAreKept == PredictorSpec => []MetaIntact
<1>1. PredictorInv => MetaIntact
  BY DEF PredictorInv, Kept, KeptFor, MetaIntact
<1> QED
  BY <1>1, PredictorSafe, PTL

-----------------------------------------------------------------------------
(* The global history: what lies behind the bits an instruction was         *)
(* predicted with are the outcomes pushed since, and ghr_idx counts them.   *)

\* The history is n bits on from that of the snapshot `at`.
Behind(at, g, x, n) ==
  /\ Ahead(2 ^ IdxBits, at.idx, x, n)
  /\ \A k \in 0 .. HistBits - 1 : g[k + n] = at.hist[k]

\* What the code takes for granted about its parameters: the history is
\* longer than what is looked at and what can be in flight, and ghr_idx
\* does not run round half its range with one pipeline of branches.
LongHistory == GhrSize >= HistBits + InFlight /\ InFlight < 2 ^ (IdxBits - 1)

(* The remainder of a small negative number.                               *)
LEMMA NegativeModulus ==
  ASSUME NEW q \in Nat \ {0}, NEW x \in Int, -q <= x, x < 0
  PROVE  x % q = x + q
<1>1. x % q \in 0 .. q - 1 /\ x \div q \in Int /\ x = q * (x \div q) + (x % q)
  BY SMT
<1> DEFINE d == x \div q
           r == x % q
<1>2. d \in Int /\ r \in Int /\ 0 <= r /\ r < q /\ x = q * d + r
  BY <1>1
<1> HIDE DEF d, r
<1>3. d = -1
  <2>1. CASE d < -1
    <3>1. q * d <= -2 * q
      BY <2>1, <1>2, SMT
    <3> QED
      BY <3>1, <1>2, SMT
  <2>2. CASE d >= 0
    <3>1. q * d >= 0
      BY <2>2, <1>2, SMT
    <3> QED
      BY <3>1, <1>2, SMT
  <2> QED
    BY <2>1, <2>2, <1>2, SMT
<1>4. r = x + q
  BY <1>2, <1>3, SMT
<1> QED
  BY <1>4 DEF r

(* ghr_idx - meta.idx is the number of branches since, in spite of its     *)
(* width.                                                                  *)
LEMMA ShiftSizeIs ==
  ASSUME NEW a \in Idx, NEW b \in Idx, NEW n \in Nat, n < 2 ^ (IdxBits - 1), Ahead(2 ^ IdxBits, a, b, n)
  PROVE  ShiftSize(b, a) = n
<1> DEFINE W == 2 ^ IdxBits
           H == 2 ^ (IdxBits - 1)
           x == b - a
<1>1. W \in Nat \ {0} /\ H \in Nat \ {0} /\ H <= W /\ a \in 0 .. W - 1 /\ b \in 0 .. W - 1 /\ x = b - a
  BY IdxRange
<1>2. ShiftSize(b, a) = IF x % W < H THEN x % W ELSE (x % W) - W
  BY DEF ShiftSize
<1>3. n < H /\ b = IF a + n < W THEN a + n ELSE a + n - W
  BY DEF Ahead
<1> HIDE DEF W, H, x
<1>4. x % W = n
  <2>1. CASE x >= 0
    <3>1. x \in 0 .. 2 * W - 1 /\ x < W /\ x = n
      BY <1>1, <1>3, <2>1
    <3>2. x % W = IF x < W THEN x ELSE x - W
      BY <1>1, <3>1, SmallModulus
    <3> QED
      BY <3>1, <3>2
  <2>2. CASE x < 0
    <3>1. x \in Int /\ -W <= x /\ x + W = n
      BY <1>1, <1>3, <2>2
    <3>2. x % W = x + W
      BY <1>1, <2>2, <3>1, NegativeModulus
    <3> QED
      BY <3>1, <3>2
  <2> QED
    BY <1>1, <2>1, <2>2
<1> QED
  BY <1>2, <1>3, <1>4

(* A snapshot is no branch behind the history it is of;                    *)
LEMMA BehindSelf ==
  ASSUME NEW g \in GhrType, NEW x \in Idx, NEW at \in MetaType, at.idx = x, at.hist = Recent(g)
  PROVE  Behind(at, g, x, 0)
<1>1. 2 ^ IdxBits \in Nat \ {0} /\ x \in 0 .. 2 ^ IdxBits - 1
  BY IdxRange
<1>2. PICK W : W = 2 ^ IdxBits
  OBVIOUS
<1>3. Ahead(W, x, x, 0)
  BY <1>1, <1>2 DEF Ahead
<1>4. \A k \in 0 .. HistBits - 1 : g[k + 0] = at.hist[k]
  BY RecentTyped
<1> QED
  BY <1>2, <1>3, <1>4 DEF Behind

(* one more with each branch;                                              *)
LEMMA BehindPush ==
  ASSUME LongHistory, NEW g \in GhrType, NEW x \in Idx, NEW at \in MetaType, NEW n \in 0 .. InFlight - 1,
         Behind(at, g, x, n), NEW taken
  PROVE  Behind(at, PushBit(g, taken), (x + 1) % (2 ^ IdxBits), n + 1)
<1>1. PICK W \in Nat \ {0} : W = 2 ^ IdxBits
  BY IdxRange
<1>2. PICK H \in Nat : H = 2 ^ (IdxBits - 1)
  BY IdxRange
<1>3. H <= W /\ InFlight < H /\ x \in 0 .. W - 1 /\ InFlight \in Nat
  BY <1>1, <1>2, IdxRange, Parameters DEF LongHistory
<1>4. at.idx \in 0 .. W - 1
  BY <1>1, IdxRange DEF MetaType
<1>5. n \in 0 .. W - 1
  BY <1>3
<1>6. Ahead(W, at.idx, (x + 1) % W, n + 1)
  <2>1. Ahead(W, at.idx, x, n)
    BY <1>1 DEF Behind
  <2> QED
    BY <1>3, <1>4, <1>5, <2>1, AheadNext
<1>7. ASSUME NEW k \in 0 .. HistBits - 1
      PROVE  PushBit(g, taken)[k + (n + 1)] = at.hist[k]
  <2>1. k + (n + 1) \in 0 .. GhrSize - 1 /\ k + (n + 1) # 0 /\ k + (n + 1) - 1 = k + n
    BY Parameters DEF LongHistory
  <2>2. PushBit(g, taken)[k + (n + 1)] = g[k + (n + 1) - 1]
    BY <2>1, PushTyped
  <2>3. g[k + n] = at.hist[k]
    BY DEF Behind
  <2> QED
    BY <2>1, <2>2, <2>3
<1> QED
  BY <1>1, <1>6, <1>7 DEF Behind

\* Shifting back to one snapshot keeps what lies further behind.
LEMMA BehindShift ==
  ASSUME LongHistory, NEW g \in GhrType, NEW x \in Idx, NEW at \in MetaType, NEW to \in MetaType,
         NEW n \in 0 .. InFlight, NEW m \in 0 .. n, Behind(at, g, x, n), Behind(to, g, x, m)
  PROVE  Behind(at, ShiftRight(g, m), to.idx, n - m)
<1>1. PICK W \in Nat \ {0} : W = 2 ^ IdxBits
  BY IdxRange
<1>2. PICK H \in Nat : H = 2 ^ (IdxBits - 1)
  BY IdxRange
<1>3. H <= W /\ InFlight < H /\ x \in 0 .. W - 1 /\ InFlight \in Nat
  BY <1>1, <1>2, IdxRange, Parameters DEF LongHistory
<1>4. PICK a \in 0 .. W - 1 : a = at.idx
  BY <1>1, IdxRange DEF MetaType
<1>5. PICK b \in 0 .. W - 1 : b = to.idx
  BY <1>1, IdxRange DEF MetaType
<1>6. Ahead(W, a, x, n) /\ Ahead(W, b, x, m)
  BY <1>1, <1>4, <1>5 DEF Behind
<1>7. Ahead(W, a, b, n - m)
  BY <1>3, <1>6 DEF Ahead
<1>8. ASSUME NEW k \in 0 .. HistBits - 1
      PROVE  ShiftRight(g, m)[k + (n - m)] = at.hist[k]
  <2>1. k + (n - m) \in 0 .. GhrSize - 1 /\ m >= 0 /\ m \in Int /\ k + (n - m) + m < GhrSize /\ k + (n - m) + m = k + n
    BY Parameters DEF LongHistory
  <2>2. ShiftRight(g, m)[k + (n - m)] = g[k + (n - m) + m]
    BY <2>1, ShiftTyped
  <2>3. g[k + n] = at.hist[k]
    BY DEF Behind
  <2> QED
    BY <2>1, <2>2, <2>3
<1> QED
  BY <1>1, <1>4, <1>5, <1>7, <1>8 DEF Behind

(* and a rollback shifts by as many.                                       *)
LEMMA RollbackIs ==
  ASSUME LongHistory, NEW g \in GhrType, NEW x \in Idx, NEW at \in MetaType, NEW n \in 0 .. InFlight,
         Behind(at, g, x, n), NEW type, NEW taken
  PROVE  /\ Rollback(<< g, x >>, at, type, taken) = Speculate(<< ShiftRight(g, n), at.idx >>, type, taken)
         /\ ShiftRight(g, n) \in GhrType /\ at.idx \in Idx
<1>1. at.idx \in Idx /\ n \in Nat /\ n < 2 ^ (IdxBits - 1)
  BY Parameters, IdxRange DEF MetaType, LongHistory
<1>2. Ahead(2 ^ IdxBits, at.idx, x, n)
  BY DEF Behind
<1>3. ShiftSize(x, at.idx) = n
  BY <1>1, <1>2, ShiftSizeIs
<1>4. ShiftRight(g, n) \in GhrType
  BY <1>1, ShiftTyped
<1> QED
  BY <1>1, <1>3, <1>4 DEF Rollback

\* A repaired history reads as the snapshot did.
LEMMA ShiftedIs ==
  ASSUME LongHistory, NEW g \in GhrType, NEW x \in Idx, NEW at \in MetaType, NEW n \in 0 .. InFlight,
         Behind(at, g, x, n), NEW k \in 0 .. HistBits - 1
  PROVE  ShiftRight(g, n)[k] = at.hist[k]
<1>1. k \in 0 .. GhrSize - 1 /\ n \in Int /\ n >= 0 /\ k + n < GhrSize
  BY Parameters DEF LongHistory
<1>2. ShiftRight(g, n)[k] = g[k + n]
  BY <1>1, ShiftTyped
<1> QED
  BY <1>2 DEF Behind

(* Histories with the same bits are the same;                              *)
LEMMA SameGhr ==
  ASSUME NEW a \in GhrType, NEW b \in GhrType, \A i \in 0 .. GhrSize - 1 : a[i] = b[i]
  PROVE  a = b
<1> DEFINE S == 0 .. GhrSize - 1
<1>1. a \in [S -> {0, 1}] /\ b \in [S -> {0, 1}] /\ \A i \in S : a[i] = b[i]
  BY DEF GhrType
<1> HIDE DEF S
<1> QED
  BY <1>1

Hists == [0 .. HistBits - 1 -> {0, 1}]

(* also the parts that are read.                                           *)
LEMMA SameHist ==
  ASSUME NEW a \in Hists, NEW b \in Hists, \A i \in 0 .. HistBits - 1 : a[i] = b[i]
  PROVE  a = b
<1> DEFINE S == 0 .. HistBits - 1
<1>1. a \in [S -> {0, 1}] /\ b \in [S -> {0, 1}] /\ \A i \in S : a[i] = b[i]
  BY DEF Hists
<1> HIDE DEF S
<1> QED
  BY <1>1

\* preId's redirect for a taken branch rolls the speculation back and makes
\* it again.
LEMMA PredictionStands ==
  ASSUME LongHistory, NEW g \in GhrType, NEW x \in Idx, NEW meta \in MetaType, meta.idx = x,
         meta.hist = Recent(g), NEW type, NEW taken \in BOOLEAN
  PROVE  Rollback(Speculate(<< g, x >>, type, taken), meta, type, taken) = Speculate(<< g, x >>, type, taken)
<1>1. GhrSize \in Nat \ {0} /\ InFlight \in Nat /\ InFlight >= 2
  BY Parameters
<1>2. Behind(meta, g, x, 0)
  BY BehindSelf
<1>3. CASE type = "COND"
  <2>1. 0 \in 0 .. InFlight - 1 /\ 1 \in 0 .. InFlight /\ 0 + 1 = 1
    BY <1>1
  <2>2. PICK p \in GhrType : p = PushBit(g, taken)
    BY PushTyped
  <2>3. PICK y \in Idx : y = (x + 1) % (2 ^ IdxBits)
    <3> DEFINE z == x + 1
    <3>1. 2 ^ IdxBits \in Nat \ {0} /\ z \in Int
      BY IdxRange
    <3> HIDE DEF z
    <3>2. z % (2 ^ IdxBits) \in Idx
      BY <3>1, IdxRange, ModulusTyped
    <3> QED
      BY <3>2 DEF z
  <2>4. Speculate(<< g, x >>, type, taken) = << p, y >>
    BY <1>3, <2>2, <2>3 DEF Speculate
  <2>5. Behind(meta, p, y, 1)
    <3>1. Behind(meta, PushBit(g, taken), (x + 1) % (2 ^ IdxBits), 0 + 1)
      BY <1>2, <2>1, BehindPush
    <3> QED
      BY <2>1, <2>2, <2>3, <3>1
  <2>6. Rollback(<< p, y >>, meta, type, taken) = Speculate(<< ShiftRight(p, 1), x >>, type, taken)
        /\ ShiftRight(p, 1) \in GhrType
    <3>1. Rollback(<< p, y >>, meta, type, taken) = Speculate(<< ShiftRight(p, 1), meta.idx >>, type, taken)
          /\ ShiftRight(p, 1) \in GhrType
      BY <2>1, <2>5, RollbackIs
    <3> QED
      BY <3>1
  <2>7. PICK q \in GhrType : q = ShiftRight(p, 1)
    BY <2>6
  <2>8. PushBit(q, taken) = p
    <3>1. PushBit(q, taken) \in GhrType /\ p \in GhrType
      BY PushTyped
    <3>2. ASSUME NEW i \in 0 .. GhrSize - 1
          PROVE  PushBit(q, taken)[i] = p[i]
      <4>1. PushBit(q, taken)[i] = IF i = 0 THEN (IF taken THEN 1 ELSE 0) ELSE q[i - 1]
        BY PushTyped
      <4>2. p[i] = IF i = 0 THEN (IF taken THEN 1 ELSE 0) ELSE g[i - 1]
        BY <2>2, PushTyped
      <4>3. ASSUME i # 0
            PROVE  q[i - 1] = g[i - 1]
        <5>1. i - 1 \in 0 .. GhrSize - 1 /\ 1 >= 0 /\ (i - 1) + 1 < GhrSize /\ (i - 1) + 1 = i /\ 1 \in Int
          BY <1>1, <4>3
        <5>2. q[i - 1] = p[(i - 1) + 1]
          BY <2>7, <5>1, ShiftTyped
        <5> QED
          BY <4>2, <4>3, <5>1, <5>2
      <4> QED
        BY <4>1, <4>2, <4>3
    <3> QED
      BY <3>1, <3>2, SameGhr
  <2>9. Speculate(<< q, x >>, type, taken) = << p, y >>
    BY <1>3, <2>3, <2>8 DEF Speculate
  <2> QED
    BY <2>4, <2>6, <2>7, <2>9
<1>4. CASE type # "COND"
  <2>1. \A h : Speculate(h, type, taken) = h
    BY <1>4 DEF Speculate
  <2>2. 0 \in 0 .. InFlight /\ 0 \in Int
    BY <1>1
  <2>3. Rollback(<< g, x >>, meta, type, taken) = Speculate(<< ShiftRight(g, 0), x >>, type, taken)
        /\ ShiftRight(g, 0) \in GhrType
    <3>1. Rollback(<< g, x >>, meta, type, taken) = Speculate(<< ShiftRight(g, 0), meta.idx >>, type, taken)
          /\ ShiftRight(g, 0) \in GhrType
      BY <1>2, <2>2, RollbackIs
    <3> QED
      BY <3>1
  <2>4. ShiftRight(g, 0) = g
    <3>1. ASSUME NEW i \in 0 .. GhrSize - 1
          PROVE  ShiftRight(g, 0)[i] = g[i]
      <4>1. 0 >= 0 /\ i + 0 < GhrSize /\ i + 0 = i
        BY <1>1
      <4> QED
        BY <2>2, <4>1, ShiftTyped
    <3> QED
      BY <2>3, <3>1, SameGhr
  <2> QED
    BY <2>1, <2>3, <2>4
<1> QED
  BY <1>3, <1>4

\* c counts, for each instruction, the outcomes pushed since it was predicted:
\* no more than one for each instruction from it on.
Traced(L, g, x, c) ==
  /\ c \in [1 .. Len(L) + 1 -> Nat] /\ c[Len(L) + 1] = 0
  /\ \A i, j \in 1 .. Len(L) + 1 : i <= j => c[j] <= c[i] /\ c[i] <= c[j] + (j - i)
  /\ \A i \in 1 .. Len(L) : ~L[i].fault => Behind(L[i].at, g, x, c[i])

HistoryInv == PredictorInv /\ \E c : Traced(insts, ghr, ghrIdx, c)

\* The history after a step: b bits on.
Grown(g, x, g2, x2, b) ==
  \A at \in MetaType, n \in 0 .. InFlight - 1 : Behind(at, g, x, n) => Behind(at, g2, x2, n + b)

(* A prediction adds one branch to the history, or none.                   *)
LEMMA SpeculateGrows ==
  ASSUME LongHistory, NEW g \in GhrType, NEW x \in Idx, NEW type, NEW taken
  PROVE  \E b \in {0, 1} : Grown(g, x, Speculate(<< g, x >>, type, taken)[1], Speculate(<< g, x >>, type, taken)[2], b)
<1>1. CASE type = "COND"
  <2>1. PICK p : p = PushBit(g, taken)
    OBVIOUS
  <2>2. PICK y : y = (x + 1) % (2 ^ IdxBits)
    OBVIOUS
  <2>3. Speculate(<< g, x >>, type, taken) = << p, y >>
    BY <1>1, <2>1, <2>2 DEF Speculate
  <2>4. Grown(g, x, p, y, 1)
    BY <2>1, <2>2, BehindPush DEF Grown
  <2> QED
    BY <2>3, <2>4
<1>2. CASE type # "COND"
  <2>1. Speculate(<< g, x >>, type, taken) = << g, x >>
    BY <1>2 DEF Speculate
  <2>2. \A n \in 0 .. InFlight - 1 : n + 0 = n
    OBVIOUS
  <2>3. Grown(g, x, g, x, 0)
    BY <2>2 DEF Grown
  <2> QED
    BY <2>1, <2>3
<1> QED
  BY <1>1, <1>2

(* A snapshot is at most as many branches behind as instructions are in    *)
(* flight since.                                                           *)
LEMMA TracedBounds ==
  ASSUME NEW L, Len(L) \in Nat, NEW g, NEW x, NEW c, Traced(L, g, x, c), NEW i \in 1 .. Len(L) + 1
  PROVE  c[i] \in 0 .. Len(L) + 1 - i
<1>1. PICK n \in Nat : n = Len(L)
  OBVIOUS
<1>4. n + 1 \in 1 .. n + 1 /\ i <= n + 1 /\ i \in 1 .. n + 1
  BY <1>1
<1>5. c \in [1 .. n + 1 -> Nat] /\ c[n + 1] = 0
  BY <1>1 DEF Traced
<1>2. c[i] \in Nat /\ c[n + 1] = 0 /\ n + 1 \in 1 .. n + 1 /\ i <= n + 1
  BY <1>4, <1>5
<1>3. c[i] <= c[n + 1] + (n + 1 - i)
  BY <1>1, <1>2 DEF Traced
<1> QED
  BY <1>1, <1>2, <1>3

\* Predict and FetchFault: one instruction more, b bits more.
LEMMA TracedAppend ==
  ASSUME NEW L \in Seq(InstType), Len(L) < InFlight, NEW g, NEW x, NEW c, Traced(L, g, x, c),
         NEW g2, NEW x2, NEW b \in {0, 1}, Grown(g, x, g2, x2, b),
         NEW M, Len(M) = Len(L) + 1, \A i \in 1 .. Len(L) : M[i] = L[i],
         NEW y \in InstType, M[Len(L) + 1] = y, y.fault \/ Behind(y.at, g, x, 0)
  PROVE  \E d : Traced(M, g2, x2, d)
<1>1. PICK n \in Nat : n = Len(L)
  BY LenProperties
<1>2. InFlight \in Nat /\ n < InFlight /\ b \in 0 .. 1
  BY <1>1, Parameters
<1> DEFINE d == [i \in 1 .. n + 2 |-> IF i <= n + 1 THEN c[i] + b ELSE 0]
<1>3. \A i \in 1 .. n + 1 : c[i] \in 0 .. n + 1 - i
  BY <1>1, TracedBounds
<1>4. \A i, j \in 1 .. n + 1 : i <= j => c[j] <= c[i] /\ c[i] <= c[j] + (j - i)
  BY <1>1 DEF Traced
<1>5. d \in [1 .. n + 2 -> Nat] /\ d[n + 2] = 0 /\ \A i \in 1 .. n + 1 : d[i] = c[i] + b
  BY <1>2, <1>3
<1> HIDE DEF d
<1>6. ASSUME NEW i \in 1 .. n + 2, NEW j \in 1 .. n + 2, i <= j
      PROVE  d[j] <= d[i] /\ d[i] <= d[j] + (j - i)
  <2>1. CASE j <= n + 1
    <3>1. i \in 1 .. n + 1 /\ j \in 1 .. n + 1
      BY <1>6, <2>1
    <3>2. PICK ci \in Int : ci = c[i]
      BY <1>3, <3>1
    <3>3. PICK cj \in Int : cj = c[j]
      BY <1>3, <3>1
    <3>4. cj <= ci /\ ci <= cj + (j - i) /\ d[i] = ci + b /\ d[j] = cj + b
      BY <1>4, <1>5, <1>6, <3>1, <3>2, <3>3
    <3> QED
      BY <1>2, <3>4
  <2>2. CASE j = n + 2 /\ i <= n + 1
    <3>1. i \in 1 .. n + 1
      BY <2>2
    <3>2. PICK ci \in 0 .. n + 1 - i : ci = c[i]
      BY <1>3, <3>1
    <3>3. d[j] = 0 /\ d[i] = ci + b
      BY <1>5, <2>2, <3>1, <3>2
    <3> QED
      BY <1>2, <2>2, <3>3
  <2>3. CASE i = n + 2 /\ j = n + 2
    BY <1>5, <2>3
  <2> QED
    BY <1>6, <2>1, <2>2, <2>3
<1>7. ASSUME NEW i \in 1 .. n + 1, ~M[i].fault
      PROVE  Behind(M[i].at, g2, x2, d[i])
  <2>1. CASE i <= n
    <3>1. i \in 1 .. Len(L) /\ i \in 1 .. n + 1 /\ M[i] = L[i] /\ L[i] \in InstType
      BY <1>1, <2>1, ElementOfSeq
    <3>2. Behind(L[i].at, g, x, c[i]) /\ L[i].at \in MetaType
      BY <1>7, <3>1 DEF Traced, InstType
    <3>3. PICK ci \in 0 .. n + 1 - i : ci = c[i]
      BY <1>3, <3>1
    <3>4. ci \in 0 .. InFlight - 1
      BY <1>2, <3>3
    <3>5. Behind(L[i].at, g2, x2, ci + b)
      BY <3>2, <3>3, <3>4 DEF Grown
    <3>6. d[i] = ci + b
      BY <1>5, <3>3
    <3> QED
      BY <3>1, <3>5, <3>6
  <2>2. CASE i = n + 1
    <3>1. M[i] = y /\ y.at \in MetaType /\ Behind(y.at, g, x, 0)
      BY <1>1, <1>7, <2>2 DEF InstType
    <3>2. 0 \in 0 .. InFlight - 1 /\ n + 1 \in 1 .. n + 1
      BY <1>2
    <3>3. c[i] = 0
      BY <1>1, <2>2 DEF Traced
    <3>4. d[i] = 0 + b
      BY <1>5, <3>3
    <3> QED
      BY <3>1, <3>2, <3>4 DEF Grown
  <2> QED
    BY <2>1, <2>2
<1>8. Len(M) = n + 1 /\ (n + 1) + 1 = n + 2
  BY <1>1
<1>9. Traced(M, g2, x2, d)
  BY <1>5, <1>6, <1>7, <1>8 DEF Traced
<1> QED
  BY <1>9

\* A resolved instruction changes nothing, a retired one goes.
LEMMA TracedSuffix ==
  ASSUME NEW L, Len(L) \in Nat, NEW g, NEW x, NEW c, Traced(L, g, x, c),
         NEW M, NEW d \in Nat, NEW n \in Nat, Part(L, M, d, n), n + d = Len(L)
  PROVE  \E e : Traced(M, g, x, e)
<1> DEFINE e == [i \in 1 .. n + 1 |-> c[i + d]]
<1>1. \A i \in 1 .. n + 1 : i + d \in 1 .. Len(L) + 1
  OBVIOUS
<1>2. \A i \in 1 .. n + 1 : c[i + d] \in Nat
  BY <1>1 DEF Traced
<1>3. e \in [1 .. n + 1 -> Nat] /\ \A i \in 1 .. n + 1 : e[i] = c[i + d]
  BY <1>2
<1> HIDE DEF e
<1>4. n + 1 \in 1 .. n + 1 /\ (n + 1) + d = Len(L) + 1
  OBVIOUS
<1>5. e[n + 1] = 0
  BY <1>3, <1>4 DEF Traced
<1>6. ASSUME NEW i \in 1 .. n + 1, NEW j \in 1 .. n + 1, i <= j
      PROVE  e[j] <= e[i] /\ e[i] <= e[j] + (j - i)
  <2>1. i + d \in 1 .. Len(L) + 1 /\ j + d \in 1 .. Len(L) + 1 /\ i + d <= j + d /\ (j + d) - (i + d) = j - i
    BY <1>1, <1>6
  <2>2. c[j + d] <= c[i + d] /\ c[i + d] <= c[j + d] + ((j + d) - (i + d))
    BY <2>1 DEF Traced
  <2> QED
    BY <1>3, <2>1, <2>2
<1>7. ASSUME NEW i \in 1 .. n, ~M[i].fault
      PROVE  Behind(M[i].at, g, x, e[i])
  <2>1. SameInst(M[i], L[i + d]) /\ i + d \in 1 .. Len(L) /\ i \in 1 .. n + 1
    BY DEF Part
  <2>2. Behind(L[i + d].at, g, x, c[i + d])
    BY <1>7, <2>1 DEF Traced, SameInst
  <2> QED
    BY <1>3, <2>1, <2>2 DEF SameInst
<1>8. Len(M) = n
  BY DEF Part
<1>9. Traced(M, g, x, e)
  BY <1>3, <1>5, <1>6, <1>7, <1>8 DEF Traced
<1> QED
  BY <1>9

\* brRedirect: back to the snapshot of instruction i, and its outcome.
LEMMA TracedCut ==
  ASSUME LongHistory, NEW L \in Seq(InstType), Len(L) <= InFlight, NEW g \in GhrType, NEW x \in Idx,
         NEW c, Traced(L, g, x, c), NEW i \in 1 .. Len(L), ~L[i].fault,
         NEW C, Part(L, C, 0, i), NEW type, NEW taken,
         NEW h, h = Rollback(<< g, x >>, L[i].at, type, taken)
  PROVE  \E d : Traced(C, h[1], h[2], d)
<1>1. PICK n \in Nat : n = Len(L)
  BY LenProperties
<1>2. InFlight \in Nat /\ n <= InFlight /\ i \in 1 .. n
  BY <1>1, Parameters
<1>18. i \in 1 .. n + 1 /\ i \in 1 .. Len(L) + 1
  BY <1>1, <1>2
<1>19. c[i] \in 0 .. n + 1 - i
  BY <1>1, <1>18, TracedBounds
<1>3. PICK m \in 0 .. n + 1 - i : m = c[i]
  BY <1>19
<1>20. L[i] \in InstType
  BY ElementOfSeq
<1>4. PICK at \in MetaType : at = L[i].at
  BY <1>20 DEF InstType
<1>5. Behind(at, g, x, m) /\ m \in 0 .. InFlight
  BY <1>2, <1>3, <1>4 DEF Traced
<1>6. PICK g1 \in GhrType : g1 = ShiftRight(g, m)
  BY <1>5, RollbackIs
<1>7. h = Speculate(<< g1, at.idx >>, type, taken) /\ at.idx \in Idx
  BY <1>4, <1>5, <1>6, RollbackIs
<1>8. PICK b \in {0, 1} : Grown(g1, at.idx, h[1], h[2], b)
  BY <1>7, SpeculateGrows
<1>9. b \in 0 .. 1
  BY <1>8
<1>10. \A k \in 1 .. n + 1 : c[k] \in 0 .. n + 1 - k
  BY <1>1, TracedBounds
<1>11. \A k, j \in 1 .. n + 1 : k <= j => c[j] <= c[k] /\ c[k] <= c[j] + (j - k)
  BY <1>1 DEF Traced
<1> DEFINE d == [k \in 1 .. i + 1 |-> IF k <= i THEN (c[k] - m) + b ELSE 0]
<1>12. \A k \in 1 .. i : c[k] - m \in 0 .. i - k
  <2> TAKE k \in 1 .. i
  <2>1. k \in 1 .. n + 1 /\ i \in 1 .. n + 1 /\ k <= i
    BY <1>2
  <2>2. PICK ck \in 0 .. n + 1 - k : ck = c[k]
    BY <1>10, <2>1
  <2>3. m <= ck /\ ck <= m + (i - k)
    BY <1>3, <1>11, <2>1, <2>2
  <2>4. ck - m \in 0 .. i - k
    BY <1>2, <1>3, <2>2, <2>3
  <2> QED
    BY <2>2, <2>4
<1>13. d \in [1 .. i + 1 -> Nat] /\ d[i + 1] = 0 /\ \A k \in 1 .. i : d[k] = (c[k] - m) + b
  BY <1>2, <1>9, <1>12
<1> HIDE DEF d
<1>14. ASSUME NEW k \in 1 .. i + 1, NEW j \in 1 .. i + 1, k <= j
       PROVE  d[j] <= d[k] /\ d[k] <= d[j] + (j - k)
  <2>1. CASE j <= i
    <3>1. k \in 1 .. i /\ j \in 1 .. i /\ k \in 1 .. n + 1 /\ j \in 1 .. n + 1
      BY <1>2, <1>14, <2>1
    <3>2. PICK ck \in Int : ck = c[k]
      BY <1>10, <3>1
    <3>3. PICK cj \in Int : cj = c[j]
      BY <1>10, <3>1
    <3>4. cj <= ck /\ ck <= cj + (j - k) /\ d[k] = (ck - m) + b /\ d[j] = (cj - m) + b
      BY <1>11, <1>13, <1>14, <3>1, <3>2, <3>3
    <3> QED
      BY <1>3, <1>9, <3>4
  <2>2. CASE j = i + 1 /\ k <= i
    <3>1. k \in 1 .. i
      BY <2>2
    <3>2. PICK ck \in 0 .. i - k : ck = c[k] - m
      BY <1>12, <3>1
    <3>3. d[j] = 0 /\ d[k] = ck + b
      BY <1>13, <2>2, <3>1, <3>2
    <3> QED
      BY <1>9, <2>2, <3>3
  <2>3. CASE k = i + 1 /\ j = i + 1
    BY <1>13, <2>3
  <2> QED
    BY <1>14, <2>1, <2>2, <2>3
<1>15. ASSUME NEW k \in 1 .. i, ~C[k].fault
       PROVE  Behind(C[k].at, h[1], h[2], d[k])
  <2>1. k + 0 = k /\ k \in 1 .. n /\ k \in 1 .. n + 1
    BY <1>2
  <2>2. SameInst(C[k], L[k]) /\ L[k] \in InstType
    BY <1>1, <2>1, ElementOfSeq DEF Part
  <2>3. PICK a \in MetaType : a = L[k].at /\ a = C[k].at
    BY <2>2 DEF SameInst, InstType
  <2>4. PICK ck \in 0 .. n + 1 - k : ck = c[k]
    BY <1>10, <2>1
  <2>5. Behind(a, g, x, ck)
    BY <1>1, <1>15, <2>1, <2>2, <2>3, <2>4 DEF Traced, SameInst
  <2>6. ck \in 0 .. InFlight /\ m \in 0 .. ck /\ ck - m \in 0 .. InFlight - 1
    <3>1. ck - m \in 0 .. i - k
      BY <1>12, <2>4
    <3> QED
      BY <1>2, <1>3, <2>4, <3>1
  <2>7. Behind(a, ShiftRight(g, m), at.idx, ck - m)
    BY <1>5, <2>5, <2>6, BehindShift
  <2>8. Behind(a, h[1], h[2], (ck - m) + b)
    BY <1>6, <1>8, <2>6, <2>7 DEF Grown
  <2>9. d[k] = (ck - m) + b
    BY <1>13, <2>4
  <2> QED
    BY <2>3, <2>8, <2>9
<1>16. Len(C) = i
  BY DEF Part
<1>17. Traced(C, h[1], h[2], d)
  BY <1>13, <1>14, <1>15, <1>16 DEF Traced
<1> QED
  BY <1>17

(* Nothing in flight.                                                      *)
LEMMA TracedEmpty ==
  ASSUME NEW g, NEW x
  PROVE  \E d : Traced(<< >>, g, x, d)
<1> DEFINE d == [i \in 1 .. 1 |-> 0]
<1>1. Len(<< >>) = 0 /\ d \in [1 .. 1 -> Nat] /\ d[1] = 0 /\ \A i \in 1 .. 1 : i = 1
  BY EmptySeq
<1> HIDE DEF d
<1>2. Traced(<< >>, g, x, d)
  BY <1>1 DEF Traced
<1> QED
  BY <1>2

(* The history at the start.                                               *)
LEMMA HistoryStarts ==
  ASSUME PredictorInit
  PROVE  HistoryInv
<1>1. insts = << >>
  BY DEF PredictorInit
<1> QED
  BY <1>1, PredictorStarts, TracedEmpty DEF HistoryInv

(* How far behind the snapshots are, after each action.                    *)
LEMMA PredictTraces ==
  ASSUME LongHistory, HistoryInv, NEW type \in Types, NEW pc \in Pcs, NEW size \in InstSizes, NEW exc \in BOOLEAN,
         Predict(type, pc, size, exc)
  PROVE  \E d : Traced(insts', ghr', ghrIdx', d)
<1>1. TablesTyped
  BY DEF HistoryInv, PredictorInv
<1>2. PICK R \in Nat : PipeShape(insts, R)
  BY DEF HistoryInv, PredictorInv
<1>3. PICK c : Traced(insts, ghr, ghrIdx, c)
  BY DEF HistoryInv
<1>4. PICK taken \in BOOLEAN : taken = PredictedTaken(type, pc)
  BY PredictionTyped
<1>5. [idx |-> ghrIdx, top |-> top, hist |-> Recent(ghr)] \in MetaType
  BY <1>1, RecentTyped DEF TablesTyped, MetaType, Tops
<1>6. PICK meta \in MetaType : meta = [idx |-> ghrIdx, top |-> top, hist |-> Recent(ghr)]
  BY <1>5
<1>7. PICK g \in GhrType : g = ghr
  BY <1>1 DEF TablesTyped
<1>8. PICK x \in Idx : x = ghrIdx
  BY <1>1 DEF TablesTyped
<1>9. meta.idx = x /\ meta.hist = Recent(g)
  BY <1>6, <1>7, <1>8
<1>10. PICK spec : spec = Speculate(<< g, x >>, type, taken)
  OBVIOUS
<1>11. ghr' = (IF taken THEN Rollback(spec, meta, type, taken) ELSE spec)[1]
       /\ ghrIdx' = (IF taken THEN Rollback(spec, meta, type, taken) ELSE spec)[2]
  BY <1>4, <1>6, <1>7, <1>8, <1>10 DEF Predict, HistoryBecomes
<1>12. Rollback(spec, meta, type, taken) = spec \/ ~taken
  <2>1. CASE taken
    <3>1. Rollback(Speculate(<< g, x >>, type, taken), meta, type, taken) = Speculate(<< g, x >>, type, taken)
          \/ taken # TRUE
      <4>1. CASE taken = TRUE
        BY <1>9, PredictionStands
      <4> QED
        BY <4>1
    <3> QED
      BY <1>10, <2>1, <3>1
  <2> QED
    BY <2>1
<1>13. ghr' = spec[1] /\ ghrIdx' = spec[2]
  BY <1>11, <1>12
<1>14. PICK b \in {0, 1} : Grown(g, x, spec[1], spec[2], b)
  BY <1>10, SpeculateGrows
<1>15. PICK y : y = [type |-> type, pc |-> pc, size |-> size, meta |-> metaIdx, taken |-> taken, exc |-> exc,
                     at |-> meta, resolved |-> FALSE, fault |-> FALSE]
  OBVIOUS
<1>16. y \in InstType /\ y.at = meta
  BY <1>1, <1>15 DEF InstType, TablesTyped
<1>17. insts' = Append(insts, y)
  BY <1>4, <1>6, <1>15 DEF Predict
<1>18. Behind(y.at, g, x, 0)
  BY <1>9, <1>16, BehindSelf
<1>19. insts \in Seq(InstType) /\ Len(insts) < InFlight
  BY <1>2 DEF PipeShape, Predict, IdFree
<1>20. PICK M : M = Append(insts, y)
  OBVIOUS
<1>21. Len(M) = Len(insts) + 1 /\ (\A i \in 1 .. Len(insts) : M[i] = insts[i]) /\ M[Len(insts) + 1] = y
  BY <1>16, <1>19, <1>20, AppendProperties
<1>22. Traced(insts, g, x, c)
  BY <1>3, <1>7, <1>8
<1>23. \E d : Traced(M, spec[1], spec[2], d)
  BY <1>14, <1>16, <1>18, <1>19, <1>21, <1>22, TracedAppend
<1> QED
  BY <1>13, <1>17, <1>20, <1>23

LEMMA FetchFaultTraces ==
  ASSUME HistoryInv, NEW slot \in MetaIds, FetchFault(slot)
  PROVE  \E d : Traced(insts', ghr', ghrIdx', d)
<1>1. TablesTyped
  BY DEF HistoryInv, PredictorInv
<1>2. PICK R \in Nat : PipeShape(insts, R)
  BY DEF HistoryInv, PredictorInv
<1>3. PICK c : Traced(insts, ghr, ghrIdx, c)
  BY DEF HistoryInv
<1>4. PICK y : y = [type |-> "INT", pc |-> CHOOSE pc \in Pcs : TRUE, size |-> CHOOSE n \in InstSizes : TRUE,
                    meta |-> slot, taken |-> FALSE, exc |-> TRUE, at |-> metas[slot],
                    resolved |-> FALSE, fault |-> TRUE]
  OBVIOUS
<1>5. (CHOOSE pc \in Pcs : TRUE) \in Pcs /\ (CHOOSE n \in InstSizes : TRUE) \in InstSizes /\ metas[slot] \in MetaType
  BY <1>1, Parameters DEF TablesTyped
<1>6. y \in InstType /\ y.fault = TRUE
  BY <1>4, <1>5 DEF InstType
<1>7. insts' = Append(insts, y) /\ UNCHANGED << ghr, ghrIdx >>
  BY <1>4 DEF FetchFault
<1>8. insts \in Seq(InstType) /\ Len(insts) < InFlight
  BY <1>2 DEF PipeShape, FetchFault, IdFree
<1>9. PICK M : M = Append(insts, y)
  OBVIOUS
<1>10. Len(M) = Len(insts) + 1 /\ (\A i \in 1 .. Len(insts) : M[i] = insts[i]) /\ M[Len(insts) + 1] = y
  BY <1>6, <1>8, <1>9, AppendProperties
<1>11. \A n \in 0 .. InFlight - 1 : n + 0 = n
  OBVIOUS
<1>12. Grown(ghr, ghrIdx, ghr, ghrIdx, 0)
  BY <1>11 DEF Grown
<1>13. 0 \in {0, 1} /\ y.fault
  BY <1>6
<1>14. \E d : Traced(M, ghr, ghrIdx, d)
  BY <1>3, <1>6, <1>8, <1>10, <1>12, <1>13, TracedAppend
<1> QED
  BY <1>7, <1>9, <1>14

\* PassExe and Train.
LEMMA ResolveTraces ==
  ASSUME HistoryInv, NEW i \in 1 .. Len(insts), InExe(i), insts' = Resolve(i), UNCHANGED << ghr, ghrIdx >>
  PROVE  \E d : Traced(insts', ghr', ghrIdx', d)
<1>1. PICK R \in Nat : PipeShape(insts, R)
  BY DEF HistoryInv, PredictorInv
<1>2. PICK c : Traced(insts, ghr, ghrIdx, c)
  BY DEF HistoryInv
<1>3. i = R + 1 /\ R < Len(insts) /\ Len(insts) \in Nat
  BY <1>1, ExeIsFirst, LenProperties DEF PipeShape
<1>4. PICK M : M = [insts EXCEPT ![R + 1].resolved = TRUE]
  OBVIOUS
<1>8. Part(insts, M, 0, Len(insts))
  BY <1>1, <1>3, <1>4, ResolveOne
<1>5. Part(insts, M, 0, Len(insts)) /\ Len(insts) + 0 = Len(insts) /\ 0 \in Nat
  BY <1>3, <1>8
<1>6. \E e : Traced(M, ghr, ghrIdx, e)
  BY <1>2, <1>3, <1>5, TracedSuffix
<1>7. insts' = M
  BY <1>3, <1>4 DEF Resolve
<1> QED
  BY <1>6, <1>7

LEMMA RetireTraces ==
  ASSUME HistoryInv, Retire
  PROVE  \E d : Traced(insts', ghr', ghrIdx', d)
<1>1. PICK R \in Nat : PipeShape(insts, R)
  BY DEF HistoryInv, PredictorInv
<1>2. PICK c : Traced(insts, ghr, ghrIdx, c)
  BY DEF HistoryInv
<1>3. R >= 1 /\ Len(insts) \in Nat /\ Len(insts) >= 1
  <2>1. insts \in Seq(InstType) /\ insts # << >> /\ Head(insts) = insts[1] /\ Head(insts).resolved
    BY <1>1, HeadTailProperties DEF Retire, PipeShape
  <2>2. Len(insts) \in Nat /\ 1 \in 1 .. Len(insts) /\ R \in 0 .. Len(insts)
    BY <1>1, <2>1, LenProperties, EmptySeq DEF PipeShape
  <2>3. insts[1].resolved <=> 1 <= R
    BY <1>1, <2>2 DEF PipeShape
  <2> QED
    BY <2>1, <2>2, <2>3
<1>4. PICK T : T = Tail(insts)
  OBVIOUS
<1>5. PICK k \in Nat : k = Len(insts) - 1
  BY <1>3
<1>8. Part(insts, Tail(insts), 1, Len(insts) - 1)
  BY <1>1, <1>3, PipeTail
<1>6. Part(insts, T, 1, k) /\ k + 1 = Len(insts) /\ 1 \in Nat
  BY <1>3, <1>4, <1>5, <1>8
<1>7. \E e : Traced(T, ghr, ghrIdx, e)
  BY <1>2, <1>3, <1>6, TracedSuffix
<1> QED
  BY <1>4, <1>7 DEF Retire

\* A redirect of instruction i goes by the snapshot that was taken for it.
LEMMA RedirectUsesSnapshot ==
  ASSUME HistoryInv, NEW i \in 1 .. Len(insts), ~insts[i].fault
  PROVE  insts[i] \in InstType /\ insts[i].at \in MetaType /\ metas[insts[i].meta] = insts[i].at
<1>1. PICK R \in Nat : PipeShape(insts, R) /\ Kept(insts, metas, metaIdx, R)
  BY DEF HistoryInv, PredictorInv
<1>2. insts[i] \in InstType
  BY <1>1, ElementOfSeq DEF PipeShape
<1> QED
  BY <1>1, <1>2 DEF Kept, KeptFor, InstType

LEMMA BrRedirectTraces ==
  ASSUME LongHistory, HistoryInv, NEW i \in 1 .. Len(insts), NEW taken \in BOOLEAN, BrRedirect(i, taken)
  PROVE  \E d : Traced(insts', ghr', ghrIdx', d)
<1>1. PICK R \in Nat : PipeShape(insts, R)
  BY DEF HistoryInv, PredictorInv
<1>2. PICK c : Traced(insts, ghr, ghrIdx, c)
  BY DEF HistoryInv
<1>3. i = R + 1 /\ R < Len(insts) /\ Len(insts) \in Nat
  BY <1>1, ExeIsFirst, LenProperties DEF PipeShape, BrRedirect
<1>4. ~insts[i].fault
  BY <1>1 DEF PipeShape, BrRedirect
<1>5. PICK h : h = Rollback(<< ghr, ghrIdx >>, insts[i].at, insts[i].type, taken)
  OBVIOUS
<1>6. ghr' = h[1] /\ ghrIdx' = h[2]
  BY <1>4, <1>5, RedirectUsesSnapshot DEF BrRedirect, Redirect, HistoryBecomes
<1>7. PICK M : M = [insts EXCEPT ![R + 1].resolved = TRUE]
  OBVIOUS
<1>8. PICK C : C = SubSeq(M, 1, R + 1)
  OBVIOUS
<1>9. Part(insts, C, 0, i)
  BY <1>1, <1>3, <1>7, <1>8, CutAfter
<1>10. insts' = C
  BY <1>3, <1>7, <1>8 DEF BrRedirect, Resolve
<1>11. ghr \in GhrType /\ ghrIdx \in Idx /\ insts \in Seq(InstType) /\ Len(insts) <= InFlight
  BY <1>1 DEF HistoryInv, PredictorInv, TablesTyped, PipeShape
<1>12. PICK type : type = insts[i].type
  OBVIOUS
<1>13. h = Rollback(<< ghr, ghrIdx >>, insts[i].at, type, taken)
  BY <1>5, <1>12
<1>14. \E d : Traced(C, h[1], h[2], d)
  BY <1>2, <1>4, <1>9, <1>11, <1>13, TracedCut
<1> QED
  BY <1>6, <1>10, <1>14

(* Every step keeps the distances.                                         *)
LEMMA HistoryStepKeepsInv ==
  ASSUME LongHistory, HistoryInv, [PredictorNext]_predictorVars
  PROVE  HistoryInv'
<1>1. PredictorInv'
  BY PredictorStepKeepsInv DEF HistoryInv
<1>2. \E d : Traced(insts', ghr', ghrIdx', d)
  <2>1. CASE \E type \in Types, pc \in Pcs, size \in InstSizes, exc \in BOOLEAN : Predict(type, pc, size, exc)
    BY <2>1, PredictTraces
  <2>2. CASE \E slot \in 0 .. MetaSlots - 1 : FetchFault(slot)
    BY <2>2, FetchFaultTraces DEF MetaIds
  <2>3. CASE \E i \in 1 .. Len(insts) : PassExe(i)
    BY <2>3, ResolveTraces DEF PassExe
  <2>4. CASE \E i \in 1 .. Len(insts), taken \in BOOLEAN : Train(i, taken)
    BY <2>4, ResolveTraces DEF Train
  <2>5. CASE \E i \in 1 .. Len(insts), taken \in BOOLEAN : BrRedirect(i, taken)
    BY <2>5, BrRedirectTraces
  <2>6. CASE Retire
    BY <2>6, RetireTraces
  <2>7. CASE ExcRedirect
    BY <2>7, TracedEmpty DEF ExcRedirect
  <2>8. CASE UNCHANGED predictorVars
    BY <2>8 DEF HistoryInv, predictorVars
  <2> QED
    BY <2>1, <2>2, <2>3, <2>4, <2>5, <2>6, <2>7, <2>8 DEF PredictorNext
<1> QED
  BY <1>1, <1>2 DEF HistoryInv

(* An exception's repair,                                                  *)
LEMMA ExcRedirectRestores ==
  ASSUME LongHistory, HistoryInv, ExcRedirect, ~Head(insts).fault
  PROVE  Recent(ghr') = Head(insts).at.hist /\ top' = Head(insts).at.top
<1>1. PICK R \in Nat : PipeShape(insts, R)
  BY DEF HistoryInv, PredictorInv
<1>2. insts \in Seq(InstType) /\ insts # << >> /\ Head(insts) = insts[1] /\ Len(insts) <= InFlight
  BY <1>1, HeadTailProperties DEF ExcRedirect, PipeShape
<1>3. Len(insts) \in Nat /\ 1 \in 1 .. Len(insts)
  BY <1>2, LenProperties, EmptySeq
<1>4. PICK c : Traced(insts, ghr, ghrIdx, c)
  BY DEF HistoryInv
<1>5. PICK at \in MetaType : at = insts[1].at /\ at = metas[insts[1].meta]
  BY <1>2, <1>3, RedirectUsesSnapshot
<1>6. PICK n \in 0 .. Len(insts) : n = c[1]
  <2>1. 1 \in 1 .. Len(insts) + 1 /\ Len(insts) + 1 - 1 = Len(insts)
    BY <1>3
  <2> QED
    BY <1>3, <1>4, <2>1, TracedBounds
<1>7. n \in 0 .. InFlight
  BY <1>2, <1>3, <1>6, Parameters
<1>8. Behind(at, ghr, ghrIdx, n)
  BY <1>2, <1>3, <1>4, <1>5, <1>6 DEF Traced
<1>9. ghr \in GhrType /\ ghrIdx \in Idx
  BY DEF HistoryInv, PredictorInv, TablesTyped
<1>10. PICK type : type = "INT"
  OBVIOUS
<1>11. PICK taken \in BOOLEAN : taken = FALSE
  OBVIOUS
<1>12. ghr' = Rollback(<< ghr, ghrIdx >>, at, type, taken)[1] /\ top' = TopAfter(at.top, type, Head(insts).size)
  BY <1>2, <1>5, <1>10, <1>11 DEF ExcRedirect, Redirect, HistoryBecomes, RasRedirect
<1>13. Rollback(<< ghr, ghrIdx >>, at, type, taken) = Speculate(<< ShiftRight(ghr, n), at.idx >>, type, taken)
       /\ ShiftRight(ghr, n) \in GhrType
  BY <1>7, <1>8, <1>9, RollbackIs
<1>14. ghr' = ShiftRight(ghr, n)
  BY <1>10, <1>12, <1>13 DEF Speculate
<1>15. \A k \in 0 .. HistBits - 1 : ShiftRight(ghr, n)[k] = at.hist[k]
  BY <1>7, <1>8, <1>9, ShiftedIs
<1>16. PICK g \in GhrType : g = ghr'
  BY <1>13, <1>14
<1>17. \A k \in 0 .. HistBits - 1 : Recent(g)[k] = at.hist[k]
  BY <1>14, <1>15, <1>16, RecentTyped
<1>18. Recent(g) = at.hist
  BY <1>16, <1>17, RecentTyped, SameHist DEF MetaType, Hists
<1>19. top' = at.top
  BY <1>10, <1>12 DEF TopAfter, Pushing
<1> QED
  BY <1>2, <1>5, <1>16, <1>18, <1>19

(* and a branch's.                                                         *)
LEMMA BrRedirectRestores ==
  ASSUME LongHistory, HistoryInv, NEW i \in 1 .. Len(insts), NEW taken \in BOOLEAN, BrRedirect(i, taken)
  PROVE  Recent(ghr') = After(insts[i].at.hist, insts[i].type, taken)
<1>1. PICK R \in Nat : PipeShape(insts, R)
  BY DEF HistoryInv, PredictorInv
<1>2. insts \in Seq(InstType) /\ Len(insts) <= InFlight /\ ~insts[i].fault /\ Len(insts) \in Nat
  BY <1>1, LenProperties DEF BrRedirect, PipeShape
<1>3. PICK c : Traced(insts, ghr, ghrIdx, c)
  BY DEF HistoryInv
<1>4. PICK at \in MetaType : at = insts[i].at /\ at = metas[insts[i].meta]
  BY <1>2, RedirectUsesSnapshot
<1>5. i \in 1 .. Len(insts) + 1
  BY <1>2
<1>6. PICK n \in 0 .. Len(insts) + 1 - i : n = c[i]
  BY <1>2, <1>3, <1>5, TracedBounds
<1>7. n \in 0 .. InFlight
  BY <1>2, <1>6, Parameters
<1>8. Behind(at, ghr, ghrIdx, n)
  BY <1>2, <1>3, <1>4, <1>6 DEF Traced
<1>9. ghr \in GhrType /\ ghrIdx \in Idx
  BY DEF HistoryInv, PredictorInv, TablesTyped
<1>10. PICK type : type = insts[i].type
  OBVIOUS
<1>11. ghr' = Rollback(<< ghr, ghrIdx >>, at, type, taken)[1]
  BY <1>4, <1>10 DEF BrRedirect, Redirect, HistoryBecomes
<1>12. Rollback(<< ghr, ghrIdx >>, at, type, taken) = Speculate(<< ShiftRight(ghr, n), at.idx >>, type, taken)
       /\ ShiftRight(ghr, n) \in GhrType
  BY <1>7, <1>8, <1>9, RollbackIs
<1>13. PICK p \in GhrType : p = ShiftRight(ghr, n)
  BY <1>12
<1>14. \A k \in 0 .. HistBits - 1 : p[k] = at.hist[k]
  BY <1>7, <1>8, <1>9, <1>13, ShiftedIs
<1>15. CASE type = "COND"
  <2>1. PICK g \in GhrType : g = PushBit(p, taken)
    BY PushTyped
  <2>2. ghr' = g
    BY <1>11, <1>12, <1>13, <1>15, <2>1 DEF Speculate
  <2>3. ASSUME NEW k \in 0 .. HistBits - 1
        PROVE  Recent(g)[k] = IF k > 0 THEN at.hist[k - 1] ELSE IF taken THEN 1 ELSE 0
    <3>1. k \in 0 .. GhrSize - 1
      BY Parameters
    <3>2. Recent(g)[k] = g[k]
      BY RecentTyped
    <3>3. g[k] = IF k = 0 THEN (IF taken THEN 1 ELSE 0) ELSE p[k - 1]
      BY <2>1, <3>1, PushTyped
    <3>4. ASSUME k > 0
          PROVE  p[k - 1] = at.hist[k - 1]
      <4>1. k - 1 \in 0 .. HistBits - 1
        BY <3>4, Parameters
      <4> QED
        BY <1>14, <4>1
    <3>5. k = 0 \/ k > 0
      OBVIOUS
    <3> QED
      BY <3>2, <3>3, <3>4, <3>5
  <2>4. Recent(g) = [k \in 0 .. HistBits - 1 |-> IF k > 0 THEN at.hist[k - 1] ELSE IF taken THEN 1 ELSE 0]
    <3> DEFINE S == 0 .. HistBits - 1
               a(k) == IF k > 0 THEN at.hist[k - 1] ELSE IF taken THEN 1 ELSE 0
    <3>1. Recent(g) \in [S -> {0, 1}] /\ \A k \in S : Recent(g)[k] = a(k)
      BY <2>3, RecentTyped
    <3> HIDE DEF S, a
    <3>2. Recent(g) = [k \in S |-> a(k)]
      BY <3>1
    <3> QED
      BY <3>2 DEF S, a
  <2> QED
    BY <1>4, <1>10, <1>15, <2>2, <2>4 DEF After
<1>16. CASE type # "COND"
  <2>1. ghr' = p
    BY <1>11, <1>12, <1>13, <1>16 DEF Speculate
  <2>2. \A k \in 0 .. HistBits - 1 : Recent(p)[k] = at.hist[k]
    BY <1>14, RecentTyped
  <2>3. Recent(p) = at.hist
    BY <2>2, RecentTyped, SameHist DEF MetaType, Hists
  <2> QED
    BY <1>4, <1>10, <1>16, <2>1, <2>3 DEF After
<1> QED
  BY <1>15, <1>16

(* The snapshots are where a rollback looks for them, in every reachable   *)
(* state.                                                                  *)
LEMMA HistorySafe ==
  ASSUME LongHistory
  PROVE  PredictorSpec => []HistoryInv
<1>1. PredictorInit => HistoryInv
  BY HistoryStarts
<1>2. HistoryInv /\ [PredictorNext]_predictorVars => HistoryInv'
  BY HistoryStepKeepsInv
<1> QED
  BY <1>1, <1>2, PTL DEF PredictorSpec

(* A repair brings back the history an instruction was predicted with,      *)
(* followed by its outcome, and an exception the top of the RAS with it     *)
(* (GHR::update, RAS::redirect): for every width of ghr_idx and every size  *)
(* of the history that leave room for the instructions in flight, as the    *)
(* shipped parameters do.                                                  *)
THEOREM RepairsBringBack ==
  ASSUME GhrSize >= HistBits + InFlight, InFlight < 2 ^ (IdxBits - 1)
  PROVE  PredictorSpec => HistoryRestored
<1>1. LongHistory
  BY DEF LongHistory
<1>2. PredictorSpec => []HistoryInv
  BY <1>1, HistorySafe
<1>3. HistoryInv /\ [PredictorNext]_predictorVars
        => [/\ ExcRedirect /\ ~Head(insts).fault =>
                 Recent(ghr') = Head(insts).at.hist /\ top' = Head(insts).at.top
            /\ \A i \in 1 .. Len(insts), taken \in BOOLEAN :
                 BrRedirect(i, taken) => Recent(ghr') = After(insts[i].at.hist, insts[i].type, taken)]_predictorVars
  BY <1>1, ExcRedirectRestores, BrRedirectRestores
<1> QED
  BY <1>2, <1>3, PTL DEF PredictorSpec, HistoryRestored

-----------------------------------------------------------------------------
(* The units side by side: each keeps its own specification.               *)

UnitInv == FifoTypeOK /\ Good(serial) /\ PredictorInv /\ LinesTypeOK

(* Time wraps.                                                             *)
LEMMA TimesClosed ==
  ASSUME NEW t \in Times
  PROVE  0 \in Times /\ (t + 1) % 2 ^ TimeBits \in Times
<1> DEFINE W == 2 ^ TimeBits
           x == t + 1
<1>1. W \in Nat \ {0} /\ Times = 0 .. W - 1
  BY TimeAssumption, PowerIsPositive DEF Times
<1>2. x \in Int
  BY <1>1
<1> HIDE DEF W, x
<1>3. x % W \in 0 .. W - 1 /\ 0 \in 0 .. W - 1
  BY <1>1, <1>2, ModulusTyped
<1> QED
  BY <1>1, <1>3 DEF W, x

(* An edge of an interrupt line.                                           *)
LEMMA IrqTyped ==
  ASSUME NEW line \in Lines, NEW state, SetIrqState(line, state), irq \subseteq Lines
  PROVE  irq' \subseteq Lines /\ mip' \subseteq Lines
BY DEF SetIrqState

(* Every step keeps the lines typed.                                       *)
LEMMA LinesStepTyped ==
  ASSUME LinesTypeOK, [LinesNext]_lineVars
  PROVE  LinesTypeOK'
<1>1. "MTIMER" \in Lines /\ "MSI" \in Lines /\ "SSI" \in Lines
  BY DEF Lines, MachineLines
<1>2. CASE ClintTick
  <2> DEFINE c == [clint EXCEPT !.mtime = (@ + 1) % 2 ^ TimeBits]
             on == TimerExpired(c)
  <2>1. on \in BOOLEAN
    BY DEF TimerExpired
  <2>2. clint.mtime \in Times
    BY DEF LinesTypeOK
  <2>3. PICK t \in Times : t = (clint.mtime + 1) % 2 ^ TimeBits
    BY <2>2, TimesClosed
  <2>4. c = [clint EXCEPT !.mtime = t]
    BY <2>3
  <2>5. clint' = [c EXCEPT !.irqValid = on] /\ ticked' = TRUE /\ UNCHANGED uartLine
        /\ (UNCHANGED << irq, mip >> \/ SetIrqState("MTIMER", on))
    BY <1>2 DEF ClintTick
  <2> HIDE DEF on, c
  <2>6. clint' \in [mtime: Times, mtimecmp: Times, msip: BOOLEAN, irqValid: BOOLEAN]
    BY <2>1, <2>4, <2>5 DEF LinesTypeOK
  <2>7. irq' \subseteq Lines /\ mip' \subseteq Lines
    BY <1>1, <2>5, IrqTyped DEF LinesTypeOK
  <2> QED
    BY <2>5, <2>6, <2>7 DEF LinesTypeOK
<1>3. CASE EndOfCycle
  BY <1>3 DEF EndOfCycle, LinesTypeOK
<1>4. ASSUME NEW level \in BOOLEAN, UartIrq(level)
      PROVE  LinesTypeOK'
  BY <1>1, <1>4, IrqTyped DEF UartIrq, LinesTypeOK
<1>5. ASSUME NEW level \in BOOLEAN, WriteMsip(level)
      PROVE  LinesTypeOK'
  <2>1. irq' \subseteq Lines /\ mip' \subseteq Lines
    BY <1>1, <1>5, IrqTyped DEF WriteMsip, LinesTypeOK
  <2> QED
    BY <1>5, <2>1 DEF WriteMsip, LinesTypeOK
<1>6. ASSUME NEW t \in Times, WriteTime(t) \/ WriteTimeCmp(t)
      PROVE  LinesTypeOK'
  BY <1>6 DEF WriteTime, WriteTimeCmp, LinesTypeOK
<1>7. ASSUME NEW bits \in SUBSET Lines, WriteMip(bits)
      PROVE  LinesTypeOK'
  BY <1>7 DEF WriteMip, LinesTypeOK
<1>8. CASE UNCHANGED lineVars
  BY <1>8 DEF lineVars, LinesTypeOK
<1> QED
  BY <1>2, <1>3, <1>4, <1>5, <1>6, <1>7, <1>8 DEF LinesNext

(* All lines start low.                                                    *)
LEMMA LinesStartTyped ==
  ASSUME LinesInit
  PROVE  LinesTypeOK
<1>1. 0 \in Times
  <2>1. 2 ^ TimeBits \in Nat \ {0}
    BY TimeAssumption, PowerIsPositive
  <2> QED
    BY <2>1 DEF Times
<1> QED
  BY <1>1 DEF LinesInit, LinesTypeOK

(* The units start as they do alone;                                       *)
LEMMA UnitsStart ==
  ASSUME Init
  PROVE  UnitInv
<1>1. FifoTypeOK
  BY FifoInitRefines DEF Init
<1>2. Good(serial)
  BY SerialInitGood DEF Init
<1>3. PredictorInv /\ LinesTypeOK
  BY PredictorStarts, LinesStartTyped DEF Init
<1> QED
  BY <1>1, <1>2, <1>3 DEF UnitInv

(* and every step of theirs is one they make alone.                        *)
LEMMA UnitsStep ==
  ASSUME UnitInv, [Next]_unitVars
  PROVE  UnitInv'
<1>1. FifoTypeOK'
  <2>1. [FifoNext]_fifo
    BY DEF Next, FifoStep, SerialStep, PredictorStep, LinesStep, unitVars
  <2> QED
    BY <2>1, FifoStepRefines DEF UnitInv
<1>2. Good(serial)'
  <2>1. [SerialNext]_serial
    BY DEF Next, FifoStep, SerialStep, PredictorStep, LinesStep, unitVars
  <2> QED
    BY <2>1, SerialStepGood DEF UnitInv
<1>3. PredictorInv'
  <2>1. [PredictorNext]_predictorVars
    BY DEF Next, FifoStep, SerialStep, PredictorStep, LinesStep, unitVars
  <2> QED
    BY <2>1, PredictorStepKeepsInv DEF UnitInv
<1>4. LinesTypeOK'
  <2>1. [LinesNext]_lineVars
    BY DEF Next, FifoStep, SerialStep, PredictorStep, LinesStep, unitVars
  <2> QED
    BY <2>1, LinesStepTyped DEF UnitInv
<1> QED
  BY <1>1, <1>2, <1>3, <1>4 DEF UnitInv

(* Every unit is typed in every reachable state: the counters of GShareBP    *)
(* stay in their width, the indices of the rings and of the RAS in their     *)
(* arrays, the receiver within the trigger's FIFO, mip within its lines.     *)
THEOREM UnitsTypeCorrect == Spec => []TypeOK
<1>1. Init => UnitInv
  BY UnitsStart
<1>2. UnitInv /\ [Next]_unitVars => UnitInv'
  BY UnitsStep
<1>3. UnitInv => TypeOK
  BY GoodIs, PredictorInvTyped DEF UnitInv, TypeOK
<1> QED
  BY <1>1, <1>2, <1>3, PTL DEF Spec

=============================================================================
