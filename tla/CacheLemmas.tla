----------------------------- MODULE CacheLemmas -----------------------------
(***************************************************************************)
(* Facts about the operators of module Cache that the proofs about the     *)
(* caches cite: what the updates of the tag array and of the LRU lists     *)
(* preserve.                                                               *)
(***************************************************************************)
EXTENDS Cache, SequenceTheorems, TLAPS

(* Cache::splitAddr yields a set of the cache.                             *)
LEMMA SetOfInRange ==
  ASSUME NEW line \in Lines
  PROVE  SetOf(line) \in Sets
  BY CacheAssumption DEF SetOf, Sets

(* The tag arrays of Cache::afterLoad are tag arrays.                      *)
LEMMA EmptyTagsType == EmptyTags \in TagArray
  BY DEF EmptyTags, TagArray

(* A fill keeps a tag array a tag array.                                   *)
LEMMA InstallType ==
  ASSUME NEW t \in TagArray, NEW w \in Ways, NEW line \in Lines
  PROVE  Install(t, w, line) \in TagArray
  BY SetOfInRange DEF Install, TagArray

(* One tick of a flush keeps a tag array a tag array.                      *)
LEMMA ClearSetType ==
  ASSUME NEW t \in TagArray, NEW s \in Sets
  PROVE  ClearSet(t, s) \in TagArray
  BY DEF ClearSet, TagArray

(* A fill makes its own line present and no other.                         *)
LEMMA PresentAfterInstall ==
  ASSUME NEW t \in TagArray, NEW w \in Ways, NEW line \in Lines, NEW l \in Lines,
         Present(Install(t, w, line), l)
  PROVE  l = line \/ Present(t, l)
<1>1. PICK v \in Ways : Install(t, w, line)[SetOf(l)][v] = l
  BY DEF Present
<1>2. SetOf(l) \in Sets /\ SetOf(line) \in Sets
  BY SetOfInRange
<1>3. Install(t, w, line)[SetOf(l)][v] \in {line, t[SetOf(l)][v]}
  BY <1>2 DEF Install, TagArray
<1> QED
  BY <1>1, <1>3 DEF Present

(* One tick of a flush leaves no line of its set and adds none.            *)
LEMMA PresentAfterClear ==
  ASSUME NEW t \in TagArray, NEW s \in Sets, NEW l \in Lines,
         Present(ClearSet(t, s), l)
  PROVE  SetOf(l) # s /\ Present(t, l)
<1>1. PICK v \in Ways : ClearSet(t, s)[SetOf(l)][v] = l
  BY DEF Present
<1>2. SetOf(l) \in Sets /\ l # NoLine
  BY SetOfInRange, CacheAssumption
<1>3. SetOf(l) # s
  BY <1>1, <1>2 DEF ClearSet, TagArray
<1>4. ClearSet(t, s)[SetOf(l)] = t[SetOf(l)]
  BY <1>2, <1>3 DEF ClearSet, TagArray
<1> QED
  BY <1>1, <1>3, <1>4 DEF Present

(* LRUReplace::setParams leaves every list with all its ways.              *)
LEMMA InitVictimsType == InitVictims \in VictimLists
<1>1. [i \in 1 .. Way |-> i - 1] \in [1 .. Way -> Ways]
  BY CacheAssumption DEF Ways
<1>2. [i \in 1 .. Way |-> i - 1] \in Seq(Ways)
  BY <1>1, SeqDef, CacheAssumption
<1>3. [i \in 1 .. Way |-> i - 1] # <<>>
  <2>1. Len([i \in 1 .. Way |-> i - 1]) = Way
    BY <1>1, <1>2, LenProperties, CacheAssumption
  <2> QED
    BY <2>1, CacheAssumption
<1> QED
  BY <1>2, <1>3 DEF InitVictims, VictimLists

(* LRUReplace::get returns a way and never empties a list.                 *)
LEMMA VictimType ==
  ASSUME NEW l \in VictimLists, NEW s \in Sets
  PROVE  /\ Victim(l, s) \in Ways
         /\ Rotate(l, s) \in VictimLists
<1>1. l[s] \in Seq(Ways) /\ l[s] # <<>>
  BY DEF VictimLists
<1>2. Head(l[s]) \in Ways /\ Tail(l[s]) \in Seq(Ways)
  BY <1>1
<1>3. Append(Tail(l[s]), Head(l[s])) \in Seq(Ways) \ {<<>>}
  <2>1. \A q \in Seq(Ways), w \in Ways :
          Append(q, w) \in Seq(Ways) /\ Len(Append(q, w)) = Len(q) + 1
    OBVIOUS
  <2>2. Len(Append(Tail(l[s]), Head(l[s]))) = Len(Tail(l[s])) + 1
    BY <1>2, <2>1
  <2>3. Len(Tail(l[s])) \in Nat
    BY <1>2
  <2>4. Len(Append(Tail(l[s]), Head(l[s]))) # 0
    BY <2>2, <2>3
  <2> QED
    BY <1>2, <2>1, <2>4, EmptySeq
<1> QED
  BY <1>2, <1>3 DEF Victim, Rotate, VictimLists

=============================================================================
