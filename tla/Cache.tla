------------------------------- MODULE Cache -------------------------------
(***************************************************************************)
(* The part of class Cache (cache.h, cache.cpp) and of its replacement     *)
(* policy LRUReplace (lru.cpp) that ICache and DCache share: where a line  *)
(* lives, whether it is present, which way is filled next and what one     *)
(* tick of a flush clears.                                                 *)
(*                                                                         *)
(* An address is the number of the line that holds it: the tag and the set *)
(* determine the line and are determined by it, and no decision of the     *)
(* caches looks at the offset.  A way holds the line whose tag it stores,  *)
(* or NoLine when its valid bit is off (the tag of an invalid way is never *)
(* read).  CacheTagv::dirty and CacheTagv::shared are left out: the code   *)
(* writes them and reads them nowhere, so an eviction writes nothing back. *)
(***************************************************************************)
EXTENDS Naturals, Sequences

CONSTANTS
  Lines,     \* the line numbers the program touches
  SetSize,   \* Cache::set_size
  Way,       \* Cache::way
  NoLine     \* a way whose valid bit is off

ASSUME CacheAssumption ==
  /\ Lines \subseteq Nat
  /\ SetSize \in Nat \ {0}
  /\ Way \in Nat \ {0}
  /\ NoLine \notin Lines

Sets == 0 .. SetSize - 1
Ways == 0 .. Way - 1

(* Cache::splitAddr: the set is the low bits of the line number. *)
SetOf(line) == line % SetSize

(* A tag array, and the arrays Cache::afterLoad allocates: nothing valid. *)
TagArray == [Sets -> [Ways -> Lines \cup {NoLine}]]
EmptyTags == [s \in Sets |-> [w \in Ways |-> NoLine]]

(* Cache::match *)
Present(tagvs, line) == \E w \in Ways : tagvs[SetOf(line)][w] = line

(* The write of a fill to tagvs[set][way]. *)
Install(tagvs, way, line) == [tagvs EXCEPT ![SetOf(line)][way] = line]

(* One tick of a flush: every way of one set loses its valid bit. *)
ClearSet(tagvs, s) == [tagvs EXCEPT ![s] = [w \in Ways |-> NoLine]]

(* LRUReplace keeps, per set, a list of ways; setParams fills it in order. *)
VictimLists == [Sets -> Seq(Ways) \ {<<>>}]
InitVictims == [s \in Sets |-> [i \in 1 .. Way |-> i - 1]]

(* LRUReplace::get: the front of the list is the victim and moves to the   *)
(* back.  No hit calls LRUReplace::insert, so this is the only change.     *)
Victim(lru, s) == Head(lru[s])
Rotate(lru, s) == [lru EXCEPT ![s] = Append(Tail(@), Head(@))]

=============================================================================
