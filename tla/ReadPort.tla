------------------------------ MODULE ReadPort ------------------------------
(***************************************************************************)
(* What a cache and the memory behind it agree on: a cache asks only when  *)
(* nothing it asked for is out, and for each request the memory accepted   *)
(* it is called back once.  MemorySystem is one side of it, DataSide and   *)
(* FetchSide are the other: what each assumes of the other is here.        *)
(***************************************************************************)
EXTENDS Naturals

CONSTANT Callers     \* the caches, by callback id

VARIABLE out         \* per caller: requests accepted and not called back

Init == out = [c \in Callers |-> 0]

Ask(c) == out[c] = 0 /\ out' = [out EXCEPT ![c] = 1]

CallBack(c) == out[c] = 1 /\ out' = [out EXCEPT ![c] = 0]

Next == \E c \in Callers : Ask(c) \/ CallBack(c)

Spec == Init /\ [][Next]_out

=============================================================================
