------------------------------- MODULE RowLog -------------------------------
(***************************************************************************)
(* What LogDB promises its callers: the rows added reach the file once, in *)
(* their order and a slice at a time, at most a ring of them is held back, *)
(* close writes the rest, and nothing happens to the file afterwards.      *)
(***************************************************************************)
EXTENDS Naturals, Sequences

CONSTANTS
  Capacity,   \* the rows that may be held back
  Batch       \* the rows of one write

VARIABLES
  added,      \* the rows added; a row is its number
  file,       \* the rows in the file
  closed

vars == << added, file, closed >>

FirstRows(n) == [i \in 1 .. n |-> i]

Init == added = 0 /\ file = << >> /\ closed = FALSE

Add ==
  /\ ~closed /\ added < Len(file) + Capacity
  /\ added' = added + 1 /\ UNCHANGED << file, closed >>

Write ==
  /\ ~closed /\ Len(file) + Batch <= added
  /\ file' = FirstRows(Len(file) + Batch) /\ UNCHANGED << added, closed >>

Close ==
  /\ ~closed /\ closed' = TRUE
  /\ file' = FirstRows(added) /\ UNCHANGED added

Next == Add \/ Write \/ Close

Spec == Init /\ [][Next]_vars

=============================================================================
